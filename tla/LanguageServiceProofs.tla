------------------------ MODULE LanguageServiceProofs ------------------------
(***************************************************************************)
(* Proofs about LanguageService for every number of callers, projects,     *)
(* files, texts and calls, servers of every kind, pools and sessions of    *)
(* every size, and any number of dropped calls and dead servers.           *)
(***************************************************************************)
EXTENDS LanguageService, FiniteSetTheorems, TLAPS

USE LanguageServiceAssumption

-----------------------------------------------------------------------------
(* Types                                                                   *)

Leasing == {"insert", "check", "stale", "use", "sync", "ask", "broken", "wait"}
OnFile  == Leasing \cup {"acquire", "start"}

SessionType ==
    [state : {"none", "live", "dead", "closed"}, kind : Kinds,
     open : [Files -> Document], server : [Files -> Document],
     sent : [Files -> SUBSET Document], reopened : SUBSET Files, cut : BOOLEAN]

CallType ==
    [pc : OnFile \cup {"idle", "evict", "return"},
     kind : {"navigate", "symbols", "diagnostics"},
     file : Files \cup {None}, text : Texts \cup {NoText}, lease : Sessions \cup {None},
     tries : {0, 1}, evicted : SUBSET Sessions,
     then : {"return", "acquire", "start", "check"},
     expected : Nat, got : Texts \cup {NoText, "mixed"}, sound : BOOLEAN]

\* A call has a lease exactly where it uses one, and evicted sessions only
\* while it closes them.
WellFormed(m) ==
    /\ m \in CallType
    /\ m.pc \in OnFile \/ (m.pc = "evict" /\ m.then # "return") => m.file \in Files
    /\ m.lease # None <=> m.pc \in Leasing \/ (m.pc = "evict" /\ m.then = "check")
    /\ m.evicted # {} => m.pc = "evict"
    /\ m.pc # "evict" => m.then = "return"

Typed ==
    /\ pool \in [Keys -> Sessions \cup {None}]
    /\ sessions \in [Sessions -> SessionType]
    /\ owner \in [Sessions -> Callers \cup {None}]
    /\ call \in [Callers -> CallType] /\ \A c \in Callers : WellFormed(call[c])

\* The call record of c becomes m.
Becomes(c, m) == call' = [call EXCEPT ![c] = m]

LEMMA NoSessionTyped == NoSession \in SessionType
  BY DEF NoSession, SessionType, Kinds, Document, Closed

LEMMA IdleTyped == WellFormed(Idle)
  BY DEF Idle, WellFormed, CallType, OnFile, Leasing

LEMMA NoneIsNobody == None \notin Sessions /\ None \notin Callers
  BY DEF Sessions

\* A call that leaves the pool with a lease or without, what it has evicted
\* and what it does next; and its record after that.
MayLeave(m, gone, lease, then) ==
    /\ WellFormed(m)
    /\ gone \in SUBSET Sessions /\ lease \in Sessions \cup {None}
    /\ then \in {"return", "acquire", "start", "check"}
    /\ then # "return" => m.file \in Files
    /\ then = "check" <=> lease # None

HasLeft(n, gone, lease, then) ==
    /\ WellFormed(n)
    /\ n.pc \in {"evict", then} /\ (gone # {} => n.pc = "evict")
    /\ n.lease = lease /\ n.evicted = gone
    /\ n.pc = "evict" => n.then = then

LEMMA CloseFirstTyped ==
    ASSUME NEW m, NEW gone, NEW lease, NEW then, MayLeave(m, gone, lease, then)
    PROVE  HasLeft(CloseFirst(m, gone, lease, then), gone, lease, then)
  <1> USE DEF MayLeave, HasLeft
  <1>1. CASE gone = {} /\ then = "return"
    BY ZenonT(60), <1>1, IdleTyped DEF CloseFirst, Idle, WellFormed, CallType, OnFile, Leasing
  <1>2. CASE gone = {} /\ then # "return"
    <2> DEFINE n == [m EXCEPT !.pc = then, !.evicted = {}, !.lease = lease, !.then = "return"]
    <2>1. CloseFirst(m, gone, lease, then) = n
      BY <1>2 DEF CloseFirst
    <2>3. m \in CallType /\ then \in OnFile /\ lease \in Sessions \cup {None}
      BY <1>2 DEF WellFormed, OnFile, Leasing
    <2>2. /\ n \in CallType
          /\ n.pc = then /\ n.evicted = {} /\ n.lease = lease /\ n.then = "return" /\ n.file = m.file
      <3> HIDE DEF MayLeave, HasLeft
      <3>1. /\ m \in [pc : OnFile \cup {"idle", "evict", "return"},
                     kind : {"navigate", "symbols", "diagnostics"},
                     file : Files \cup {None}, text : Texts \cup {NoText},
                     lease : Sessions \cup {None},
                     tries : {0, 1}, evicted : SUBSET Sessions,
                     then : {"return", "acquire", "start", "check"},
                     expected : Nat, got : Texts \cup {NoText, "mixed"}, sound : BOOLEAN]
            /\ then \in OnFile \cup {"idle", "evict", "return"}
        BY <2>3 DEF CallType
      <3>2. n \in CallType
        BY <2>3, <3>1 DEF CallType
      <3>3. n.pc = then /\ n.evicted = {} /\ n.lease = lease /\ n.then = "return" /\ n.file = m.file
        BY <3>1
      <3> QED BY <3>2, <3>3
    <2> HIDE DEF n
    <2> QED BY <1>2, <2>1, <2>2 DEF WellFormed, OnFile, Leasing
  <1>3. CASE gone # {}
    <2> DEFINE n == [m EXCEPT !.pc = "evict", !.evicted = gone, !.lease = lease, !.then = then]
    <2>1. CloseFirst(m, gone, lease, then) = n
      BY <1>3 DEF CloseFirst
    <2>2. /\ n \in CallType
          /\ n.pc = "evict" /\ n.evicted = gone /\ n.lease = lease /\ n.then = then /\ n.file = m.file
      BY DEF WellFormed, CallType, OnFile, Leasing
    <2> HIDE DEF n
    <2> QED BY <1>3, <2>1, <2>2 DEF WellFormed, OnFile, Leasing
  <1> QED BY <1>1, <1>2, <1>3

-----------------------------------------------------------------------------
(* What a session knows of its server                                      *)

\* As long as no send was dropped the server has the text that is on record,
\* which it was sent, and a version is of one text of a document that was
\* opened once.  A server that is not sent documents has none.
Sound(r) ==
    /\ r.kind = "off" => \A f \in Files : r.open[f] = Closed
    /\ ~r.cut =>
         /\ r.server = r.open
         /\ \A f \in Files :
              /\ IsOpen(r, f) => r.open[f] \in r.sent[f]
              /\ f \notin r.reopened =>
                   /\ \A d, e \in r.sent[f] : d.version = e.version => d = e
                   /\ IsOpen(r, f) => \A d \in r.sent[f] : d.version <= r.open[f].version

\* What a session has been through is not forgotten.
Grows(r, x) ==
    /\ x.kind = r.kind
    /\ r.cut => x.cut
    /\ r.reopened \subseteq x.reopened
    /\ \A f \in Files : r.sent[f] \subseteq x.sent[f]

Fit(r) == r \in SessionType /\ Sound(r)

LEMMA NoSessionFit == Fit(NoSession) /\ \A k \in Kinds, st \in {"live"} :
                          Fit([NoSession EXCEPT !.state = st, !.kind = k])
  <1>1. ASSUME NEW st \in {"none", "live"}, NEW k \in Kinds
        PROVE  Fit([NoSession EXCEPT !.state = st, !.kind = k])
    <2> DEFINE x == [NoSession EXCEPT !.state = st, !.kind = k]
    <2>1. /\ x \in SessionType
          /\ x.open = [f \in Files |-> Closed] /\ x.server = [f \in Files |-> Closed]
          /\ x.sent = [f \in Files |-> {}]
      BY NoSessionTyped DEF NoSession, SessionType
    <2> HIDE DEF x
    <2>2. Sound(x)
      BY <2>1 DEF Sound, IsOpen, Closed
    <2> QED BY <2>1, <2>2 DEF Fit, x
  <1>2. Fit(NoSession)
    <2>1. /\ NoSession.open = [f \in Files |-> Closed] /\ NoSession.server = NoSession.open
          /\ NoSession.sent = [f \in Files |-> {}]
      BY DEF NoSession
    <2>2. Sound(NoSession)
      BY <2>1 DEF Sound, IsOpen, Closed
    <2> QED BY <2>2, NoSessionTyped DEF Fit
  <1> QED BY <1>1, <1>2

LEMMA ClosedTyped == Closed \in Document /\ Closed.version = 0
  BY DEF Closed, Document

\* Room is made for a document by closing another one.
LEMMA RoomIsFit ==
    ASSUME NEW r, Fit(r), NEW f \in Files, NEW x \in RoomFor(r, f)
    PROVE  Fit(x) /\ Grows(r, x) /\ x.state = r.state /\ x.cut = r.cut
  <1> USE DEF Fit
  <1>1. CASE x = r
    BY <1>1 DEF Grows, SessionType
  <1>2. ASSUME NEW old \in Files, r.kind # "off",
               x = [r EXCEPT !.open[old] = Closed, !.server[old] = Closed]
        PROVE  Fit(x) /\ Grows(r, x) /\ x.state = r.state /\ x.cut = r.cut
    <2>1. /\ x \in SessionType
          /\ x.kind = r.kind /\ x.cut = r.cut /\ x.sent = r.sent /\ x.reopened = r.reopened
          /\ x.state = r.state
          /\ x.open = [r.open EXCEPT ![old] = Closed]
          /\ x.server = [r.server EXCEPT ![old] = Closed]
      BY <1>2, ClosedTyped DEF SessionType
    <2>2. Grows(r, x)
      BY <2>1 DEF Grows
    <2>3. r.open \in [Files -> Document] /\ r.server \in [Files -> Document]
      BY DEF SessionType
    <2>4. Sound(x)
      BY <1>2, <2>1, <2>3, ClosedTyped DEF Sound, IsOpen
    <2> QED BY <2>1, <2>2, <2>4
  <1> QED BY <1>1, <1>2 DEF RoomFor, IsOpen

LEMMA ToldTyped ==
    ASSUME NEW r, NEW f, NEW t \in Texts \cup {NoText}
    PROVE  Told(r, f, t) \in Texts \cup {NoText, "mixed"}
  BY DEF Told

LEMMA SyncIsFit ==
    ASSUME NEW r, Fit(r), NEW f \in Files, NEW t \in Texts \cup {NoText}
    PROVE  LET x == SyncDocument(r, f, t)
           IN /\ Fit(x) /\ Grows(r, x) /\ x.state = r.state /\ x.cut = r.cut
              /\ x.kind = "off" \/ UpToDate(x, f, t)
  <1> USE DEF Fit
  <1>1. CASE r.kind = "off" \/ UpToDate(r, f, t)
    BY <1>1 DEF SyncDocument, Grows, SessionType
  <1>2. CASE ~(r.kind = "off" \/ UpToDate(r, f, t))
    <2> DEFINE v == r.open[f].version + 1
               now == [version |-> v, text |-> t]
               told == [version |-> v, text |-> Told(r, f, t)]
               x == SyncDocument(r, f, t)
    <2>1. /\ r.open \in [Files -> Document] /\ r.server \in [Files -> Document]
          /\ r.sent \in [Files -> SUBSET Document] /\ r.reopened \subseteq Files
          /\ r.open[f].version \in Nat /\ v \in Nat /\ v > 0 /\ v > r.open[f].version
      BY DEF SessionType, Document
    <2>2. now \in Document /\ told \in Document
      BY <2>1, ToldTyped DEF Document
    <2> DEFINE re == IF ~IsOpen(r, f) /\ r.sent[f] # {} THEN r.reopened \cup {f} ELSE r.reopened
    <2>3. x = [r EXCEPT !.open[f] = now, !.server[f] = told, !.sent[f] = @ \cup {told},
                        !.reopened = re]
      BY <1>2 DEF SyncDocument
    <2> HIDE DEF now, told, re
    <2>9. /\ re \subseteq Files
          /\ [r.open EXCEPT ![f] = now] \in [Files -> Document]
          /\ [r.server EXCEPT ![f] = told] \in [Files -> Document]
          /\ [r.sent EXCEPT ![f] = @ \cup {told}] \in [Files -> SUBSET Document]
      BY <2>1, <2>2 DEF re
    <2>4. /\ x \in SessionType
          /\ x.kind = r.kind /\ x.cut = r.cut /\ x.state = r.state /\ x.reopened = re
          /\ x.open = [r.open EXCEPT ![f] = now]
          /\ x.server = [r.server EXCEPT ![f] = told]
          /\ x.sent = [r.sent EXCEPT ![f] = @ \cup {told}]
      BY ZenonT(60), <2>3, <2>9 DEF SessionType
    <2> HIDE DEF x
    <2>5. Grows(r, x)
      BY <2>1, <2>4 DEF Grows, re
    <2>6. UpToDate(x, f, t)
      BY <2>1, <2>4 DEF UpToDate, IsOpen, now
    <2>7. ASSUME ~r.cut
          PROVE  told = now
      BY <2>7 DEF Sound, Told, told, now
    <2>8. Sound(x)
      <3>1. x.kind # "off"
        BY <1>2, <2>4
      <3>2. ASSUME ~x.cut
            PROVE  x.server = x.open
        BY <2>1, <2>4, <2>7, <3>2 DEF Sound
      <3>3. ASSUME ~x.cut, NEW g \in Files, g # f
            PROVE  /\ IsOpen(x, g) => x.open[g] \in x.sent[g]
                   /\ g \notin x.reopened =>
                        /\ \A d, e \in x.sent[g] : d.version = e.version => d = e
                        /\ IsOpen(x, g) => \A d \in x.sent[g] : d.version <= x.open[g].version
        <4>1. /\ x.open[g] = r.open[g] /\ x.sent[g] = r.sent[g]
              /\ g \in r.reopened => g \in x.reopened
          BY <2>1, <2>4, <3>3 DEF re
        <4> QED BY <2>4, <3>3, <4>1 DEF Sound, IsOpen
      <3>4. ASSUME ~x.cut
            PROVE  IsOpen(x, f) => x.open[f] \in x.sent[f]
        BY <2>1, <2>4, <2>7, <3>4
      <3>5. ASSUME ~x.cut, f \notin x.reopened
            PROVE  /\ \A d, e \in x.sent[f] : d.version = e.version => d = e
                   /\ \A d \in x.sent[f] : d.version <= x.open[f].version
        <4>1. f \notin r.reopened /\ (IsOpen(r, f) \/ r.sent[f] = {})
          BY <2>4, <3>5 DEF re
        <4>2. \A d \in r.sent[f] : d \in Document /\ d.version \in Nat /\ d.version < v
          BY <2>1, <2>4, <3>5, <4>1 DEF Sound, Document, IsOpen
        <4>3. \A d, e \in r.sent[f] : d.version = e.version => d = e
          BY <2>4, <3>5, <4>1 DEF Sound
        <4>4. x.sent[f] = r.sent[f] \cup {told} /\ told.version = v /\ x.open[f].version = v
          BY <2>1, <2>4 DEF told, now
        <4> QED BY <2>1, <4>2, <4>3, <4>4
      <3> QED BY <3>1, <3>2, <3>3, <3>4, <3>5 DEF Sound
    <2> QED BY <2>4, <2>5, <2>6, <2>8 DEF x
  <1> QED BY <1>1, <1>2

LEMMA CutIsFit ==
    ASSUME NEW r, Fit(r), NEW x, x \in SessionType, Grows(r, x)
    PROVE  Fit(Cut(r, x)) /\ Grows(r, Cut(r, x)) /\ Cut(r, x).open = r.open
           /\ Cut(r, x).state = r.state
  BY DEF Fit, Sound, Cut, Grows, SessionType

LEMMA ShutIsFit ==
    ASSUME sessions \in [Sessions -> SessionType], NEW s \in Sessions, Fit(sessions[s])
    PROVE  /\ Shut(s) \in [Sessions -> SessionType]
           /\ \A x \in Sessions : x # s => Shut(s)[x] = sessions[x]
           /\ Fit(Shut(s)[s]) /\ Grows(sessions[s], Shut(s)[s]) /\ Shut(s)[s].state = "closed"
  <1> DEFINE none == [f \in Files |-> Closed]
             x == [sessions[s] EXCEPT !.state = "closed", !.open = none, !.server = none]
  <1>1. none \in [Files -> Document]
    BY ClosedTyped
  <1>2. Shut(s) = [sessions EXCEPT ![s] = x]
    BY DEF Shut
  <1>3. /\ x \in SessionType /\ x.state = "closed" /\ x.open = none /\ x.server = none
        /\ x.kind = sessions[s].kind /\ x.cut = sessions[s].cut
        /\ x.sent = sessions[s].sent /\ x.reopened = sessions[s].reopened
    BY <1>1 DEF SessionType, Fit
  <1> HIDE DEF x
  <1>4. Sound(x) /\ Grows(sessions[s], x)
    BY <1>3, ClosedTyped DEF Fit, Sound, Grows, IsOpen
  <1> QED BY <1>2, <1>3, <1>4 DEF Fit

-----------------------------------------------------------------------------
(* What a step does to leases and to the pool                              *)

L(c) == call[c].lease
V(c) == call[c].evicted

Gives(c) ==
    /\ L(c)' = None /\ V(c)' = {} /\ UNCHANGED pool
    /\ call'[c].pc \notin {"insert", "evict"}

Moves(c) ==
    /\ L(c)' = L(c) /\ V(c)' = V(c) /\ UNCHANGED pool
    /\ call'[c].pc \notin {"insert", "evict"}

Closes(c) ==
    /\ \E s \in V(c) : V(c)' = V(c) \ {s}
    /\ L(c)' = L(c) /\ UNCHANGED pool /\ call[c].pc = "evict"
    /\ call'[c].pc # "insert"
    /\ call'[c].pc = "evict" => call'[c].then = call[c].then

Takes(c) ==
    /\ L(c) = None /\ V(c) = {}
    /\ V(c)' \subseteq Evictable /\ pool' = PoolWithout(V(c)')
    /\ L(c)' = None \/ (Pooled(L(c)') /\ L(c)' \notin V(c)')
    /\ call'[c].pc # "insert"

Starts(c) ==
    /\ L(c) = None /\ V(c) = {}
    /\ L(c)' \in Sessions /\ ~Referenced(L(c)') /\ V(c)' = {} /\ UNCHANGED pool
    /\ call'[c].pc = "insert"

Joins(c) ==
    /\ call[c].pc = "insert" /\ V(c) = {}
    /\ pool[Key(c)] = None /\ Cardinality({k \in Keys : pool[k] # None}) < MaxPooled
    /\ pool' = [pool EXCEPT ![Key(c)] = L(c)] /\ L(c)' = L(c) /\ V(c)' = {}
    /\ call'[c].pc = "check"

Loses(c) ==
    /\ call[c].pc = "insert"
    /\ V(c)' = {L(c)} /\ UNCHANGED pool
    /\ L(c)' = None \/ Pooled(L(c)')
    /\ call'[c].pc = "evict"

Discards(c) ==
    /\ V(c) = {} /\ V(c)' \subseteq {L(c)}
    /\ pool' = PoolWithout(V(c)') /\ L(c)' = None
    /\ call'[c].pc # "insert" /\ call'[c].then \notin {"start", "check"}

Empties(c) ==
    /\ L(c) = None /\ V(c) = {} /\ V(c)' = {s \in Sessions : Pooled(s)}
    /\ pool' = [k \in Keys |-> None] /\ L(c)' = None
    /\ call'[c].pc # "insert" /\ call'[c].then \notin {"start", "check"}

RefStep(c) ==
    \/ Gives(c) \/ Moves(c) \/ Closes(c) \/ Takes(c) \/ Starts(c) \/ Joins(c) \/ Loses(c)
    \/ Discards(c) \/ Empties(c)

\* Everything a caller does.
Acts(c) ==
    \/ \E f \in Files, t \in Texts \cup {NoText} : \E kind \in CallsOf[f] : Begin(c, kind, f, t)
    \/ Step(c) \/ Cancel(c) \/ Shutdown(c)

LEMMA NextIs == Next <=> (\E c \in Callers : Acts(c)) \/ \E s \in Sessions : ServerDies(s)
  BY DEF Next, Acts

LEMMA BecomesTyped ==
    ASSUME Typed, NEW c \in Callers, NEW m, WellFormed(m), Becomes(c, m)
    PROVE  /\ call' \in [Callers -> CallType] /\ \A d \in Callers : WellFormed(call'[d])
           /\ call'[c] = m /\ \A d \in Callers \ {c} : call'[d] = call[d]
  BY DEF Typed, Becomes, WellFormed

\* The step of c on its own record and on the pool.
Effect(c) ==
    /\ call' \in [Callers -> CallType] /\ \A d \in Callers : WellFormed(call'[d])
    /\ \A d \in Callers \ {c} : call'[d] = call[d]
    /\ pool' \in [Keys -> Sessions \cup {None}]
    /\ RefStep(c)

LEMMA PoolWithoutTyped ==
    ASSUME Typed, NEW gone
    PROVE  PoolWithout(gone) \in [Keys -> Sessions \cup {None}]
  BY DEF Typed, PoolWithout

LEMMA PlainEffect ==
    ASSUME Typed, NEW c \in Callers, NEW m, WellFormed(m), Becomes(c, m), UNCHANGED pool,
           m.pc \notin {"insert", "evict"},
           m.lease = None \/ (m.lease = call[c].lease /\ call[c].pc # "evict")
    PROVE  Effect(c)
  BY ZenonT(60), BecomesTyped DEF Effect, RefStep, Gives, Moves, L, V, Typed, WellFormed

\* What a call that ends leaves to the tool.
Returns(c, got, version, sound) ==
    /\ call'[c].pc = "return" /\ call'[c].kind = call[c].kind /\ call'[c].text = call[c].text
    /\ call'[c].got = got /\ call'[c].expected = version /\ call'[c].sound = sound

LEMMA FinishEffect ==
    ASSUME Typed, NEW c \in Callers, NEW got \in Texts \cup {NoText, "mixed"}, NEW version \in Nat,
           NEW sound \in BOOLEAN, Finish(c, got, version, sound), UNCHANGED pool
    PROVE  Effect(c) /\ Returns(c, got, version, sound)
  <1> DEFINE m == [Idle EXCEPT !.pc = "return", !.kind = call[c].kind, !.text = call[c].text,
                               !.got = got, !.expected = version, !.sound = sound]
  <1>0. /\ Idle \in CallType /\ Idle.lease = None /\ Idle.evicted = {} /\ Idle.then = "return"
        /\ call[c].kind \in {"navigate", "symbols", "diagnostics"}
        /\ call[c].text \in Texts \cup {NoText}
    <2>1. call[c] \in CallType
      BY DEF Typed
    <2> QED BY <2>1, IdleTyped DEF WellFormed, Idle, CallType
  <1>1. /\ m \in CallType /\ m.pc = "return" /\ m.lease = None /\ m.evicted = {}
        /\ m.then = "return"
        /\ m.kind = call[c].kind /\ m.text = call[c].text
        /\ m.got = got /\ m.expected = version /\ m.sound = sound
    BY ZenonT(60), <1>0 DEF CallType
  <1>2. Becomes(c, m)
    BY DEF Finish, Becomes
  <1> HIDE DEF m
  <1>3. WellFormed(m)
    BY <1>1 DEF WellFormed, OnFile, Leasing
  <1>4. Effect(c) /\ call'[c] = m
    BY <1>1, <1>2, <1>3, PlainEffect, BecomesTyped
  <1> QED BY <1>1, <1>4 DEF Returns

LEMMA IdleEffect ==
    ASSUME Typed, NEW c \in Callers, Becomes(c, Idle), UNCHANGED pool
    PROVE  Effect(c)
  BY IdleTyped, PlainEffect DEF Idle

LEMMA BeginEffect ==
    ASSUME Typed, NEW c \in Callers, NEW f \in Files, NEW t \in Texts \cup {NoText},
           NEW kind \in CallsOf[f], Begin(c, kind, f, t)
    PROVE  Effect(c)
  <1> DEFINE m == [Idle EXCEPT !.pc = "acquire", !.kind = kind, !.file = f, !.text = t]
  <1>1. kind \in {"navigate", "symbols", "diagnostics"}
    OBVIOUS
  <1>2. /\ m \in CallType /\ m.pc = "acquire" /\ m.lease = None /\ m.evicted = {}
        /\ m.then = "return" /\ m.file = f
    BY <1>1, IdleTyped DEF WellFormed, Idle, CallType, OnFile
  <1>3. Becomes(c, m) /\ UNCHANGED pool
    BY DEF Begin, Becomes
  <1> HIDE DEF m
  <1>4. WellFormed(m)
    BY <1>2 DEF WellFormed, OnFile, Leasing
  <1> QED BY <1>2, <1>3, <1>4, PlainEffect

\* Where a call goes on with its lease.
Goes(c, pc, n) == Becomes(c, [call[c] EXCEPT !.pc = pc, !.expected = n])

Went(c, pc, n) ==
    /\ call'[c].pc = pc /\ call'[c].expected = n
    /\ call'[c].kind = call[c].kind /\ call'[c].text = call[c].text
    /\ call'[c].file = call[c].file /\ L(c)' = L(c)

LEMMA OnEffect ==
    ASSUME Typed, NEW c \in Callers, call[c].pc \in Leasing, NEW pc \in Leasing \ {"insert"},
           NEW n \in Nat, UNCHANGED pool, Goes(c, pc, n)
    PROVE  Effect(c) /\ Went(c, pc, n)
  <1> DEFINE m == [call[c] EXCEPT !.pc = pc, !.expected = n]
  <1>1. /\ m \in CallType /\ m.pc = pc /\ m.lease = call[c].lease /\ m.evicted = call[c].evicted
        /\ m.then = call[c].then /\ m.file = call[c].file /\ m.expected = n
        /\ m.kind = call[c].kind /\ m.text = call[c].text
    <2>1. call[c] \in CallType /\ pc \in OnFile
      BY DEF Typed, OnFile
    <2> QED BY <2>1 DEF CallType
  <1>2. Becomes(c, m)
    BY DEF Goes
  <1>3. WellFormed(call[c])
    BY DEF Typed
  <1> HIDE DEF m
  <1>4. WellFormed(m)
    BY <1>1, <1>3 DEF WellFormed, OnFile, Leasing
  <1>5. Effect(c) /\ call'[c] = m
    BY <1>1, <1>2, <1>4, PlainEffect, BecomesTyped DEF Leasing
  <1> QED BY <1>1, <1>5 DEF Went, L

LEMMA AcquireEffect ==
    ASSUME Typed, NEW c \in Callers, Acquire(c)
    PROVE  Effect(c)
  <1>1. /\ WellFormed(call[c]) /\ call[c].pc = "acquire" /\ L(c) = None /\ V(c) = {}
        /\ call[c].file \in Files /\ Key(c) \in Keys
    BY DEF Typed, Acquire, At, WellFormed, OnFile, Leasing, L, V, Key
  <1> DEFINE Leave(gone, lease, then) ==
               /\ pool' = PoolWithout(gone)
               /\ call' = [call EXCEPT ![c] = CloseFirst(call[c], gone, lease, then)]
  <1>2. ASSUME NEW gone \in SUBSET Evictable, NEW lease \in Sessions \cup {None},
               NEW then \in {"return", "start", "check"}, Leave(gone, lease, then),
               then = "check" <=> lease # None,
               lease = None \/ lease = PoolWithout(gone)[Key(c)]
        PROVE  Effect(c)
    <2> DEFINE m == CloseFirst(call[c], gone, lease, then)
    <2>1. gone \subseteq Sessions
      BY DEF Evictable
    <2>9. MayLeave(call[c], gone, lease, then)
      BY <1>1, <1>2, <2>1 DEF MayLeave
    <2>2. /\ WellFormed(m) /\ m.evicted = gone /\ m.lease = lease
          /\ m.pc \in {"evict", then}
      BY <2>9, CloseFirstTyped DEF HasLeft
    <2>3. Becomes(c, m)
      BY <1>2 DEF Becomes
    <2> HIDE DEF m
    <2>4. /\ call' \in [Callers -> CallType] /\ \A d \in Callers : WellFormed(call'[d])
          /\ call'[c] = m /\ \A d \in Callers \ {c} : call'[d] = call[d]
      BY <2>2, <2>3, BecomesTyped
    <2>5. lease = None \/ (Pooled(lease) /\ lease \notin gone)
      BY <1>1, <1>2 DEF PoolWithout, Pooled
    <2>6. Takes(c)
      <3>1. L(c)' = lease /\ V(c)' = gone /\ call'[c].pc # "insert"
        BY <1>2, <2>2, <2>4 DEF L, V
      <3>2. pool' = PoolWithout(gone) /\ gone \subseteq Evictable
        BY <1>2
      <3> QED BY <1>1, <2>5, <3>1, <3>2 DEF Takes
    <2> QED BY <1>2, <2>4, <2>6, PoolWithoutTyped DEF Effect, RefStep
  <1>3. ASSUME NEW idle \in SUBSET Evictable, NEW oldest \in Evictable \ idle,
               PoolWithout(idle)[Key(c)] = None, Leave(idle \cup {oldest}, None, "start")
        PROVE  Effect(c)
    BY <1>2, <1>3
  <1>4. ASSUME NEW idle \in SUBSET Evictable, PoolWithout(idle)[Key(c)] # None,
               Leave(idle, PoolWithout(idle)[Key(c)], "check")
        PROVE  Effect(c)
    BY <1>1, <1>2, <1>4, PoolWithoutTyped
  <1>5. ASSUME NEW idle \in SUBSET Evictable, NEW then \in {"start", "return"},
               Leave(idle, None, then)
        PROVE  Effect(c)
    BY <1>2, <1>5
  <1> QED BY <1>3, <1>4, <1>5 DEF Acquire

LEMMA CloseEvictedEffect ==
    ASSUME Typed, NEW c \in Callers, CloseEvicted(c)
    PROVE  Effect(c)
  <1>1. PICK s \in V(c) :
              call' = [call EXCEPT ![c] = CloseFirst(call[c], V(c) \ {s}, L(c), call[c].then)]
    BY DEF CloseEvicted, V, L, Typed
  <1>2. /\ WellFormed(call[c]) /\ call[c].pc = "evict" /\ call[c] \in CallType
        /\ V(c) \subseteq Sessions /\ L(c) \in Sessions \cup {None}
        /\ call[c].then \in {"return", "acquire", "start", "check"}
        /\ call[c].then # "return" => call[c].file \in Files
        /\ call[c].then = "check" <=> L(c) # None
    <2>1. WellFormed(call[c]) /\ call[c].pc = "evict" /\ call[c] \in CallType
      BY DEF Typed, CloseEvicted, At
    <2> QED BY <2>1 DEF WellFormed, CallType, Leasing, L, V
  <1> DEFINE gone == V(c) \ {s}
             m == CloseFirst(call[c], gone, L(c), call[c].then)
  <1>3. /\ WellFormed(m) /\ m.evicted = V(c) \ {s} /\ m.lease = L(c)
        /\ m.pc \in {"evict", call[c].then} /\ (m.pc = "evict" => m.then = call[c].then)
    <2>1. MayLeave(call[c], gone, L(c), call[c].then)
      BY <1>2 DEF MayLeave
    <2>2. HasLeft(m, gone, L(c), call[c].then)
      <3> HIDE DEF gone
      <3> QED BY <2>1, CloseFirstTyped
    <2> QED BY <2>2 DEF HasLeft
  <1>4. Becomes(c, m) /\ UNCHANGED pool
    BY <1>1 DEF Becomes, CloseEvicted
  <1> HIDE DEF m
  <1>5. /\ call' \in [Callers -> CallType] /\ \A d \in Callers : WellFormed(call'[d])
        /\ call'[c] = m /\ \A d \in Callers \ {c} : call'[d] = call[d]
    BY <1>3, <1>4, BecomesTyped
  <1>6. Closes(c)
    BY <1>2, <1>3, <1>4, <1>5 DEF Closes, L, V
  <1> QED BY <1>4, <1>5, <1>6 DEF Effect, RefStep, Typed

LEMMA StartEffect ==
    ASSUME Typed, NEW c \in Callers, Start(c)
    PROVE  Effect(c)
  <1> DEFINE s == CHOOSE x \in Sessions : ~Referenced(x)
             m == [call[c] EXCEPT !.pc = "insert", !.lease = s]
  <1>1. s \in Sessions /\ ~Referenced(s)
    BY DEF Start
  <1>2. call[c] \in CallType /\ WellFormed(call[c]) /\ call[c].pc = "start"
    BY DEF Typed, Start, At
  <1> HIDE DEF s
  <1>9. call' = [call EXCEPT ![c].pc = "insert", ![c].lease = s] /\ UNCHANGED pool
    BY DEF Start, s
  <1>3. Becomes(c, m) /\ UNCHANGED pool
    BY <1>2, <1>9 DEF Becomes, Typed
  <1>4. /\ m \in CallType /\ m.pc = "insert" /\ m.lease = s /\ m.evicted = call[c].evicted
        /\ m.then = call[c].then /\ m.file = call[c].file
    BY <1>1, <1>2 DEF CallType, OnFile, Leasing
  <1> HIDE DEF m
  <1>10. L(c) = None /\ V(c) = {} /\ s # None /\ call[c].file \in Files /\ call[c].then = "return"
    BY <1>1, <1>2, NoneIsNobody DEF WellFormed, OnFile, Leasing, L, V
  <1>5. WellFormed(m) /\ L(c) = None /\ V(c) = {}
    BY <1>4, <1>10 DEF WellFormed, OnFile, Leasing, V
  <1>6. /\ call' \in [Callers -> CallType] /\ \A d \in Callers : WellFormed(call'[d])
        /\ call'[c] = m /\ \A d \in Callers \ {c} : call'[d] = call[d]
    BY <1>3, <1>5, BecomesTyped
  <1>7. L(c)' = s /\ V(c)' = {} /\ call'[c].pc = "insert"
    BY <1>4, <1>5, <1>6 DEF L, V
  <1>8. Starts(c)
    BY <1>1, <1>3, <1>5, <1>7 DEF Starts
  <1> QED BY <1>3, <1>6, <1>8 DEF Effect, RefStep, Typed

LEMMA InsertEffect ==
    ASSUME Typed, NEW c \in Callers, Insert(c)
    PROVE  Effect(c) /\ (Joins(c) \/ Loses(c))
  <1>1. /\ call[c] \in CallType /\ WellFormed(call[c]) /\ call[c].pc = "insert"
        /\ L(c) \in Sessions /\ V(c) = {} /\ call[c].file \in Files /\ Key(c) \in Keys
        /\ call[c].then = "return"
    <2>1. call[c] \in CallType /\ WellFormed(call[c]) /\ call[c].pc = "insert"
      BY DEF Typed, Insert, At
    <2> QED BY <2>1 DEF WellFormed, CallType, OnFile, Leasing, L, V, Key
  <1>2. ASSUME NEW lease \in Sessions \cup {None}, NEW then \in {"check", "return"},
               then = "check" <=> lease # None, lease = None \/ Pooled(lease),
               call' = [call EXCEPT ![c] = CloseFirst(call[c], {L(c)}, lease, then)],
               UNCHANGED pool
        PROVE  Effect(c) /\ (Joins(c) \/ Loses(c))
    <2> DEFINE gone == {L(c)}
               m == CloseFirst(call[c], gone, lease, then)
    <2>0. MayLeave(call[c], gone, lease, then) /\ gone # {}
      BY <1>1, <1>2 DEF MayLeave
    <2>9. HasLeft(m, gone, lease, then)
      <3> HIDE DEF gone
      <3> QED BY <2>0, CloseFirstTyped
    <2>1. WellFormed(m) /\ m.evicted = {L(c)} /\ m.lease = lease /\ m.pc = "evict"
      BY <2>0, <2>9 DEF HasLeft
    <2>2. Becomes(c, m)
      BY <1>2 DEF Becomes
    <2> HIDE DEF m
    <2>3. /\ call' \in [Callers -> CallType] /\ \A d \in Callers : WellFormed(call'[d])
          /\ call'[c] = m /\ \A d \in Callers \ {c} : call'[d] = call[d]
      BY <2>1, <2>2, BecomesTyped
    <2>4. L(c)' = lease /\ V(c)' = {L(c)} /\ call'[c].pc = "evict"
      BY <2>1, <2>3 DEF L, V
    <2>5. Loses(c)
      BY <1>1, <1>2, <2>4 DEF Loses
    <2> QED BY <1>2, <2>3, <2>5 DEF Effect, RefStep, Typed
  <1>3. CASE pool[Key(c)] # None
    <2>1. pool[Key(c)] \in Sessions /\ Pooled(pool[Key(c)])
      BY <1>1, <1>3 DEF Typed, Pooled
    <2> QED BY <1>1, <1>2, <1>3, <2>1 DEF Insert, L, Typed
  <1>4. ASSUME pool[Key(c)] = None, Cardinality({k \in Keys : pool[k] # None}) < MaxPooled,
               pool' = [pool EXCEPT ![Key(c)] = call[c].lease],
               call' = [call EXCEPT ![c].pc = "check"]
        PROVE  Effect(c) /\ (Joins(c) \/ Loses(c))
    <2> DEFINE m == [call[c] EXCEPT !.pc = "check"]
    <2>1. /\ m \in CallType /\ m.pc = "check" /\ m.lease = L(c) /\ m.evicted = {}
          /\ m.then = "return" /\ m.file = call[c].file
      BY <1>1 DEF CallType, OnFile, Leasing, L, V
    <2>2. Becomes(c, m)
      BY <1>1, <1>4 DEF Becomes
    <2> HIDE DEF m
    <2>3. WellFormed(m)
      <3>1. m.lease # None
        BY <1>1, <2>1, NoneIsNobody
      <3> QED BY <1>1, <2>1, <3>1 DEF WellFormed, OnFile, Leasing
    <2>4. /\ call' \in [Callers -> CallType] /\ \A d \in Callers : WellFormed(call'[d])
          /\ call'[c] = m /\ \A d \in Callers \ {c} : call'[d] = call[d]
      BY <2>2, <2>3, BecomesTyped
    <2>5. L(c)' = L(c) /\ V(c)' = {} /\ call'[c].pc = "check"
      BY <2>1, <2>4 DEF L, V
    <2>6. Joins(c) /\ pool' \in [Keys -> Sessions \cup {None}]
      BY <1>1, <1>4, <2>5 DEF Joins, L, Typed
    <2> QED BY <2>4, <2>6 DEF Effect, RefStep
  <1>5. CASE pool[Key(c)] = None /\ Cardinality({k \in Keys : pool[k] # None}) >= MaxPooled
    <2>1. CASE Cardinality({k \in Keys : pool[k] # None}) < MaxPooled
      BY <1>2, <1>4, <1>5, <2>1 DEF Insert, L
    <2>2. CASE ~(Cardinality({k \in Keys : pool[k] # None}) < MaxPooled)
      BY <1>2, <1>5, <2>2 DEF Insert, L
    <2> QED BY <2>1, <2>2
  <1> QED BY <1>3, <1>4, <1>5 DEF Insert

LEMMA InvalidateEffect ==
    ASSUME Typed, NEW c \in Callers, call[c].pc \in {"stale", "broken"},
           NEW then \in {"acquire", "return"}, Invalidate(c, then)
    PROVE  Effect(c)
  <1> DEFINE gone == IF pool[Key(c)] = L(c) THEN {L(c)} ELSE {}
             n == CloseFirst(call[c], gone, None, then)
             m == [n EXCEPT !.tries = 1]
  <1>1. /\ call[c] \in CallType /\ WellFormed(call[c]) /\ L(c) \in Sessions /\ V(c) = {}
        /\ call[c].file \in Files
    <2>1. call[c] \in CallType /\ WellFormed(call[c])
      BY DEF Typed
    <2> QED BY <2>1 DEF WellFormed, CallType, OnFile, Leasing, L, V
  <1>2. MayLeave(call[c], gone, None, then)
    BY <1>1 DEF MayLeave
  <1> HIDE DEF gone
  <1>3. /\ WellFormed(n) /\ n.evicted = gone /\ n.lease = None /\ n.pc \in {"evict", then}
        /\ n.pc = "evict" => n.then = then
    BY <1>2, CloseFirstTyped DEF HasLeft
  <1>4. Becomes(c, m) /\ pool' = PoolWithout(gone)
    BY DEF Becomes, Invalidate, L, gone
  <1> HIDE DEF n
  <1>5. /\ m \in CallType /\ m.pc = n.pc /\ m.lease = None /\ m.evicted = gone
        /\ m.then = n.then /\ m.file = n.file
    BY <1>3 DEF WellFormed, CallType
  <1> HIDE DEF m
  <1>6. WellFormed(m)
    BY <1>3, <1>5 DEF WellFormed
  <1>7. /\ call' \in [Callers -> CallType] /\ \A d \in Callers : WellFormed(call'[d])
        /\ call'[c] = m /\ \A d \in Callers \ {c} : call'[d] = call[d]
    BY <1>4, <1>6, BecomesTyped
  <1>8. m.pc # "insert" /\ m.then \notin {"start", "check"}
    BY <1>3, <1>5 DEF WellFormed
  <1>9. L(c)' = None /\ V(c)' = gone /\ call'[c].pc # "insert" /\ call'[c].then \notin {"start", "check"}
    BY <1>5, <1>7, <1>8 DEF L, V
  <1>10. gone \subseteq {L(c)}
    BY DEF gone
  <1>11. Discards(c)
    BY <1>1, <1>4, <1>9, <1>10 DEF Discards
  <1> QED BY <1>4, <1>7, <1>11, PoolWithoutTyped DEF Effect, RefStep

LEMMA ShutdownEffect ==
    ASSUME Typed, NEW c \in Callers, Shutdown(c)
    PROVE  Effect(c)
  <1> DEFINE gone == {s \in Sessions : Pooled(s)}
             m == CloseFirst(call[c], gone, None, "return")
  <1>1. /\ WellFormed(call[c]) /\ call[c].pc = "idle" /\ L(c) = None /\ V(c) = {}
    BY DEF Typed, Shutdown, At, WellFormed, OnFile, Leasing, L, V
  <1>2. /\ WellFormed(m) /\ m.evicted = gone /\ m.lease = None /\ m.pc \in {"evict", "return"}
        /\ m.pc = "evict" => m.then = "return"
    <2>1. MayLeave(call[c], gone, None, "return")
      BY <1>1 DEF MayLeave
    <2> QED BY <2>1, CloseFirstTyped DEF HasLeft
  <1>3. Becomes(c, m) /\ pool' = [k \in Keys |-> None]
    BY DEF Becomes, Shutdown
  <1> HIDE DEF m, gone
  <1>4. /\ call' \in [Callers -> CallType] /\ \A d \in Callers : WellFormed(call'[d])
        /\ call'[c] = m /\ \A d \in Callers \ {c} : call'[d] = call[d]
    BY <1>2, <1>3, BecomesTyped
  <1>5. m.pc # "insert" /\ m.then \notin {"start", "check"}
    BY <1>2 DEF WellFormed
  <1>6. L(c)' = None /\ V(c)' = gone /\ call'[c].pc # "insert" /\ call'[c].then \notin {"start", "check"}
    BY <1>2, <1>4, <1>5 DEF L, V
  <1>7. Empties(c)
    BY <1>1, <1>3, <1>6 DEF Empties, gone
  <1> QED BY <1>3, <1>4, <1>7 DEF Effect, RefStep

LEMMA LeasedIsTyped ==
    ASSUME Typed, NEW c \in Callers, call[c].pc \in Leasing
    PROVE  /\ L(c) \in Sessions /\ call[c].file \in Files /\ V(c) = {}
           /\ call[c] \in CallType /\ sessions[L(c)] \in SessionType
           /\ call[c].text \in Texts \cup {NoText}
  <1>1. call[c] \in CallType /\ WellFormed(call[c])
    BY DEF Typed
  <1>2. L(c) \in Sessions /\ call[c].file \in Files /\ V(c) = {}
    BY <1>1 DEF WellFormed, CallType, OnFile, Leasing, L, V
  <1>3. call[c].text \in Texts \cup {NoText}
    BY <1>1 DEF CallType
  <1> QED BY <1>1, <1>2, <1>3 DEF Typed

LEMMA AnsweredEffect ==
    ASSUME Typed, NEW c \in Callers, Answered(c)
    PROVE  /\ Effect(c)
           /\ call'[c].pc = "return" /\ call'[c].kind = call[c].kind /\ call'[c].text = call[c].text
           /\ call[c].kind = "navigate" =>
                call'[c].got = sessions[L(c)].server[call[c].file].text
           /\ call'[c].sound = ~sessions[L(c)].cut
           /\ call'[c].expected = 0
  <1> DEFINE r == sessions[call[c].lease]
             got == IF call[c].kind = "symbols" THEN NoText ELSE r.server[call[c].file].text
  <1>1. call[c].pc = "ask" /\ UNCHANGED pool /\ Finish(c, got, 0, ~r.cut)
    BY DEF Answered, At
  <1>2. r \in SessionType /\ call[c].file \in Files
    BY <1>1, LeasedIsTyped DEF Leasing, L
  <1>3. got \in Texts \cup {NoText, "mixed"} /\ (~r.cut) \in BOOLEAN
    <2>1. r.server[call[c].file] \in Document
      BY <1>2 DEF SessionType
    <2> QED BY <2>1 DEF Document
  <1>4. Effect(c) /\ Returns(c, got, 0, ~r.cut)
    <2> DEFINE sound == ~r.cut
               zero == 0
    <2>1. zero \in Nat /\ sound \in BOOLEAN /\ Finish(c, got, zero, sound)
      BY <1>1
    <2> HIDE DEF got, sound, zero
    <2>2. Effect(c) /\ Returns(c, got, zero, sound)
      BY <1>1, <1>3, <2>1, FinishEffect
    <2> QED BY <2>2 DEF sound, zero
  <1> QED BY <1>1, <1>4 DEF Returns, L

LEMMA PublishedEffect ==
    ASSUME Typed, NEW c \in Callers, Published(c)
    PROVE  /\ Effect(c)
           /\ call'[c].pc = "return" /\ call'[c].kind = call[c].kind /\ call'[c].text = call[c].text
           /\ \E d \in Snapshots(sessions[L(c)], call[c].file) :
                /\ Matches(d, call[c].expected)
                /\ call'[c].got = d.text /\ call'[c].expected = d.version
                /\ call'[c].sound =
                     (~sessions[L(c)].cut /\ call[c].file \notin sessions[L(c)].reopened)
  <1> DEFINE r == sessions[call[c].lease]
             f == call[c].file
             sound == ~r.cut /\ f \notin r.reopened
  <1>1. PICK d \in Snapshots(r, f) :
             Matches(d, call[c].expected) /\ Finish(c, d.text, d.version, sound)
    BY DEF Published
  <1>2. call[c].pc = "wait" /\ UNCHANGED pool
    BY DEF Published, At
  <1>3. r \in SessionType /\ f \in Files
    BY <1>2, LeasedIsTyped DEF Leasing, L
  <1>4. d.text \in Texts \cup {NoText, "mixed"} /\ d.version \in Nat
    <2>1. r.sent[f] \subseteq Document
      BY <1>3 DEF SessionType
    <2> QED BY <2>1 DEF Snapshots, Document
  <1>5. sound \in BOOLEAN
    OBVIOUS
  <1>6. Effect(c) /\ Returns(c, d.text, d.version, sound)
    <2> DEFINE text == d.text
               version == d.version
    <2>1. text \in Texts \cup {NoText, "mixed"} /\ version \in Nat /\ Finish(c, text, version, sound)
      BY <1>1, <1>4
    <2> HIDE DEF sound, text, version
    <2>2. Effect(c) /\ Returns(c, text, version, sound)
      BY <1>2, <1>5, <2>1, FinishEffect
    <2> QED BY <2>2 DEF text, version
  <1> QED BY <1>1, <1>6 DEF Returns, L

LEMMA EmptyFinishEffect ==
    ASSUME Typed, NEW c \in Callers, StartFails(c) \/ Unsupported(c) \/ NotPublished(c)
    PROVE  Effect(c) /\ call'[c].pc = "return" /\ call'[c].got = NoText
  <1>1. Finish(c, NoText, 0, TRUE) /\ UNCHANGED pool
    BY DEF StartFails, Unsupported, NotPublished
  <1> DEFINE zero == 0
             true == TRUE
  <1>2. zero \in Nat /\ true \in BOOLEAN /\ Finish(c, NoText, zero, true)
    BY <1>1
  <1>3. Effect(c) /\ Returns(c, NoText, zero, true)
    <2> HIDE DEF zero, true
    <2> QED BY <1>1, <1>2, FinishEffect
  <1> QED BY <1>3 DEF Returns

LEMMA SyncEffect ==
    ASSUME Typed, \A s \in Sessions : Fit(sessions[s]), NEW c \in Callers, Sync(c)
    PROVE  /\ Effect(c) /\ call[c].pc = "sync"
           /\ \E x \in RoomFor(sessions[L(c)], call[c].file) :
                LET next == SyncDocument(x, call[c].file, call[c].text)
                IN /\ sessions' = [sessions EXCEPT ![L(c)] = next]
                   /\ \/ /\ Went(c, "wait", next.open[call[c].file].version)
                         /\ call[c].kind = "diagnostics"
                         /\ owner' = [owner EXCEPT ![L(c)] = None]
                      \/ /\ Went(c, "ask", call[c].expected)
                         /\ call[c].kind # "diagnostics"
                         /\ UNCHANGED owner
  <1> DEFINE s == call[c].lease
             f == call[c].file
  <1>1. PICK x \in RoomFor(sessions[s], f) :
          LET next == SyncDocument(x, f, call[c].text)
          IN /\ sessions' = [sessions EXCEPT ![s] = next]
             /\ IF call[c].kind = "diagnostics"
                THEN /\ call' = [call EXCEPT ![c].pc = "wait",
                                             ![c].expected = next.open[f].version]
                     /\ Unlock(c)
                ELSE call' = [call EXCEPT ![c].pc = "ask"] /\ UNCHANGED owner
    BY DEF Sync
  <1>2. /\ call[c].pc = "sync" /\ UNCHANGED pool /\ call[c] \in CallType /\ s \in Sessions /\ f \in Files
        /\ call[c].text \in Texts \cup {NoText} /\ call[c].pc \in Leasing
        /\ "wait" \in Leasing \ {"insert"} /\ "ask" \in Leasing \ {"insert"}
    <2>1. call[c].pc = "sync" /\ UNCHANGED pool
      BY DEF Sync, At
    <2> QED BY <2>1, LeasedIsTyped DEF Leasing, L
  <1> DEFINE next == SyncDocument(x, f, call[c].text)
  <1>3. CASE call[c].kind = "diagnostics"
    <2> DEFINE n == next.open[f].version
    <2>1. n \in Nat
      <3>1. Fit(sessions[s])
        BY <1>2
      <3>2. Fit(next)
        BY <1>1, <1>2, <3>1, RoomIsFit, SyncIsFit
      <3> QED BY <1>2, <3>2 DEF Fit, SessionType, Document
    <2>2. Goes(c, "wait", n)
      BY <1>1, <1>2, <1>3 DEF Goes, Becomes, Typed
    <2>3. Effect(c) /\ Went(c, "wait", n)
      <3> HIDE DEF n
      <3> QED BY <1>2, <2>1, <2>2, OnEffect
    <2> QED BY <1>1, <1>2, <1>3, <2>3 DEF L, Unlock
  <1>4. CASE call[c].kind # "diagnostics"
    <2> DEFINE n == call[c].expected
    <2>1. n \in Nat
      BY <1>2 DEF CallType
    <2>4. call' = [call EXCEPT ![c].pc = "ask"] /\ UNCHANGED owner
      BY <1>1, <1>4
    <2>2. Goes(c, "ask", n)
      BY <1>2, <2>4 DEF CallType, Goes, Becomes, Typed
    <2>3. Effect(c) /\ Went(c, "ask", n)
      <3> HIDE DEF n
      <3> QED BY <1>2, <2>1, <2>2, OnEffect
    <2> QED BY <1>1, <1>2, <1>4, <2>3 DEF L
  <1> QED BY <1>3, <1>4

LEMMA OnwardEffect ==
    ASSUME Typed, NEW c \in Callers, Check(c) \/ Lock(c) \/ SyncFails(c) \/ AskFails(c)
    PROVE  /\ Effect(c)
           /\ \E pc \in {"use", "stale", "ask", "sync", "broken"} : Went(c, pc, call[c].expected)
           /\ Lock(c) /\ call[c].kind # "symbols" => call'[c].pc = "sync"
           /\ ~Lock(c) => call'[c].pc \notin {"ask", "sync"}
  <1>1. PICK pc \in {"use", "stale", "ask", "sync", "broken"} :
           /\ call' = [call EXCEPT ![c].pc = pc] /\ UNCHANGED pool
           /\ Lock(c) /\ call[c].kind # "symbols" => pc = "sync"
           /\ ~Lock(c) => pc \notin {"ask", "sync"}
    <2>1. CASE Check(c)
      BY <2>1 DEF Check, Lock, At
    <2>2. CASE Lock(c)
      BY <2>2 DEF Lock
    <2>3. CASE SyncFails(c) \/ AskFails(c)
      BY <2>3 DEF SyncFails, AskFails, Lock, At
    <2> QED BY <2>1, <2>2, <2>3
  <1>2. call[c].pc \in Leasing /\ pc \in Leasing \ {"insert"}
    BY DEF Check, Lock, SyncFails, AskFails, At, Leasing
  <1>3. call[c] \in CallType
    BY DEF Typed
  <1> DEFINE n == call[c].expected
  <1>4. n \in Nat /\ Goes(c, pc, n)
    BY <1>1, <1>3 DEF CallType, Goes, Becomes, Typed
  <1>5. Effect(c) /\ Went(c, pc, n)
    <2> HIDE DEF n
    <2> QED BY <1>1, <1>2, <1>4, OnEffect
  <1> QED BY <1>1, <1>5 DEF Went


LEMMA CancelEffect ==
    ASSUME Typed, NEW c \in Callers, Cancel(c)
    PROVE  Effect(c) /\ call'[c].pc = "idle"
  <1>1. Becomes(c, Idle) /\ UNCHANGED pool
    BY DEF Cancel, Becomes
  <1>2. call'[c] = Idle
    BY <1>1 DEF Becomes, Typed
  <1>3. call'[c].pc = "idle"
    BY <1>2 DEF Idle
  <1> QED BY <1>1, <1>3, IdleEffect

\* Every step of a caller is one of the nine on leases and the pool.
LEMMA ActsEffect ==
    ASSUME Typed, \A s \in Sessions : Fit(sessions[s]), NEW c \in Callers, Acts(c)
    PROVE  Effect(c)
  <1>1. CASE \E f \in Files, t \in Texts \cup {NoText} : \E kind \in CallsOf[f] : Begin(c, kind, f, t)
    BY <1>1, BeginEffect
  <1>2. CASE Acquire(c) \/ CloseEvicted(c) \/ Start(c) \/ Insert(c)
    BY <1>2, AcquireEffect, CloseEvictedEffect, StartEffect, InsertEffect
  <1>3. CASE StartFails(c) \/ Unsupported(c) \/ NotPublished(c)
    BY <1>3, EmptyFinishEffect
  <1>4. CASE Check(c) \/ Lock(c) \/ SyncFails(c) \/ AskFails(c)
    BY <1>4, OnwardEffect
  <1>5. CASE Sync(c) \/ Answered(c) \/ Published(c)
    BY <1>5, SyncEffect, AnsweredEffect, PublishedEffect
  <1>6. CASE Stale(c)
    <2>1. \E then \in {"acquire", "return"} : Invalidate(c, then)
      BY <1>6 DEF Stale
    <2> QED BY <1>6, <2>1, InvalidateEffect DEF Stale, At
  <1>7. CASE Broken(c)
    BY <1>7, InvalidateEffect DEF Broken, At
  <1>8. CASE Return(c)
    BY <1>8, IdleEffect DEF Return, Becomes
  <1>9. CASE Cancel(c) \/ Shutdown(c)
    BY <1>9, CancelEffect, ShutdownEffect
  <1> QED BY <1>1, <1>2, <1>3, <1>4, <1>5, <1>6, <1>7, <1>8, <1>9 DEF Acts, Step

-----------------------------------------------------------------------------
(* Leases and the pool                                                     *)

Filled == {k \in Keys : pool[k] # None}

\* A session is pooled under one key, and no more sessions than there is room.
PoolFits ==
    /\ \A k, j \in Keys : pool[k] = pool[j] /\ pool[k] # None => k = j
    /\ IsFiniteSet(Filled) /\ Cardinality(Filled) <= MaxPooled

\* A session that was just started is its starter's alone.
NewIsAlone ==
    \A c \in Callers : call[c].pc = "insert" =>
        ~Pooled(L(c)) /\ \A d \in Callers \ {c} : L(d) # L(c) /\ L(c) \notin V(d)

\* Nobody can come by a session that was evicted.
EvictedIsGone ==
    \A c \in Callers : call[c].pc = "evict" /\ call[c].then \in {"check", "start"} =>
        \A s \in V(c) : ~Pooled(s) /\ \A d \in Callers : L(d) # s

Leased == PoolFits /\ NewIsAlone /\ EvictedIsGone

LEMMA FewerFilled ==
    ASSUME Typed, PoolFits, NEW gone, pool' = PoolWithout(gone)
    PROVE  PoolFits' /\ \A s \in Sessions : Pooled(s)' <=> Pooled(s) /\ s \notin gone
  <1>1. \A k \in Keys : pool'[k] = IF pool[k] \in gone THEN None ELSE pool[k]
    BY DEF PoolWithout
  <1>2. Filled' \subseteq Filled
    BY <1>1 DEF Filled
  <1>3. IsFiniteSet(Filled') /\ Cardinality(Filled') <= Cardinality(Filled)
    BY <1>2, FS_Subset DEF PoolFits
  <1>4. IsFiniteSet(Filled)' /\ Cardinality(Filled)' <= MaxPooled
    <2>1. Cardinality(Filled) \in Nat /\ Cardinality(Filled') \in Nat
      BY <1>3, FS_CardinalityType DEF PoolFits
    <2> QED BY <1>3, <2>1 DEF PoolFits
  <1>5. \A k, j \in Keys : pool'[k] = pool'[j] /\ pool'[k] # None => k = j
    BY <1>1 DEF PoolFits
  <1>6. \A s \in Sessions : Pooled(s)' <=> Pooled(s) /\ s \notin gone
    BY <1>1, NoneIsNobody DEF Pooled
  <1> QED BY <1>4, <1>5, <1>6 DEF PoolFits

LEMMA OneMoreFilled ==
    ASSUME Typed, PoolFits, NEW k \in Keys, NEW s \in Sessions, pool[k] = None, ~Pooled(s),
           Cardinality(Filled) < MaxPooled, pool' = [pool EXCEPT ![k] = s]
    PROVE  PoolFits' /\ \A x \in Sessions : Pooled(x)' <=> Pooled(x) \/ x = s
  <1>1. pool'[k] = s /\ \A j \in Keys : j # k => pool'[j] = pool[j]
    BY DEF Typed
  <1>2. Filled' = Filled \cup {k} /\ k \notin Filled
    BY <1>1, NoneIsNobody DEF Filled
  <1>3. IsFiniteSet(Filled \cup {k}) /\ Cardinality(Filled \cup {k}) = Cardinality(Filled) + 1
    BY <1>2, FS_AddElement DEF PoolFits
  <1>4. IsFiniteSet(Filled)' /\ Cardinality(Filled)' <= MaxPooled
    <2>1. Cardinality(Filled) \in Nat
      BY FS_CardinalityType DEF PoolFits
    <2> QED BY <1>2, <1>3, <2>1
  <1>5. \A j, i \in Keys : pool'[j] = pool'[i] /\ pool'[j] # None => j = i
    BY <1>1 DEF PoolFits, Pooled
  <1>6. \A x \in Sessions : Pooled(x)' <=> Pooled(x) \/ x = s
    BY <1>1, NoneIsNobody DEF Pooled
  <1> QED BY <1>4, <1>5, <1>6 DEF PoolFits

LEMMA NamesAreSessions ==
    ASSUME Typed, NEW c \in Callers
    PROVE  /\ L(c) \in Sessions \cup {None} /\ V(c) \subseteq Sessions
           /\ call[c].pc = "insert" => L(c) \in Sessions /\ Key(c) \in Keys
           /\ call[c].pc = "evict" => call[c].then = "check" \/ L(c) = None
           /\ call[c].pc # "evict" => V(c) = {}
  BY DEF Typed, WellFormed, CallType, OnFile, Leasing, L, V, Key

LEMMA PoolFitsKept ==
    ASSUME Typed, Leased, NEW c \in Callers, Effect(c)
    PROVE  /\ PoolFits'
           /\ \A s \in Sessions : Pooled(s)' => Pooled(s) \/ (s = L(c) /\ Joins(c))
  <1>1. CASE Gives(c) \/ Moves(c) \/ Closes(c) \/ Starts(c) \/ Loses(c)
    <2>1. UNCHANGED pool
      BY <1>1 DEF Gives, Moves, Closes, Starts, Loses
    <2> QED BY <2>1 DEF Leased, PoolFits, Filled, Pooled
  <1>2. CASE Takes(c) \/ Discards(c)
    <2>1. pool' = PoolWithout(V(c)')
      BY <1>2 DEF Takes, Discards
    <2> DEFINE gone == V(c)'
    <2>2. pool' = PoolWithout(gone)
      BY <2>1
    <2> HIDE DEF gone
    <2> QED BY <2>2, FewerFilled DEF Leased
  <1>3. CASE Empties(c)
    <2> DEFINE gone == Sessions
    <2>1. pool' = PoolWithout(gone)
      BY <1>3, NoneIsNobody DEF Empties, PoolWithout, Typed
    <2> HIDE DEF gone
    <2> QED BY <2>1, FewerFilled DEF Leased
  <1>4. CASE Joins(c)
    <2>1. Key(c) \in Keys /\ L(c) \in Sessions /\ ~Pooled(L(c))
      BY <1>4, NamesAreSessions DEF Joins, Leased, NewIsAlone
    <2>2. /\ pool[Key(c)] = None /\ Cardinality(Filled) < MaxPooled
          /\ pool' = [pool EXCEPT ![Key(c)] = L(c)]
      BY <1>4 DEF Joins, Filled
    <2>3. PoolFits' /\ \A x \in Sessions : Pooled(x)' <=> Pooled(x) \/ x = L(c)
      BY <2>1, <2>2, OneMoreFilled DEF Leased
    <2> QED BY <1>4, <2>3
  <1> QED BY <1>1, <1>2, <1>3, <1>4 DEF Effect, RefStep

\* What a caller holds after a step of its own.
LEMMA NamesAfter ==
    ASSUME Typed, NEW c \in Callers, Effect(c)
    PROVE  /\ L(c)' = L(c) \/ L(c)' = None \/ Pooled(L(c)') \/ ~Referenced(L(c)')
           /\ \A s \in V(c)' : s \in V(c) \/ Pooled(s) \/ s = L(c)
           /\ call'[c].pc = "insert" => Starts(c)
  <1>1. CASE Gives(c) \/ Moves(c) \/ Closes(c)
    BY <1>1 DEF Gives, Moves, Closes
  <1>2. CASE Takes(c)
    BY <1>2 DEF Takes, Evictable
  <1>3. CASE Starts(c) \/ Joins(c)
    BY <1>3 DEF Starts, Joins
  <1>4. CASE Loses(c)
    BY <1>4 DEF Loses
  <1>5. CASE Discards(c) \/ Empties(c)
    BY <1>5 DEF Discards, Empties
  <1> QED BY <1>1, <1>2, <1>3, <1>4, <1>5 DEF Effect, RefStep

LEMMA NewIsAloneKept ==
    ASSUME Typed, Leased, NEW c \in Callers, Effect(c)
    PROVE  NewIsAlone'
  <1>1. \A d \in Callers \ {c} : call'[d] = call[d] /\ L(d)' = L(d) /\ V(d)' = V(d)
    BY DEF Effect, L, V
  <1>2. ASSUME NEW d \in Callers \ {c}, call'[d].pc = "insert"
        PROVE  Pooled(L(d))' = FALSE /\ \A e \in Callers \ {d} : L(e)' # L(d)' /\ L(d)' \notin V(e)'
    <2>1. /\ call[d].pc = "insert" /\ L(d) \in Sessions /\ ~Pooled(L(d)) /\ L(d)' = L(d)
          /\ \A e \in Callers \ {d} : L(e) # L(d) /\ L(d) \notin V(e)
      BY <1>1, <1>2, NamesAreSessions DEF Leased, NewIsAlone
    <2>2. ~Pooled(L(d))'
      <3>1. \A s \in Sessions : Pooled(s)' => Pooled(s) \/ s = L(c)
        BY PoolFitsKept
      <3>2. Pooled(L(d))' <=> \E k \in Keys : pool'[k] = L(d)
        BY <2>1 DEF Pooled
      <3>3. ~\E k \in Keys : pool'[k] = L(d)
        BY <2>1, <3>1 DEF Pooled
      <3> QED BY <3>2, <3>3
    <2>3. L(c)' # L(d) /\ L(d) \notin V(c)'
      <3>1. ~Unleased(L(d))
        BY DEF Unleased, HeldBy, L
      <3> QED BY <2>1, <3>1, NamesAfter, NoneIsNobody DEF Referenced
    <2> QED BY <1>1, <2>1, <2>2, <2>3
  <1>3. ASSUME call'[c].pc = "insert"
        PROVE  Pooled(L(c))' = FALSE /\ \A e \in Callers \ {c} : L(e)' # L(c)' /\ L(c)' \notin V(e)'
    <2>1. /\ L(c)' \in Sessions /\ ~Pooled(L(c)') /\ UNCHANGED pool
          /\ \A e \in Callers : L(e) # L(c)' /\ L(c)' \notin V(e)
      BY <1>3, NamesAfter DEF Starts, Referenced, Unleased, HeldBy, L, V
    <2> QED BY <1>1, <2>1 DEF Pooled
  <1> QED BY <1>2, <1>3 DEF NewIsAlone

\* A call gives up sessions of others only where nobody holds them.
LEMMA EvictionAfter ==
    ASSUME Typed, Leased, NEW c \in Callers, Effect(c),
           call'[c].pc = "evict", call'[c].then \in {"check", "start"}
    PROVE  \A s \in V(c)' : Pooled(s)' = FALSE /\ L(c)' # s /\ \A d \in Callers \ {c} : L(d) # s
  <1>1. CASE Closes(c)
    BY <1>1 DEF Closes, Leased, EvictedIsGone, Pooled
  <1>2. CASE Takes(c)
    <2>1. /\ V(c)' \subseteq Evictable /\ pool' = PoolWithout(V(c)') /\ (L(c)' \notin V(c)' \/ L(c)' = None)
      BY <1>2 DEF Takes
    <2>2. \A s \in V(c)' : s \in Sessions /\ \A d \in Callers : L(d) # s
      BY <2>1 DEF Evictable, Unleased, HeldBy, L
    <2>3. \A s \in V(c)' : \A k \in Keys : pool'[k] # s
      BY <2>1, <2>2, NoneIsNobody DEF PoolWithout
    <2> QED BY <2>1, <2>2, <2>3, NoneIsNobody DEF Pooled
  <1>3. CASE Loses(c)
    <2>1. /\ call[c].pc = "insert" /\ V(c)' = {L(c)} /\ UNCHANGED pool
          /\ L(c)' = None \/ Pooled(L(c)')
      BY <1>3 DEF Loses
    <2>2. L(c) \in Sessions /\ ~Pooled(L(c)) /\ \A d \in Callers \ {c} : L(d) # L(c)
      BY <2>1, NamesAreSessions DEF Leased, NewIsAlone
    <2> QED BY <2>1, <2>2, NoneIsNobody DEF Pooled
  <1>4. CASE Gives(c) \/ Moves(c) \/ Starts(c) \/ Joins(c) \/ Discards(c) \/ Empties(c)
    BY <1>4 DEF Gives, Moves, Starts, Joins, Discards, Empties
  <1> QED BY <1>1, <1>2, <1>3, <1>4 DEF Effect, RefStep

LEMMA EvictedIsGoneKept ==
    ASSUME Typed, Leased, NEW c \in Callers, Effect(c)
    PROVE  EvictedIsGone'
  <1>1. \A d \in Callers \ {c} : call'[d] = call[d] /\ L(d)' = L(d) /\ V(d)' = V(d)
    BY DEF Effect, L, V
  <1>2. ASSUME NEW d \in Callers \ {c}, call'[d].pc = "evict", call'[d].then \in {"check", "start"},
               NEW s \in V(d)'
        PROVE  Pooled(s)' = FALSE /\ \A e \in Callers : L(e)' # s
    <2>1. /\ s \in V(d) /\ s \in Sessions /\ ~Pooled(s) /\ \A e \in Callers : L(e) # s
      BY <1>1, <1>2, NamesAreSessions DEF Leased, EvictedIsGone
    <2>2. ~Pooled(s)'
      BY <2>1, PoolFitsKept
    <2>3. L(c)' # s
      <3>1. Referenced(s)
        BY <2>1 DEF Referenced, Unleased, HeldBy, V
      <3> QED BY <2>1, <3>1, NamesAfter, NoneIsNobody
    <2> QED BY <1>1, <2>1, <2>2, <2>3
  <1>3. ASSUME call'[c].pc = "evict", call'[c].then \in {"check", "start"}, NEW s \in V(c)'
        PROVE  Pooled(s)' = FALSE /\ \A e \in Callers : L(e)' # s
    BY <1>1, <1>3, EvictionAfter
  <1> QED BY <1>2, <1>3 DEF EvictedIsGone

LEMMA LeasedKept ==
    ASSUME Typed, Leased, NEW c \in Callers, Effect(c)
    PROVE  Leased'
  BY PoolFitsKept, NewIsAloneKept, EvictedIsGoneKept DEF Leased

-----------------------------------------------------------------------------
(* Sessions                                                                *)

\* Each session is fit, and it lives as long as somebody refers to it.
SessionsFit ==
    /\ sessions \in [Sessions -> SessionType]
    /\ \A s \in Sessions : Fit(sessions[s]) /\ (sessions[s].state = "none" <=> ~Referenced(s))

\* What a call does to the sessions at most: the documents of a session that
\* is locked by another call are left alone.
Onward(c, f) ==
    /\ f \in [Sessions -> SessionType]
    /\ \A s \in Sessions :
         /\ Fit(f[s]) /\ Grows(sessions[s], f[s])
         /\ f[s].state = "none" <=> sessions[s].state = "none"
         /\ owner[s] \notin {None, c} => f[s].open = sessions[s].open

\* The same of the sessions that somebody refers to before and after the step.
Undisturbed(c) ==
    \A s \in Sessions : Referenced(s) /\ Referenced(s)' =>
        /\ Grows(sessions[s], sessions'[s])
        /\ owner[s] \notin {None, c} => sessions'[s].open = sessions[s].open

LEMMA GrowsFromItself == \A r \in SessionType : Grows(r, r)
  BY DEF Grows, SessionType

LEMMA SameIsOnward ==
    ASSUME SessionsFit, NEW c \in Callers
    PROVE  Onward(c, sessions)
  BY GrowsFromItself DEF SessionsFit, Onward

LEMMA OneIsOnward ==
    ASSUME SessionsFit, NEW c \in Callers, NEW s \in Sessions, NEW x,
           Fit(x), Grows(sessions[s], x), x.state = "none" <=> sessions[s].state = "none",
           owner[s] \notin {None, c} => x.open = sessions[s].open
    PROVE  Onward(c, [sessions EXCEPT ![s] = x])
  BY GrowsFromItself DEF SessionsFit, Onward, Fit

\* References come about only where a session is started.
LEMMA NoNewReferences ==
    ASSUME Typed, Leased, NEW c \in Callers, Effect(c), NEW s \in Sessions,
           ~Referenced(s), Referenced(s)'
    PROVE  Starts(c) /\ s = L(c)'
  <1>1. \A d \in Callers \ {c} : call'[d] = call[d] /\ L(d)' = L(d) /\ V(d)' = V(d)
    BY DEF Effect, L, V
  <1>2. ~Pooled(s) /\ \A d \in Callers : L(d) # s /\ s \notin V(d)
    BY DEF Referenced, Unleased, HeldBy, L, V
  <1>3. ~Pooled(s)'
    BY <1>2, PoolFitsKept
  <1>4. \A d \in Callers \ {c} : L(d)' # s /\ s \notin V(d)'
    BY <1>1, <1>2
  <1>5. L(c)' = s \/ s \in V(c)'
    BY <1>3, <1>4 DEF Referenced, Unleased, HeldBy, L, V
  <1>6. L(c)' = s /\ s \notin V(c)'
    BY <1>2, <1>5, NamesAfter
  <1>7. ~(Gives(c) \/ Moves(c) \/ Closes(c) \/ Takes(c) \/ Joins(c) \/ Loses(c)
            \/ Discards(c) \/ Empties(c))
    BY <1>2, <1>6, NoneIsNobody
       DEF Gives, Moves, Closes, Takes, Joins, Loses, Discards, Empties
  <1> QED BY <1>6, <1>7 DEF Effect, RefStep

\* A step by which c gives nothing away leaves every reference.
LEMMA ReferencesKept ==
    ASSUME Typed, Leased, NEW c \in Callers, Effect(c), V(c) = {},
           L(c) = None \/ L(c)' = L(c) \/ L(c) \in V(c)',
           NEW s \in Sessions, Referenced(s)
    PROVE  Referenced(s)'
  <1>1. \A d \in Callers \ {c} : call'[d] = call[d] /\ L(d)' = L(d) /\ V(d)' = V(d)
    BY DEF Effect, L, V
  <1>2. CASE \E d \in Callers : L(d) = s \/ s \in V(d)
    <2>1. \E d \in Callers : L(d)' = s \/ s \in V(d)'
      BY <1>1, <1>2, NoneIsNobody
    <2> QED BY <2>1 DEF Referenced, Unleased, HeldBy, L, V
  <1>3. CASE Pooled(s)
    <2>1. PICK k \in Keys : pool[k] = s
      BY <1>3 DEF Pooled
    <2>2. pool'[k] = s \/ s \in V(c)'
      <3>1. CASE Gives(c) \/ Moves(c) \/ Closes(c) \/ Starts(c) \/ Loses(c)
        BY <2>1, <3>1 DEF Gives, Moves, Closes, Starts, Loses
      <3>2. CASE Takes(c) \/ Discards(c)
        BY <2>1, <3>2 DEF Takes, Discards, PoolWithout
      <3>3. CASE Empties(c)
        BY <1>3, <3>3 DEF Empties
      <3>4. CASE Joins(c)
        <4>1. /\ pool[Key(c)] = None /\ pool' = [pool EXCEPT ![Key(c)] = L(c)] /\ k # Key(c)
          BY <2>1, <3>4, NoneIsNobody DEF Joins
        <4> QED BY <2>1, <4>1 DEF Typed
      <3> QED BY <3>1, <3>2, <3>3, <3>4 DEF Effect, RefStep
    <2> QED BY <2>2 DEF Referenced, Pooled, Unleased, HeldBy, V
  <1> QED BY <1>2, <1>3 DEF Referenced, Unleased, HeldBy, L, V

\* Where the references are kept, and where sessions nobody refers to are dropped.
LEMMA OnwardPlain ==
    ASSUME Typed, Leased, SessionsFit, NEW c \in Callers, Effect(c), V(c) = {},
           L(c) = None \/ L(c)' = L(c) \/ L(c) \in V(c)', call'[c].pc # "insert",
           Onward(c, sessions')
    PROVE  SessionsFit' /\ Undisturbed(c)
  <1>1. \A s \in Sessions : Referenced(s)' <=> Referenced(s)
    BY ReferencesKept, NoNewReferences DEF Starts
  <1>2. \A s \in Sessions : sessions'[s].state = "none" <=> ~Referenced(s)'
    BY <1>1 DEF Onward, SessionsFit
  <1> QED BY <1>2 DEF Onward, SessionsFit, Undisturbed

LEMMA OnwardKeep ==
    ASSUME Typed, Leased, SessionsFit, NEW c \in Callers, Effect(c), call'[c].pc # "insert",
           NEW f, Onward(c, f), Keep(f)
    PROVE  SessionsFit' /\ Undisturbed(c)
  <1>1. \A s \in Sessions : Referenced(s)' => Referenced(s)
    BY NoNewReferences DEF Starts
  <1>2. \A s \in Sessions : sessions'[s] = IF Referenced(s)' THEN f[s] ELSE NoSession
    BY DEF Keep
  <1>3. sessions' = [s \in Sessions |-> IF Referenced(s)' THEN f[s] ELSE NoSession]
    BY DEF Keep
  <1>4. sessions' \in [Sessions -> SessionType]
    BY <1>3, NoSessionTyped DEF Onward
  <1>5. \A s \in Sessions : Fit(sessions'[s]) /\ (sessions'[s].state = "none" <=> ~Referenced(s)')
    <2>1. NoSession.state = "none"
      BY DEF NoSession
    <2> QED BY <1>1, <1>2, <2>1, NoSessionFit DEF Onward, SessionsFit
  <1>6. Undisturbed(c)
    BY <1>2 DEF Onward, Undisturbed
  <1> QED BY <1>4, <1>5, <1>6 DEF SessionsFit

LEMMA StartedSession ==
    ASSUME Typed, Leased, SessionsFit, NEW c \in Callers, Start(c)
    PROVE  SessionsFit' /\ Undisturbed(c)
  <1>0. PICK s : s = CHOOSE x \in Sessions : ~Referenced(x)
    OBVIOUS
  <1>1. /\ s \in Sessions /\ ~Referenced(s) /\ call' = [call EXCEPT ![c].pc = "insert", ![c].lease = s]
        /\ call[c].pc = "start"
    BY <1>0 DEF Start, At
  <1>2. PICK kind \in Kinds : sessions' = [sessions EXCEPT ![s] =
                                             [NoSession EXCEPT !.state = "live", !.kind = kind]]
    <2>1. call[c] \in CallType /\ WellFormed(call[c])
      BY DEF Typed
    <2>2. Key(c) \in Keys
      BY <1>1, <2>1 DEF WellFormed, CallType, OnFile, Key
    <2> QED BY <1>0, <2>2 DEF Start, Kinds
  <1> DEFINE x == [NoSession EXCEPT !.state = "live", !.kind = kind]
  <1>3. Fit(x) /\ x.state = "live"
    BY NoSessionFit DEF NoSession
  <1> HIDE DEF x
  <1>4. sessions' = [sessions EXCEPT ![s] = x]
    BY <1>2 DEF x
  <1>5. Effect(c) /\ V(c) = {} /\ L(c) = None /\ L(c)' = s
    <2>1. call[c] \in CallType /\ WellFormed(call[c])
      BY DEF Typed
    <2>2. V(c) = {} /\ L(c) = None
      BY <1>1, <2>1 DEF WellFormed, OnFile, Leasing, V, L
    <2>3. call'[c] = [call[c] EXCEPT !.pc = "insert", !.lease = s]
      BY <1>1 DEF Typed
    <2>4. L(c)' = s
      BY <2>1, <2>3 DEF CallType, L
    <2> QED BY <2>2, <2>4, StartEffect
  <1>6. \A y \in Sessions : y # s => (Referenced(y)' <=> Referenced(y))
    BY <1>5, ReferencesKept, NoNewReferences
  <1>7. Referenced(s)'
    BY <1>5 DEF Referenced, Unleased, HeldBy, L
  <1>8. sessions' \in [Sessions -> SessionType] /\ sessions'[s] = x
        /\ \A y \in Sessions : y # s => sessions'[y] = sessions[y]
    BY <1>1, <1>3, <1>4 DEF SessionsFit, Fit
  <1>9. SessionsFit'
    BY <1>3, <1>6, <1>7, <1>8 DEF SessionsFit
  <1>10. Undisturbed(c)
    BY <1>1, <1>8, GrowsFromItself DEF Undisturbed, SessionsFit
  <1> QED BY <1>9, <1>10

\* A call that brings a document up to date or asks has the lock of its session.
Locked == \A c \in Callers : call[c].pc \in {"sync", "ask"} => owner[L(c)] = c

LEMMA GrowsOn ==
    ASSUME NEW r, NEW x, NEW y, Grows(r, x), Grows(x, y)
    PROVE  Grows(r, y)
  BY DEF Grows

LEMMA CutSessionsOnward ==
    ASSUME Typed, SessionsFit, NEW c \in Callers, Locked, NEW after \in CutSessions(c)
    PROVE  Onward(c, after)
  <1> DEFINE s == L(c)
             r == sessions[s]
             f == call[c].file
  <1>1. CASE after = sessions
    BY <1>1, SameIsOnward
  <1>2. CASE At(c, "sync")
    <2>1. /\ s \in Sessions /\ f \in Files /\ call[c].text \in Texts \cup {NoText}
      BY <1>2, LeasedIsTyped DEF At, Leasing
    <2>2. Fit(r)
      BY <2>1 DEF SessionsFit
    <2>3. PICK x \in {r} \cup RoomFor(r, f) \cup {SyncDocument(y, f, call[c].text) : y \in RoomFor(r, f)} :
             after = [sessions EXCEPT ![s] = Cut(r, x)]
      BY <1>2 DEF CutSessions, At, L
    <2>4. x \in SessionType /\ Grows(r, x)
      <3>1. CASE x = r
        BY <2>2, <3>1, GrowsFromItself DEF Fit
      <3>2. CASE x \in RoomFor(r, f)
        BY <2>1, <2>2, <3>2, RoomIsFit DEF Fit
      <3>3. ASSUME NEW y \in RoomFor(r, f), x = SyncDocument(y, f, call[c].text)
            PROVE  x \in SessionType /\ Grows(r, x)
        <4>1. Fit(y) /\ Grows(r, y)
          BY <2>1, <2>2, <3>3, RoomIsFit
        <4>2. Fit(x) /\ Grows(y, x)
          BY <2>1, <3>3, <4>1, SyncIsFit
        <4> QED BY <4>1, <4>2, GrowsOn DEF Fit
      <3> QED BY <2>3, <3>1, <3>2, <3>3
    <2>5. Fit(Cut(r, x)) /\ Grows(r, Cut(r, x)) /\ Cut(r, x).open = r.open /\ Cut(r, x).state = r.state
      BY <2>2, <2>4, CutIsFit
    <2> DEFINE n == Cut(r, x)
    <2>6. Fit(n) /\ Grows(sessions[s], n) /\ n.open = sessions[s].open /\ n.state = sessions[s].state
      BY <2>5
    <2> HIDE DEF n
    <2>7. Onward(c, [sessions EXCEPT ![s] = n])
      BY <2>1, <2>6, OneIsOnward
    <2> QED BY <2>3, <2>7 DEF n
  <1>3. CASE At(c, "ask") /\ after = [sessions EXCEPT ![s].cut = TRUE]
    <2>1. s \in Sessions
      BY <1>3, LeasedIsTyped DEF At, Leasing
    <2> DEFINE n == [r EXCEPT !.cut = TRUE]
    <2>2. Fit(r) /\ r \in SessionType
      BY <2>1 DEF SessionsFit, Fit
    <2>3. /\ n \in SessionType /\ n.cut = TRUE /\ n.kind = r.kind /\ n.open = r.open
          /\ n.state = r.state /\ n.sent = r.sent /\ n.reopened = r.reopened
      BY <2>2 DEF SessionType
    <2>4. after = [sessions EXCEPT ![s] = n]
      BY <1>3, <2>1 DEF SessionsFit
    <2> HIDE DEF n
    <2>5. Fit(n) /\ Grows(r, n)
      BY <2>2, <2>3 DEF Fit, Sound, Grows
    <2> QED BY <2>1, <2>3, <2>4, <2>5, OneIsOnward
  <1>4. ASSUME NEW x \in V(c), owner[x] = None,
               after = [sessions EXCEPT ![x] = Cut(sessions[x], Shut(x)[x])]
        PROVE  Onward(c, after)
    <2>1. x \in Sessions
      BY <1>4, NamesAreSessions
    <2>2. Fit(sessions[x]) /\ Fit(Shut(x)[x]) /\ Grows(sessions[x], Shut(x)[x])
      BY <2>1, ShutIsFit DEF SessionsFit
    <2> DEFINE n == Cut(sessions[x], Shut(x)[x])
    <2>3. Fit(n) /\ Grows(sessions[x], n) /\ n.open = sessions[x].open /\ n.state = sessions[x].state
      BY <2>2, CutIsFit DEF Fit
    <2> HIDE DEF n
    <2>4. Onward(c, [sessions EXCEPT ![x] = n])
      BY <2>1, <2>3, OneIsOnward
    <2> QED BY <1>4, <2>4 DEF n
  <1>5. CASE At(c, "evict")
    BY <1>1, <1>4, <1>5 DEF CutSessions, At, V
  <1>6. CASE At(c, "ask")
    BY <1>1, <1>3, <1>6 DEF CutSessions, At, L
  <1>7. CASE ~(At(c, "sync") \/ At(c, "ask") \/ At(c, "evict"))
    BY <1>1, <1>7 DEF CutSessions
  <1> QED BY <1>2, <1>5, <1>6, <1>7

LEMMA ClosedSession ==
    ASSUME Typed, Leased, SessionsFit, NEW c \in Callers, CloseEvicted(c)
    PROVE  SessionsFit' /\ Undisturbed(c)
  <1>1. PICK s \in V(c) : owner[s] = None /\ Keep(Shut(s))
    BY DEF CloseEvicted, V
  <1>2. s \in Sessions /\ Referenced(s) /\ sessions[s].state # "none" /\ Fit(sessions[s])
    BY <1>1, NamesAreSessions DEF Referenced, Unleased, HeldBy, V, SessionsFit
  <1> DEFINE f == Shut(s)
  <1>3. /\ f \in [Sessions -> SessionType] /\ \A x \in Sessions : x # s => f[x] = sessions[x]
        /\ Fit(f[s]) /\ Grows(sessions[s], f[s]) /\ f[s].state = "closed"
    BY <1>2, ShutIsFit DEF SessionsFit
  <1> HIDE DEF f
  <1>4. Onward(c, f)
    BY <1>1, <1>2, <1>3, GrowsFromItself DEF Onward, SessionsFit
  <1>5. Effect(c) /\ call'[c].pc # "insert"
    <2>1. Effect(c) /\ V(c) # {} /\ call[c].pc = "evict"
      BY <1>1, CloseEvictedEffect DEF CloseEvicted, At
    <2>2. ~Starts(c)
      BY <2>1 DEF Starts
    <2> QED BY <2>1, <2>2, NamesAfter
  <1>6. Keep(f)
    BY <1>1 DEF f
  <1> QED BY <1>4, <1>5, <1>6, OnwardKeep

\* After every step but those of Start, Lock, Sync, Answered and Published a
\* call is not asking or waiting, and it returns with nothing.
Quiet(c) ==
    /\ call'[c].pc \notin {"insert", "sync", "ask", "wait"}
    /\ call'[c].pc = "return" => call'[c].got = NoText

LEMMA ClosingEnds ==
    ASSUME NEW m \in CallType, NEW gone, NEW lease,
           NEW then \in {"return", "acquire", "start", "check"}
    PROVE  LET n == CloseFirst(m, gone, lease, then)
           IN n.pc \in {"evict", "return", then} /\ (n.pc = "return" => n.got = NoText)
  <1>1. CASE gone = {} /\ then = "return"
    BY <1>1 DEF CloseFirst, Idle
  <1>2. CASE gone = {} /\ then # "return"
    BY <1>2 DEF CloseFirst, CallType
  <1>3. CASE gone # {}
    BY <1>3 DEF CloseFirst, CallType
  <1> QED BY <1>1, <1>2, <1>3

LEMMA ClosingIsQuiet ==
    ASSUME Typed, NEW c \in Callers, NEW gone, NEW lease,
           NEW then \in {"return", "acquire", "start", "check"},
           call' = [call EXCEPT ![c] = CloseFirst(call[c], gone, lease, then)]
    PROVE  Quiet(c)
  <1> DEFINE n == CloseFirst(call[c], gone, lease, then)
  <1>1. n.pc \in {"evict", "return", then} /\ (n.pc = "return" => n.got = NoText)
    BY ClosingEnds DEF Typed
  <1> HIDE DEF n
  <1>2. call'[c] = n
    BY DEF Typed, n
  <1> QED BY <1>1, <1>2 DEF Quiet

LEMMA GivingUpIsQuiet ==
    ASSUME Typed, NEW c \in Callers, Stale(c) \/ Broken(c)
    PROVE  Quiet(c)
  <1>1. PICK then \in {"acquire", "return"} : Invalidate(c, then)
    BY DEF Stale, Broken
  <1>0. call[c].pc \in Leasing
    BY DEF Stale, Broken, At, Leasing
  <1>2. PICK gone \in SUBSET Sessions :
           call' = [call EXCEPT ![c] = [CloseFirst(call[c], gone, None, then) EXCEPT !.tries = 1]]
    <2>1. {L(c)} \in SUBSET Sessions /\ {} \in SUBSET Sessions
      BY <1>0, LeasedIsTyped
    <2> QED BY <1>1, <2>1 DEF Invalidate, L
  <1> DEFINE n == CloseFirst(call[c], gone, None, then)
             m == [n EXCEPT !.tries = 1]
  <1>3. call[c] \in CallType /\ Idle \in CallType
    BY IdleTyped DEF Typed, WellFormed
  <1>4. n.pc \in {"evict", "return", then} /\ (n.pc = "return" => n.got = NoText)
    BY <1>3, ClosingEnds
  <1>5. m.pc = n.pc /\ m.got = n.got
    <2>1. MayLeave(call[c], gone, None, then)
      BY <1>0, LeasedIsTyped DEF MayLeave, Typed
    <2>2. n \in CallType
      BY <2>1, CloseFirstTyped DEF HasLeft, WellFormed
    <2> HIDE DEF n
    <2> QED BY <2>2 DEF CallType
  <1> HIDE DEF n, m
  <1>6. call'[c] = m
    BY <1>2 DEF Typed, m, n
  <1> QED BY <1>4, <1>5, <1>6 DEF Quiet

LEMMA QuietSteps ==
    ASSUME Typed, NEW c \in Callers,
           \/ \E f \in Files, t \in Texts \cup {NoText} : \E kind \in CallsOf[f] : Begin(c, kind, f, t)
           \/ Acquire(c) \/ CloseEvicted(c) \/ StartFails(c) \/ Insert(c) \/ Check(c) \/ Stale(c)
           \/ Unsupported(c) \/ SyncFails(c) \/ AskFails(c) \/ Broken(c) \/ NotPublished(c)
           \/ Return(c) \/ Shutdown(c) \/ Cancel(c)
    PROVE  Quiet(c)
  <1>1. CASE \E f \in Files, t \in Texts \cup {NoText} : \E kind \in CallsOf[f] : Begin(c, kind, f, t)
    <2>1. PICK f, t, kind : Begin(c, kind, f, t)
      BY <1>1
    <2>2. call'[c] = [Idle EXCEPT !.pc = "acquire", !.kind = kind, !.file = f, !.text = t]
      BY <2>1 DEF Begin, Typed
    <2>3. call'[c].pc = "acquire"
      BY <2>2 DEF Idle
    <2> QED BY <2>3 DEF Quiet
  <1>2. CASE Acquire(c)
    <2>1. \E gone, lease : \E then \in {"return", "acquire", "start", "check"} :
             call' = [call EXCEPT ![c] = CloseFirst(call[c], gone, lease, then)]
      BY <1>2 DEF Acquire, Typed
    <2> QED BY <2>1, ClosingIsQuiet
  <1>3. CASE CloseEvicted(c)
    <2>1. \E gone : call' = [call EXCEPT ![c] = CloseFirst(call[c], gone, call[c].lease, call[c].then)]
      BY <1>3 DEF CloseEvicted, Typed
    <2>2. call[c].then \in {"return", "acquire", "start", "check"}
      BY DEF Typed, CallType
    <2> QED BY <2>1, <2>2, ClosingIsQuiet
  <1>4. CASE StartFails(c) \/ Unsupported(c) \/ NotPublished(c)
    BY <1>4, EmptyFinishEffect DEF Quiet
  <1>5. CASE Insert(c)
    <2>1. \/ \E gone, lease : \E then \in {"return", "acquire", "start", "check"} :
               call' = [call EXCEPT ![c] = CloseFirst(call[c], gone, lease, then)]
          \/ call' = [call EXCEPT ![c].pc = "check"]
      BY <1>5 DEF Insert, Typed
    <2>2. CASE call' = [call EXCEPT ![c].pc = "check"]
      BY <2>2 DEF Typed, CallType, Quiet
    <2> QED BY <2>1, <2>2, ClosingIsQuiet
  <1>6. CASE Check(c) \/ SyncFails(c) \/ AskFails(c)
    <2>1. \E pc \in {"use", "stale", "broken"} : call' = [call EXCEPT ![c].pc = pc]
      BY <1>6 DEF Check, SyncFails, AskFails
    <2> QED BY <2>1 DEF Typed, CallType, Quiet
  <1>7. CASE Stale(c) \/ Broken(c)
    BY <1>7, GivingUpIsQuiet
  <1>8. CASE Return(c) \/ Cancel(c)
    <2>1. call'[c] = Idle
      BY <1>8 DEF Return, Cancel, Typed
    <2> QED BY <2>1 DEF Idle, Quiet
  <1>9. CASE Shutdown(c)
    <2>1. \E gone : call' = [call EXCEPT ![c] = CloseFirst(call[c], gone, None, "return")]
      BY <1>9 DEF Shutdown, Typed
    <2> QED BY <2>1, ClosingIsQuiet
  <1> QED BY <1>1, <1>2, <1>3, <1>4, <1>5, <1>6, <1>7, <1>8, <1>9

\* What a synchronisation leaves, whether it comes to its end or not.
LEMMA SyncOnward ==
    ASSUME Typed, SessionsFit, Locked, NEW c \in Callers, Sync(c) \/ SyncFails(c)
    PROVE  Onward(c, sessions')
  <1> DEFINE s == L(c)
             r == sessions[s]
             f == call[c].file
  <1>1. /\ s \in Sessions /\ f \in Files /\ call[c].text \in Texts \cup {NoText}
        /\ owner[s] = c /\ Fit(r)
    <2>1. call[c].pc = "sync"
      BY DEF Sync, SyncFails, At
    <2> QED BY <2>1, LeasedIsTyped DEF Leasing, Locked, SessionsFit
  <1>2. \A x \in {r} \cup RoomFor(r, f) : Fit(x) /\ Grows(r, x) /\ x.state = r.state
    BY <1>1, RoomIsFit, GrowsFromItself DEF Fit
  <1>3. PICK x : /\ sessions' = [sessions EXCEPT ![s] = x]
                 /\ Fit(x) /\ Grows(r, x) /\ x.state = r.state
    <2>1. CASE SyncFails(c)
      BY <1>2, <2>1 DEF SyncFails, L
    <2>2. CASE Sync(c)
      <3>1. PICK x \in RoomFor(r, f) :
              sessions' = [sessions EXCEPT ![s] = SyncDocument(x, f, call[c].text)]
        BY <2>2 DEF Sync, L
      <3> DEFINE next == SyncDocument(x, f, call[c].text)
      <3>2. Fit(x) /\ Grows(r, x) /\ x.state = r.state
        BY <1>2
      <3>3. Fit(next) /\ Grows(x, next) /\ next.state = x.state
        BY <1>1, <3>2, SyncIsFit
      <3> HIDE DEF next
      <3>4. Grows(r, next)
        BY <3>2, <3>3, GrowsOn
      <3> QED BY <3>1, <3>2, <3>3, <3>4 DEF next
    <2> QED BY <2>1, <2>2
  <1>4. /\ s \in Sessions /\ Fit(x) /\ Grows(sessions[s], x)
        /\ x.state = "none" <=> sessions[s].state = "none"
        /\ owner[s] \notin {None, c} => x.open = sessions[s].open
    BY <1>1, <1>3
  <1>5. Onward(c, [sessions EXCEPT ![s] = x])
    <2> HIDE DEF s
    <2> QED BY <1>4, OneIsOnward
  <1> QED BY <1>3, <1>5

LEMMA HoldsNothing ==
    ASSUME Typed, NEW c \in Callers, call[c].pc \in {"idle", "acquire", "start", "return"}
    PROVE  L(c) = None /\ V(c) = {}
  BY DEF Typed, WellFormed, OnFile, Leasing, L, V

LEMMA SessionsKept ==
    ASSUME Typed, Leased, SessionsFit, Locked, NEW c \in Callers, Acts(c)
    PROVE  SessionsFit' /\ Undisturbed(c)
  <1>1. Effect(c)
    BY ActsEffect DEF SessionsFit
  <1>2. CASE \/ \E f \in Files, t \in Texts \cup {NoText} : \E kind \in CallsOf[f] : Begin(c, kind, f, t)
             \/ Acquire(c) \/ StartFails(c) \/ Return(c) \/ Shutdown(c)
    <2>1. call[c].pc \in {"idle", "acquire", "start", "return"} /\ UNCHANGED sessions
      BY <1>2 DEF Begin, Acquire, StartFails, Return, Shutdown, At
    <2>2. call'[c].pc # "insert"
      BY <1>2, QuietSteps DEF Quiet
    <2>3. Onward(c, sessions')
      BY <2>1, SameIsOnward DEF Onward
    <2> QED BY <1>1, <2>1, <2>2, <2>3, HoldsNothing, OnwardPlain
  <1>3. CASE Insert(c)
    <2>1. (Joins(c) \/ Loses(c)) /\ UNCHANGED sessions /\ call[c].pc = "insert"
      BY <1>3, InsertEffect DEF Insert, At
    <2>2. V(c) = {} /\ (L(c)' = L(c) \/ L(c) \in V(c)') /\ call'[c].pc # "insert"
      BY <2>1, NamesAreSessions DEF Joins, Loses
    <2>3. Onward(c, sessions')
      BY <2>1, SameIsOnward DEF Onward
    <2> QED BY <1>1, <2>2, <2>3, OnwardPlain
  <1>4. CASE Check(c) \/ Lock(c) \/ AskFails(c)
    <2>1. UNCHANGED sessions /\ call[c].pc \in Leasing
      BY <1>4 DEF Check, Lock, AskFails, At, Leasing
    <2>2. L(c)' = L(c) /\ V(c) = {} /\ call'[c].pc # "insert"
      BY <1>4, <2>1, OnwardEffect, LeasedIsTyped DEF Went
    <2>3. Onward(c, sessions')
      BY <2>1, SameIsOnward DEF Onward
    <2> QED BY <1>1, <2>2, <2>3, OnwardPlain
  <1>5. CASE Sync(c) \/ SyncFails(c)
    <2>1. call[c].pc \in Leasing
      BY <1>5 DEF Sync, SyncFails, At, Leasing
    <2>2. L(c)' = L(c) /\ call'[c].pc # "insert"
      BY <1>5, OnwardEffect, SyncEffect DEF Went, SessionsFit
    <2>3. Onward(c, sessions') /\ V(c) = {}
      BY <1>5, <2>1, SyncOnward, LeasedIsTyped
    <2> QED BY <1>1, <2>2, <2>3, OnwardPlain
  <1>6. CASE Stale(c) \/ Broken(c) \/ Unsupported(c) \/ NotPublished(c) \/ Answered(c) \/ Published(c)
    <2>1. Keep(sessions)
      BY <1>6 DEF Stale, Broken, Unsupported, NotPublished, Answered, Published, Invalidate
    <2>2. call'[c].pc # "insert"
      BY <1>6, QuietSteps, AnsweredEffect, PublishedEffect DEF Quiet
    <2> QED BY <1>1, <2>1, <2>2, SameIsOnward, OnwardKeep
  <1>7. CASE Cancel(c)
    <2>1. PICK after \in CutSessions(c) : Keep(after)
      BY <1>7 DEF Cancel
    <2>2. call'[c].pc # "insert"
      BY <1>7, CancelEffect
    <2> QED BY <1>1, <2>1, <2>2, CutSessionsOnward, OnwardKeep
  <1>8. CASE CloseEvicted(c) \/ Start(c)
    BY <1>8, ClosedSession, StartedSession
  <1> QED BY <1>2, <1>3, <1>4, <1>5, <1>6, <1>7, <1>8 DEF Acts, Step

-----------------------------------------------------------------------------
(* Locks and types                                                         *)

LEMMA LockedKept ==
    ASSUME Typed, SessionsFit, Locked, NEW c \in Callers, Acts(c)
    PROVE  /\ owner' \in [Sessions -> Callers \cup {None}] /\ Locked'
  <1>1. Effect(c) /\ \A d \in Callers \ {c} : call'[d] = call[d] /\ L(d)' = L(d)
    BY ActsEffect DEF SessionsFit, Effect, L
  <1>2. \A d \in Callers : call[d].pc \in {"sync", "ask"} => L(d) \in Sessions /\ owner[L(d)] = d
    BY LeasedIsTyped DEF Locked, Leasing
  <1>3. ASSUME call'[c].pc \notin {"sync", "ask"},
               \/ UNCHANGED owner
               \/ call[c].pc \in {"sync", "ask"} /\ owner' = [owner EXCEPT ![L(c)] = None]
               \/ owner' = [s \in Sessions |-> IF owner[s] = c THEN None ELSE owner[s]]
        PROVE  owner' \in [Sessions -> Callers \cup {None}] /\ Locked'
    <2>1. owner' \in [Sessions -> Callers \cup {None}]
      BY <1>3 DEF Typed
    <2>2. ASSUME NEW d \in Callers, call'[d].pc \in {"sync", "ask"}
          PROVE  owner'[L(d)'] = d
      <3>1. d # c /\ L(d)' = L(d) /\ L(d) \in Sessions /\ owner[L(d)] = d
        BY <1>1, <1>2, <1>3, <2>2
      <3> QED BY <1>2, <1>3, <3>1 DEF Typed
    <2> QED BY <2>1, <2>2 DEF Locked
  <1>4. CASE Lock(c)
    <2>1. /\ call[c].pc = "use" /\ owner[L(c)] = None /\ owner' = [owner EXCEPT ![L(c)] = c]
      BY <1>4 DEF Lock, At, L
    <2>2. L(c)' = L(c) /\ L(c) \in Sessions
      BY <1>4, <2>1, OnwardEffect, LeasedIsTyped DEF Went, Leasing
    <2>3. owner' \in [Sessions -> Callers \cup {None}] /\ owner'[L(c)] = c
          /\ \A s \in Sessions \ {L(c)} : owner'[s] = owner[s]
      BY <2>1, <2>2 DEF Typed
    <2>4. ASSUME NEW d \in Callers \ {c}, call'[d].pc \in {"sync", "ask"}
          PROVE  owner'[L(d)'] = d
      BY <1>1, <1>2, <2>1, <2>3, <2>4, NoneIsNobody
    <2> QED BY <2>2, <2>3, <2>4 DEF Locked
  <1>5. CASE Sync(c)
    <2>1. call[c].pc = "sync" /\ L(c)' = L(c)
      BY <1>5, SyncEffect DEF Sync, At, SessionsFit, Went
    <2>2. CASE UNCHANGED owner
      BY <1>1, <1>2, <2>1, <2>2 DEF Locked, Typed
    <2>3. CASE owner' = [owner EXCEPT ![L(c)] = None] /\ call'[c].pc = "wait"
      BY <1>3, <2>1, <2>3
    <2> QED BY <1>5, <2>2, <2>3, SyncEffect DEF SessionsFit, Went
  <1>6. CASE Answered(c) \/ AskFails(c) \/ SyncFails(c)
    <2>1. call[c].pc \in {"sync", "ask"} /\ owner' = [owner EXCEPT ![L(c)] = None]
      BY <1>6 DEF Answered, AskFails, SyncFails, At, Unlock, L
    <2>2. call'[c].pc \notin {"sync", "ask"}
      BY <1>6, AnsweredEffect, QuietSteps DEF Quiet
    <2> QED BY <1>3, <2>1, <2>2
  <1>7. CASE Cancel(c)
    <2>1. call'[c].pc = "idle"
      BY <1>7, CancelEffect
    <2> QED BY <1>3, <1>7, <2>1 DEF Cancel
  <1>8. CASE Start(c)
    <2>1. UNCHANGED owner /\ call'[c].pc = "insert"
      BY <1>8 DEF Start, At, Typed, CallType
    <2> QED BY <1>3, <2>1
  <1>9. CASE \/ \E f \in Files, t \in Texts \cup {NoText} : \E kind \in CallsOf[f] : Begin(c, kind, f, t)
             \/ Acquire(c) \/ CloseEvicted(c) \/ StartFails(c) \/ Insert(c) \/ Check(c) \/ Stale(c)
             \/ Unsupported(c) \/ Broken(c) \/ NotPublished(c) \/ Return(c) \/ Shutdown(c)
             \/ Published(c)
    <2>1. UNCHANGED owner
      BY <1>9 DEF Begin, Acquire, CloseEvicted, StartFails, Insert, Check, Stale, Unsupported,
                  Broken, NotPublished, Return, Shutdown, Published, Invalidate
    <2>2. call'[c].pc \notin {"sync", "ask"}
      BY <1>9, QuietSteps, PublishedEffect DEF Quiet
    <2> QED BY <1>3, <2>1, <2>2
  <1> QED BY <1>4, <1>5, <1>6, <1>7, <1>8, <1>9 DEF Acts, Step

-----------------------------------------------------------------------------
(* What the calls know of the text                                         *)

\* A navigation asks about a document that is open with the text of the call.
AskedOf(m, r) ==
    m.pc = "ask" /\ m.kind = "navigate" => r.kind = "off" \/ UpToDate(r, m.file, m.text)

\* The version a call waits for is that of its text.
WaitedOf(m, r) ==
    m.pc = "wait" =>
        /\ m.kind = "diagnostics"
        /\ \/ r.kind = "off" /\ m.expected = 0
           \/ /\ m.expected > 0
              /\ \/ r.cut \/ m.file \in r.reopened
                 \/ [version |-> m.expected, text |-> m.text] \in r.sent[m.file]

ReturnedOf(m) ==
    /\ m.pc = "return" /\ m.kind = "navigate" /\ m.sound => m.got \in {NoText, m.text}
    /\ m.pc = "return" /\ m.kind = "diagnostics" /\ m.expected > 0 /\ m.sound =>
           m.got \in {NoText, m.text}

Informed ==
    \A c \in Callers :
        /\ AskedOf(call[c], sessions[L(c)]) /\ WaitedOf(call[c], sessions[L(c)])
        /\ ReturnedOf(call[c])

\* The others know what they knew.
LEMMA OthersInformed ==
    ASSUME Typed, SessionsFit, Locked, Informed, NEW c \in Callers, Effect(c), Undisturbed(c),
           NEW d \in Callers \ {c}
    PROVE  /\ AskedOf(call'[d], sessions'[L(d)']) /\ WaitedOf(call'[d], sessions'[L(d)'])
           /\ ReturnedOf(call'[d])
  <1>1. call'[d] = call[d] /\ L(d)' = L(d)
    BY DEF Effect, L
  <1>2. /\ AskedOf(call[d], sessions[L(d)]) /\ WaitedOf(call[d], sessions[L(d)])
        /\ ReturnedOf(call[d])
    BY DEF Informed
  <1>3. CASE call[d].pc \in {"ask", "wait"}
    <2>1. L(d) \in Sessions /\ call[d].file \in Files
      BY <1>3, LeasedIsTyped DEF Leasing
    <2>0. PICK s \in Sessions : s = L(d)
      BY <2>1
    <2>2. Referenced(s) /\ Referenced(s)'
      BY <1>1, <2>0 DEF Referenced, Unleased, HeldBy, L
    <2>3. /\ Grows(sessions[L(d)], sessions'[L(d)])
          /\ owner[L(d)] \notin {None, c} => sessions'[L(d)].open = sessions[L(d)].open
      BY <2>0, <2>2 DEF Undisturbed
    <2>4. CASE call[d].pc = "ask"
      <3>1. owner[L(d)] \notin {None, c}
        BY <2>4, NoneIsNobody DEF Locked
      <3> QED BY <1>1, <1>2, <2>3, <2>4, <3>1
              DEF AskedOf, WaitedOf, ReturnedOf, UpToDate, IsOpen, Grows
    <2>5. CASE call[d].pc = "wait"
      BY <1>1, <1>2, <2>1, <2>3, <2>5 DEF AskedOf, WaitedOf, ReturnedOf, Grows
    <2> QED BY <1>3, <2>4, <2>5
  <1>4. CASE call[d].pc \notin {"ask", "wait"}
    BY <1>1, <1>2, <1>4 DEF AskedOf, WaitedOf
  <1> QED BY <1>3, <1>4

\* The documents of the server are the ones on record, until a send is dropped.
LEMMA AnswerIsOfTheText ==
    ASSUME NEW r, Fit(r), NEW f \in Files, NEW t, r.kind = "off" \/ UpToDate(r, f, t), ~r.cut
    PROVE  r.server[f].text \in {NoText, t}
  BY DEF Fit, Sound, UpToDate, Closed

LEMMA SnapshotIsOfTheText ==
    ASSUME NEW r, Fit(r), NEW m, m \in CallType, m.file \in Files, m.pc = "wait", WaitedOf(m, r),
           NEW d \in Snapshots(r, m.file), Matches(d, m.expected), d.version > 0,
           ~r.cut, m.file \notin r.reopened
    PROVE  d.text = m.text
  <1>1. r.kind \notin {"off", "unversioned"}
    <2>1. CASE r.kind = "off"
      BY <2>1 DEF Snapshots
    <2>2. CASE r.kind = "unversioned"
      <3>1. PICK e \in r.sent[m.file] : d = [e EXCEPT !.version = 0]
        BY <2>2 DEF Snapshots
      <3>2. e \in Document
        BY <3>1 DEF Fit, SessionType
      <3> QED BY <3>1, <3>2 DEF Document
    <2> QED BY <2>1, <2>2
  <1>2. d \in r.sent[m.file]
    <2>1. PICK e \in r.sent[m.file] : d = [e EXCEPT !.version = e.version]
      BY <1>1 DEF Snapshots
    <2>2. e \in Document
      BY <2>1 DEF Fit, SessionType
    <2> QED BY <2>1, <2>2 DEF Document
  <1> DEFINE e == [version |-> m.expected, text |-> m.text]
  <1>3. e \in r.sent[m.file] /\ m.expected > 0
    BY <1>1 DEF WaitedOf
  <1>4. d.version = e.version
    BY <1>3 DEF Matches, CallType
  <1>5. d = e
    BY <1>2, <1>3, <1>4 DEF Fit, Sound
  <1> QED BY <1>5

LEMMA InformedKept ==
    ASSUME Typed, SessionsFit, Locked, Informed, NEW c \in Callers, Acts(c),
           Effect(c), Undisturbed(c)
    PROVE  Informed'
  <1>1. SUFFICES /\ AskedOf(call'[c], sessions'[L(c)']) /\ WaitedOf(call'[c], sessions'[L(c)'])
                 /\ ReturnedOf(call'[c])
    BY OthersInformed DEF Informed, L
  <1>2. CASE Quiet(c)
    BY <1>2 DEF Quiet, AskedOf, WaitedOf, ReturnedOf
  <1>3. CASE Start(c)
    <2>1. call'[c].pc = "insert"
      BY <1>3 DEF Start, At, Typed, CallType
    <2> QED BY <2>1 DEF AskedOf, WaitedOf, ReturnedOf
  <1>4. CASE Lock(c)
    <2>1. /\ call'[c].pc \in {"ask", "sync"} /\ call'[c].kind = call[c].kind
          /\ call[c].kind # "symbols" => call'[c].pc = "sync"
      <3>1. \E pc \in {"ask", "sync"} : call' = [call EXCEPT ![c].pc = pc]
        BY <1>4 DEF Lock
      <3> QED BY <1>4, <3>1, OnwardEffect DEF Typed, CallType
    <2> QED BY <2>1 DEF AskedOf, WaitedOf, ReturnedOf
  <1>5. CASE Sync(c)
    <2> DEFINE s == L(c)
               f == call[c].file
               t == call[c].text
    <2>1. s \in Sessions /\ f \in Files /\ t \in Texts \cup {NoText} /\ Fit(sessions[s])
      BY <1>5, LeasedIsTyped DEF Sync, At, Leasing, SessionsFit
    <2>2. PICK x \in RoomFor(sessions[s], f) :
             LET next == SyncDocument(x, f, t)
             IN /\ sessions' = [sessions EXCEPT ![s] = next]
                /\ \/ Went(c, "wait", next.open[f].version) /\ call[c].kind = "diagnostics"
                   \/ Went(c, "ask", call[c].expected) /\ call[c].kind # "diagnostics"
      BY <1>5, SyncEffect DEF SessionsFit
    <2> DEFINE next == SyncDocument(x, f, t)
    <2>3. Fit(next) /\ (next.kind = "off" \/ UpToDate(next, f, t))
      BY <2>1, <2>2, RoomIsFit, SyncIsFit
    <2>4. /\ sessions' = [sessions EXCEPT ![s] = next]
          /\ \/ Went(c, "wait", next.open[f].version) /\ call[c].kind = "diagnostics"
             \/ Went(c, "ask", call[c].expected) /\ call[c].kind # "diagnostics"
      BY <2>2
    <2> HIDE DEF next
    <2>5. sessions'[L(c)'] = next /\ call'[c].file = f /\ call'[c].text = t
      BY <2>1, <2>4 DEF Went, SessionsFit
    <2>6. CASE Went(c, "ask", call[c].expected)
      BY <2>3, <2>5, <2>6 DEF Went, AskedOf, WaitedOf, ReturnedOf
    <2>7. CASE Went(c, "wait", next.open[f].version) /\ call[c].kind = "diagnostics"
      <3> DEFINE n == next.open[f].version
      <3>1. next.open[f] \in Document
        BY <2>1, <2>3 DEF Fit, SessionType
      <3>2. CASE next.kind = "off"
        <4>1. n = 0
          BY <2>1, <2>3, <3>2, ClosedTyped DEF Fit, Sound
        <4> QED BY <2>5, <2>7, <3>2, <4>1 DEF Went, AskedOf, WaitedOf, ReturnedOf
      <3>3. CASE next.kind # "off"
        <4>1. UpToDate(next, f, t)
          BY <2>3, <3>3
        <4>2. n > 0 /\ next.open[f] = [version |-> n, text |-> t]
          BY <3>1, <4>1 DEF UpToDate, IsOpen, Document
        <4>3. next.cut \/ [version |-> n, text |-> t] \in next.sent[f]
          BY <2>1, <2>3, <4>1, <4>2 DEF Fit, Sound, UpToDate
        <4> QED BY <2>5, <2>7, <4>2, <4>3 DEF Went, AskedOf, WaitedOf, ReturnedOf
      <3> QED BY <3>2, <3>3
    <2> QED BY <2>4, <2>6, <2>7
  <1>6. CASE Answered(c)
    <2> DEFINE r == sessions[L(c)]
               f == call[c].file
               t == call[c].text
    <2>1. call[c].pc = "ask" /\ f \in Files /\ Fit(r)
      BY <1>6, LeasedIsTyped DEF Answered, At, Leasing, SessionsFit
    <2>2. call[c].kind = "navigate" => r.kind = "off" \/ UpToDate(r, f, t)
      BY <2>1 DEF Informed, AskedOf
    <2>3. call[c].kind = "navigate" /\ ~r.cut => r.server[f].text \in {NoText, t}
      BY <2>1, <2>2, AnswerIsOfTheText
    <2>4. /\ call'[c].pc = "return" /\ call'[c].kind = call[c].kind /\ call'[c].text = t
          /\ call[c].kind = "navigate" => call'[c].got = r.server[f].text
          /\ call'[c].sound => ~r.cut
          /\ call'[c].expected = 0
      BY <1>6, AnsweredEffect
    <2>5. AskedOf(call'[c], sessions'[L(c)']) /\ WaitedOf(call'[c], sessions'[L(c)'])
      BY <2>4 DEF AskedOf, WaitedOf
    <2>6. ReturnedOf(call'[c])
      BY <2>3, <2>4 DEF ReturnedOf
    <2> QED BY <2>5, <2>6
  <1>7. CASE Published(c)
    <2> DEFINE r == sessions[L(c)]
               m == call[c]
    <2>1. m.pc = "wait" /\ m.file \in Files /\ Fit(r) /\ m \in CallType
      BY <1>7, LeasedIsTyped DEF Published, At, Leasing, SessionsFit
    <2>2. WaitedOf(m, r)
      BY DEF Informed
    <2>3. PICK d \in Snapshots(r, m.file) :
             /\ Matches(d, m.expected)
             /\ call'[c].got = d.text /\ call'[c].expected = d.version
             /\ call'[c].sound => ~r.cut /\ m.file \notin r.reopened
      BY <1>7, PublishedEffect
    <2>4. d.version > 0 /\ ~r.cut /\ m.file \notin r.reopened => d.text = m.text
      <3> HIDE DEF r, m
      <3> QED BY <2>1, <2>2, <2>3, SnapshotIsOfTheText
    <2>5. call'[c].pc = "return" /\ call'[c].kind = m.kind /\ call'[c].text = m.text
      BY <1>7, PublishedEffect
    <2>6. m.kind = "diagnostics"
      BY <2>1, <2>2 DEF WaitedOf
    <2>7. /\ call'[c].pc = "return" /\ call'[c].kind = "diagnostics"
          /\ call'[c].expected > 0 /\ call'[c].sound => call'[c].got = call'[c].text
      BY <2>3, <2>4, <2>5, <2>6
    <2>8. AskedOf(call'[c], sessions'[L(c)']) /\ WaitedOf(call'[c], sessions'[L(c)'])
      BY <2>7 DEF AskedOf, WaitedOf
    <2>9. ReturnedOf(call'[c])
      BY <2>7 DEF ReturnedOf
    <2> QED BY <2>8, <2>9
  <1> QED BY <1>2, <1>3, <1>4, <1>5, <1>6, <1>7, QuietSteps DEF Acts, Step

-----------------------------------------------------------------------------
(* The invariant and what follows from it                                  *)

Inv == Typed /\ Leased /\ SessionsFit /\ Locked /\ Informed

LEMMA InitInv == Init => Inv
  <1> SUFFICES ASSUME Init PROVE Inv
    OBVIOUS
  <1>1. \A c \in Callers : call[c] = Idle /\ L(c) = None /\ V(c) = {} /\ call[c].pc = "idle"
    BY DEF Init, Idle, L, V
  <1>2. Typed
    BY IdleTyped, NoSessionTyped DEF Init, Typed, WellFormed
  <1>3. PoolFits
    <2>1. Filled = {}
      BY DEF Init, Filled
    <2> QED BY <2>1, FS_EmptySet DEF PoolFits, Init
  <1>4. Leased
    BY <1>1, <1>3 DEF Leased, NewIsAlone, EvictedIsGone
  <1>5. SessionsFit
    <2>1. \A s \in Sessions : ~Referenced(s)
      BY <1>1, NoneIsNobody DEF Init, Referenced, Pooled, Unleased, HeldBy, L, V
    <2>2. NoSession.state = "none"
      BY DEF NoSession
    <2> QED BY <2>1, <2>2, NoSessionTyped, NoSessionFit DEF SessionsFit, Init
  <1>6. Locked
    BY <1>1 DEF Locked
  <1>7. Informed
    BY <1>1 DEF Informed, AskedOf, WaitedOf, ReturnedOf
  <1> QED BY <1>2, <1>4, <1>5, <1>6, <1>7 DEF Inv

LEMMA ActsKeepInv ==
    ASSUME Inv, NEW c \in Callers, Acts(c)
    PROVE  Inv'
  <1>1. Effect(c)
    BY ActsEffect DEF Inv, SessionsFit
  <1>2. SessionsFit' /\ Undisturbed(c)
    BY SessionsKept DEF Inv
  <1>3. owner' \in [Sessions -> Callers \cup {None}] /\ Locked'
    BY LockedKept DEF Inv
  <1>4. Typed'
    BY <1>1, <1>2, <1>3 DEF Effect, SessionsFit, Typed
  <1>5. Leased'
    BY <1>1, LeasedKept DEF Inv
  <1>6. Informed'
    BY <1>1, <1>2, InformedKept DEF Inv
  <1> QED BY <1>2, <1>3, <1>4, <1>5, <1>6 DEF Inv

\* The death of a server changes nothing but the state of its session.
LEMMA DeathKeepsInv ==
    ASSUME Inv, NEW s \in Sessions, ServerDies(s)
    PROVE  Inv'
  <1> DEFINE x == [sessions[s] EXCEPT !.state = "dead"]
  <1>1. /\ sessions' = [sessions EXCEPT ![s] = x] /\ sessions[s].state = "live"
        /\ UNCHANGED <<pool, owner, call>>
    BY DEF ServerDies, Inv, Typed
  <1>2. sessions[s] \in SessionType /\ Fit(sessions[s])
    BY DEF Inv, SessionsFit
  <1>3. /\ x \in SessionType /\ x.state = "dead" /\ x.kind = sessions[s].kind
        /\ x.open = sessions[s].open /\ x.server = sessions[s].server
        /\ x.sent = sessions[s].sent /\ x.cut = sessions[s].cut
        /\ x.reopened = sessions[s].reopened
    BY <1>2 DEF SessionType
  <1> HIDE DEF x
  <1>4. Fit(x)
    BY <1>2, <1>3 DEF Fit, Sound, IsOpen
  <1>5. /\ sessions' \in [Sessions -> SessionType] /\ sessions'[s] = x
        /\ \A y \in Sessions : y # s => sessions'[y] = sessions[y]
    BY <1>1, <1>3 DEF Inv, SessionsFit
  <1>6. Typed'
    BY <1>1, <1>5 DEF Inv, Typed
  <1>7. Leased'
    BY <1>1 DEF Inv, Leased, PoolFits, Filled, NewIsAlone, EvictedIsGone, Pooled, L, V
  <1>8. \A y \in Sessions : Referenced(y)' <=> Referenced(y)
    BY <1>1 DEF Referenced, Pooled, Unleased, HeldBy
  <1>9. SessionsFit'
    BY <1>1, <1>3, <1>4, <1>5, <1>8 DEF Inv, SessionsFit
  <1>10. Locked'
    BY <1>1 DEF Inv, Locked, L
  <1>11. ASSUME NEW c \in Callers
         PROVE  /\ AskedOf(call'[c], sessions'[L(c)']) /\ WaitedOf(call'[c], sessions'[L(c)'])
                /\ ReturnedOf(call'[c])
    <2>1. /\ AskedOf(call[c], sessions[L(c)]) /\ WaitedOf(call[c], sessions[L(c)])
          /\ ReturnedOf(call[c])
      BY DEF Inv, Informed
    <2>2. call'[c] = call[c] /\ L(c)' = L(c)
      BY <1>1 DEF L
    <2>3. CASE call[c].pc \in {"ask", "wait"}
      <3>1. L(c) \in Sessions
        BY <2>3, LeasedIsTyped DEF Inv, Leasing
      <3>2. CASE L(c) = s
        BY <1>3, <1>5, <2>1, <2>2, <3>2 DEF AskedOf, WaitedOf, UpToDate, IsOpen
      <3>3. CASE L(c) # s
        BY <1>5, <2>1, <2>2, <3>1, <3>3
      <3> QED BY <3>2, <3>3
    <2>4. CASE call[c].pc \notin {"ask", "wait"}
      BY <2>1, <2>2, <2>4 DEF AskedOf, WaitedOf
    <2> QED BY <2>3, <2>4
  <1>12. Informed'
    BY <1>11 DEF Informed, L
  <1> QED BY <1>6, <1>7, <1>9, <1>10, <1>12 DEF Inv

LEMMA StutterKeepsInv ==
    ASSUME Inv, UNCHANGED vars
    PROVE  Inv'
  <1>1. Typed' /\ Leased'
    BY DEF vars, Inv, Typed, Leased, PoolFits, Filled, NewIsAlone, EvictedIsGone, Pooled, L, V
  <1>2. SessionsFit' /\ Locked'
    BY DEF vars, Inv, SessionsFit, Locked, Referenced, Pooled, Unleased, HeldBy, L
  <1>3. Informed'
    BY DEF vars, Inv, Informed, L
  <1> QED BY <1>1, <1>2, <1>3 DEF Inv

LEMMA Invariance == Spec => []Inv
  <1>1. Inv /\ [Next]_vars => Inv'
    BY ActsKeepInv, DeathKeepsInv, StutterKeepsInv, NextIs
  <1> QED BY InitInv, <1>1, PTL DEF Spec

LEMMA AtMostOne ==
    ASSUME NEW S, \A x, y \in S : x = y
    PROVE  Cardinality(S) <= 1
  <1>1. CASE S = {}
    BY <1>1, FS_EmptySet
  <1>2. CASE S # {}
    <2>1. PICK x : x \in S
      BY <1>2
    <2>2. S = {x}
      BY <2>1
    <2>3. Cardinality({x}) = 1
      BY FS_Singleton
    <2> QED BY <2>2, <2>3
  <1> QED BY <1>1, <1>2

LEMMA OncePooled ==
    ASSUME PoolFits, NEW s \in Sessions
    PROVE  Cardinality({k \in Keys : pool[k] = s}) <= 1
  <1>1. \A j, k \in {k \in Keys : pool[k] = s} : j = k
    BY NoneIsNobody DEF PoolFits
  <1> QED BY <1>1, AtMostOne

(***************************************************************************)
(* Type correctness.  The pool never exceeds its capacity, however the     *)
(* calls that evict, start and insert sessions interleave; a session is    *)
(* pooled once; and a server lives exactly as long as the pool or a call   *)
(* refers to its session (acquire_lsp_session, kill_on_drop).              *)
(***************************************************************************)
THEOREM TypeCorrect == Spec => []TypeOK
  <1>1. Inv => TypeOK
    <2> SUFFICES ASSUME Inv PROVE TypeOK
      OBVIOUS
    <2>1. \A s \in Sessions :
            /\ sessions[s].state \in {"none", "live", "dead", "closed"}
            /\ sessions[s].kind \in Kinds
            /\ sessions[s].open \in [Files -> Document]
            /\ sessions[s].server \in [Files -> Document]
            /\ sessions[s].state = "none" <=> ~Referenced(s)
      BY DEF Inv, SessionsFit, SessionType
    <2>2. \A c \in Callers : call[c].lease \in Sessions \cup {None}
      BY DEF Inv, Typed, CallType
    <2>3. Cardinality({k \in Keys : pool[k] # None}) <= MaxPooled
      BY DEF Inv, Leased, PoolFits, Filled
    <2>4. \A s \in Sessions : Cardinality({k \in Keys : pool[k] = s}) <= 1
      BY OncePooled DEF Inv, Leased
    <2> QED BY <2>1, <2>2, <2>3, <2>4 DEF TypeOK, Inv, Typed
  <1> QED BY <1>1, Invariance, PTL

(***************************************************************************)
(* A session is closed for its age, for room or for a lost race only where *)
(* no call has a lease on it, and no call can come by one until it is      *)
(* closed: the references are counted under the lock of the pool, and only *)
(* the pool gives out leases.                                              *)
(***************************************************************************)
THEOREM LeasesSpared == Spec => []EvictionSparesLeases
  <1>1. Inv => EvictionSparesLeases
    BY DEF Inv, Leased, EvictedIsGone, EvictionSparesLeases, L, V
  <1> QED BY <1>1, Invariance, PTL

(***************************************************************************)
(* The answer of a navigation or outline request is about the text the     *)
(* call read: sync_document and the request are under one lock of the      *)
(* session, and the server has what the session has on record.             *)
(***************************************************************************)
THEOREM AnswersRight == Spec => []AnswersAreAboutTheText
  <1>1. Inv => AnswersAreAboutTheText
    BY DEF Inv, Informed, ReturnedOf, AnswersAreAboutTheText
  <1> QED BY <1>1, Invariance, PTL

(***************************************************************************)
(* Published diagnostics that carry a version are those of the text the    *)
(* call read, in whatever order they come: a version of a document that    *)
(* was opened once is of one text (wait_for_diagnostics).                  *)
(***************************************************************************)
THEOREM DiagnosticsRight == Spec => []DiagnosticsAreAboutTheText
  <1>1. Inv => DiagnosticsAreAboutTheText
    BY DEF Inv, Informed, ReturnedOf, DiagnosticsAreAboutTheText
  <1> QED BY <1>1, Invariance, PTL
=============================================================================
