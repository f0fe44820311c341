--------------------------- MODULE LanguageService ---------------------------
(***************************************************************************)
(* The pool of language-server sessions behind the agent's symbol tools    *)
(* and its diagnostics (src-tauri/src/coding_lsp.rs).                      *)
(*                                                                         *)
(* A call reads its file, takes a lease on the session of the file's       *)
(* project (or starts one), brings the server's copy of the file up to     *)
(* date under the lock of the session, and asks.  The pool lock is never   *)
(* held over an await: between looking at the pool, closing what it        *)
(* evicted, starting a server and inserting it, other calls run.  A call   *)
(* of an agent run is dropped at its next await when the run is cancelled  *)
(* (the select! around execute_tool in local_agent.rs).                    *)
(*                                                                         *)
(* The servers are external: they answer or fail, publish diagnostics for  *)
(* a text they were sent, late or never, with its version or without, and  *)
(* may die.  A session that nothing refers to any more is dropped, and its *)
(* process with it (kill_on_drop).                                         *)
(***************************************************************************)
EXTENDS Integers, FiniteSets

CONSTANTS
    Callers,          \* concurrent tool calls, each one call after another
    Keys,             \* (workspace root, project root, server command)
    Files,
    KeyOf,            \* the session key of each file
    CallsOf,          \* the kinds of calls made on each file
    Texts,            \* contents a file may have
    ServersOf,        \* how the servers of each key may behave, see Kinds
    NoText, None,
    MaxPooled,        \* MAX_POOLED_LSP_SESSIONS
    MaxOpen,          \* MAX_OPEN_DOCUMENTS_PER_SESSION
    MaxSessions,      \* bound: sessions alive at a time
    MaxCalls,         \* bound: calls made
    MaxFaults         \* bound: calls dropped and servers that die

ASSUME LanguageServiceAssumption ==
    /\ KeyOf \in [Files -> Keys]
    /\ CallsOf \in [Files -> SUBSET {"navigate", "symbols", "diagnostics"}]
    /\ ServersOf \in [Keys -> SUBSET {"off", "whole", "incremental", "unversioned"}]
    /\ NoText \notin Texts /\ None \notin Callers \cup 1 .. MaxSessions
    /\ \A n \in {MaxPooled, MaxOpen, MaxSessions} : n \in Nat \ {0}
    /\ \A n \in {MaxCalls, MaxFaults} : n \in Nat

VARIABLES
    pool,       \* LSP_SESSION_POOL: the session of each key
    sessions,   \* every LspSession, with what its server knows
    owner,      \* who holds the lock of each session
    call,       \* what each caller is doing
    made, faults

vars == <<pool, sessions, owner, call, made, faults>>

Sessions == 1 .. MaxSessions

(***************************************************************************)
(* Servers: "off" is not sent documents and reads the files itself; the    *)
(* others are, whole or as a change of the text before; "unversioned"      *)
(* publishes diagnostics without saying of which version.                  *)
(***************************************************************************)
Kinds == {"off", "whole", "incremental", "unversioned"}

(***************************************************************************)
(* A text of a document with its version; version 0 stands for a document  *)
(* that is not open, and for a snapshot without a version.                 *)
(***************************************************************************)
Document == [version: Nat, text: Texts \cup {NoText, "mixed"}]
Closed   == [version |-> 0, text |-> NoText]

NoSession ==
    [state |-> "none", kind |-> "off",
     open |-> [f \in Files |-> Closed],     \* open_documents
     server |-> [f \in Files |-> Closed],   \* what the server was told last
     sent |-> [f \in Files |-> {}],         \* all it was ever told
     reopened |-> {},                       \* documents opened twice
     cut |-> FALSE]                         \* a send of it was dropped

Idle ==
    [pc |-> "idle", kind |-> "navigate", file |-> None, text |-> NoText,
     lease |-> None, tries |-> 0, evicted |-> {}, then |-> "return",
     expected |-> 0, got |-> NoText, sound |-> TRUE]

(***************************************************************************)
(* Arc::strong_count: the pool's reference and those of the callers.       *)
(***************************************************************************)
HeldBy(c, s)  == call[c].lease = s \/ s \in call[c].evicted
Pooled(s)     == \E k \in Keys : pool[k] = s
Unleased(s)   == \A c \in Callers : ~HeldBy(c, s)
Referenced(s) == Pooled(s) \/ ~Unleased(s)

\* What the steps below leave behind: sessions nobody refers to are dropped.
Keep(f) == sessions' = [s \in Sessions |-> IF Referenced(s)' THEN f[s] ELSE NoSession]

Init ==
    /\ pool = [k \in Keys |-> None]
    /\ sessions = [s \in Sessions |-> NoSession]
    /\ owner = [s \in Sessions |-> None]
    /\ call = [c \in Callers |-> Idle]
    /\ made = 0 /\ faults = 0

Bounds == UNCHANGED <<made, faults>>
Key(c) == KeyOf[call[c].file]
At(c, pc) == call[c].pc = pc

-----------------------------------------------------------------------------
(***************************************************************************)
(* A tool call: the file, which may be edited at any time, is read before  *)
(* the session is acquired.  A search for symbols names no file: f stands  *)
(* for the project whose server it has come to.                            *)
(***************************************************************************)
Begin(c, kind, f, t) ==
    /\ At(c, "idle") /\ made < MaxCalls
    /\ kind = "symbols" <=> t = NoText
    /\ call' = [call EXCEPT ![c] = [Idle EXCEPT !.pc = "acquire", !.kind = kind,
                                                !.file = f, !.text = t]]
    /\ made' = made + 1
    /\ UNCHANGED <<pool, sessions, owner, faults>>

(***************************************************************************)
(* acquire_lsp_session, under the pool lock: sessions idle for too long    *)
(* and not leased leave the pool; the session of the key is leased if      *)
(* there is one; otherwise a full pool gives up its oldest unleased        *)
(* session, or the call fails.  Times are not modelled: any unleased       *)
(* session may be the idle or the oldest one.                              *)
(***************************************************************************)
PoolWithout(gone) == [k \in Keys |-> IF pool[k] \in gone THEN None ELSE pool[k]]

EvictableAny == {s \in Sessions : Pooled(s)}   \* a bug: the references are not counted

\* The end of a call, and with it of its lease; ghosts for what it returned.
Finish(c, got, version, sound) ==
    call' = [call EXCEPT ![c] =
        [Idle EXCEPT !.pc = "return", !.kind = call[c].kind, !.text = call[c].text,
                     !.got = got, !.expected = version, !.sound = sound]]

\* The call goes on once it has closed the sessions it took out of the pool.
CloseFirst(m, gone, lease, then) ==
    IF gone = {} /\ then = "return" THEN [Idle EXCEPT !.pc = "return"]
    ELSE [m EXCEPT !.pc = IF gone = {} THEN then ELSE "evict",
                   !.evicted = gone, !.lease = lease,
                   !.then = IF gone = {} THEN "return" ELSE then]

Evictable == {s \in Sessions : Pooled(s) /\ Unleased(s)}

Acquire(c) ==
    /\ At(c, "acquire")
    /\ \E idle \in SUBSET Evictable :
         LET rest == Evictable \ idle
             kept == Cardinality({k \in Keys : PoolWithout(idle)[k] # None})
             held == PoolWithout(idle)[Key(c)]
             Leave(gone, lease, then) ==
                 /\ pool' = PoolWithout(gone)
                 /\ call' = [call EXCEPT ![c] = CloseFirst(@, gone, lease, then)]
         IN \/ held # None /\ Leave(idle, held, "check")
            \/ held = None /\ kept < MaxPooled /\ Leave(idle, None, "start")
            \/ /\ held = None /\ kept >= MaxPooled
               /\ \E oldest \in rest : Leave(idle \cup {oldest}, None, "start")
            \/ held = None /\ kept >= MaxPooled /\ rest = {} /\ Leave(idle, None, "return")
    /\ UNCHANGED <<sessions, owner>> /\ Bounds

(***************************************************************************)
(* LspSession::close, under the lock of the session: the documents are     *)
(* closed, the server is asked to shut down and killed.                    *)
(***************************************************************************)
Shut(s) == [sessions EXCEPT ![s].state = "closed",
                            ![s].open = [f \in Files |-> Closed],
                            ![s].server = [f \in Files |-> Closed]]

CloseEvicted(c) ==
    /\ At(c, "evict")
    /\ UNCHANGED <<pool, owner>> /\ Bounds
    /\ \E s \in call[c].evicted :
         /\ owner[s] = None
         /\ call' = [call EXCEPT ![c] =
                       CloseFirst(@, @.evicted \ {s}, @.lease, @.then)]
         /\ Keep(Shut(s))

(***************************************************************************)
(* LspSession::start: the server is not installed, does not answer the     *)
(* initialize request, or is started with the capabilities it advertises.  *)
(***************************************************************************)
Start(c) ==
    /\ At(c, "start")
    /\ \E s \in Sessions : ~Referenced(s)
    /\ LET s == CHOOSE x \in Sessions : ~Referenced(x) IN
         /\ \E kind \in ServersOf[Key(c)] :
              sessions' = [sessions EXCEPT ![s] = [NoSession EXCEPT !.state = "live",
                                                                   !.kind = kind]]
         /\ call' = [call EXCEPT ![c].pc = "insert", ![c].lease = s]
    /\ UNCHANGED <<pool, owner>> /\ Bounds

StartFails(c) ==
    /\ At(c, "start") /\ Finish(c, NoText, 0, TRUE)
    /\ UNCHANGED <<pool, sessions, owner>> /\ Bounds

(***************************************************************************)
(* The pool is looked at again: a call that was faster has put a session   *)
(* of the key there, which is leased and the new one closed; or the pool   *)
(* has filled up, and the new one is closed.                               *)
(***************************************************************************)
InsertUnchecked(c) ==        \* a bug: the pool is not looked at a second time
    /\ At(c, "insert")
    /\ pool' = [pool EXCEPT ![Key(c)] = call[c].lease]
    /\ call' = [call EXCEPT ![c].pc = "check"]
    /\ UNCHANGED <<sessions, owner>> /\ Bounds

Insert(c) ==
    /\ At(c, "insert")
    /\ LET mine == call[c].lease
           size == Cardinality({k \in Keys : pool[k] # None})
           Reject(lease, then) ==
               /\ call' = [call EXCEPT ![c] = CloseFirst(@, {mine}, lease, then)]
               /\ UNCHANGED pool
       IN \/ pool[Key(c)] # None /\ Reject(pool[Key(c)], "check")
          \/ /\ pool[Key(c)] = None /\ size < MaxPooled
             /\ pool' = [pool EXCEPT ![Key(c)] = mine]
             /\ call' = [call EXCEPT ![c].pc = "check"]
          \/ pool[Key(c)] = None /\ size >= MaxPooled /\ Reject(None, "return")
    /\ UNCHANGED <<sessions, owner>> /\ Bounds

(***************************************************************************)
(* acquire_healthy_lsp_session: a lease on a session whose process is gone *)
(* is given back, and a second one tried.                                  *)
(***************************************************************************)
Check(c) ==
    /\ At(c, "check") /\ owner[call[c].lease] = None
    /\ call' = [call EXCEPT ![c].pc = IF sessions[call[c].lease].state = "live"
                                      THEN "use" ELSE "stale"]
    /\ UNCHANGED <<pool, sessions, owner>> /\ Bounds

(***************************************************************************)
(* invalidate_pooled_session: only the session the lease is on leaves the  *)
(* pool; a newer one of the same key stays.                                *)
(***************************************************************************)
Invalidate(c, then) ==
    LET s == call[c].lease
        gone == IF pool[Key(c)] = s THEN {s} ELSE {}
    IN /\ pool' = PoolWithout(gone)
       /\ call' = [call EXCEPT ![c] = [CloseFirst(call[c], gone, None, then) EXCEPT !.tries = 1]]
       /\ UNCHANGED owner /\ Bounds
       /\ Keep(sessions)

Stale(c) ==
    /\ At(c, "stale")
    /\ Invalidate(c, IF call[c].tries = 0 THEN "acquire" ELSE "return")

-----------------------------------------------------------------------------
(***************************************************************************)
(* Under the lock of the session.  A server without the capability is not  *)
(* asked: the call falls back to its lexical index.                        *)
(***************************************************************************)
Lock(c) ==
    /\ At(c, "use") /\ owner[call[c].lease] = None
    /\ owner' = [owner EXCEPT ![call[c].lease] = c]
    /\ call' = [call EXCEPT ![c].pc = IF call[c].kind = "symbols" THEN "ask" ELSE "sync"]
    /\ UNCHANGED <<pool, sessions>> /\ Bounds

Unsupported(c) ==
    /\ At(c, "use") /\ owner[call[c].lease] = None /\ call[c].kind # "diagnostics"
    /\ Finish(c, NoText, 0, TRUE)
    /\ UNCHANGED <<pool, owner>> /\ Bounds
    /\ Keep(sessions)

Unlock(c) == owner' = [owner EXCEPT ![call[c].lease] = None]

(***************************************************************************)
(* sync_document.  A session that is full closes its oldest document       *)
(* first; a document that is already open with this text is left alone;    *)
(* one with another text gets the next version, as a whole (or by closing  *)
(* and opening it again), or as a replacement of the range the client      *)
(* believes the old text to have; a new one is opened at version 1.        *)
(***************************************************************************)
IsOpen(r, f) == r.open[f].version > 0

RoomFor(r, f) ==
    LET opened == {g \in Files : IsOpen(r, g)}
    IN IF r.kind = "off" \/ f \in opened \/ Cardinality(opened) < MaxOpen THEN {r}
       ELSE {[r EXCEPT !.open[old] = Closed, !.server[old] = Closed] : old \in opened}

Told(r, f, t) ==
    IF r.kind = "incremental" /\ IsOpen(r, f) /\ r.server[f].text # r.open[f].text
    THEN "mixed" ELSE t

UpToDateOnceOpen(r, f, t) == IsOpen(r, f)   \* a bug: the text is not compared

UpToDate(r, f, t) == IsOpen(r, f) /\ r.open[f].text = t

SyncDocument(r, f, t) ==
    IF r.kind = "off" \/ UpToDate(r, f, t) THEN r
    ELSE LET v == r.open[f].version + 1
         IN [r EXCEPT !.open[f] = [version |-> v, text |-> t],
                      !.server[f] = [version |-> v, text |-> Told(r, f, t)],
                      !.sent[f] = @ \cup {[version |-> v, text |-> Told(r, f, t)]},
                      !.reopened = IF ~IsOpen(r, f) /\ r.sent[f] # {}
                                   THEN @ \cup {f} ELSE @]

Sync(c) ==
    /\ At(c, "sync")
    /\ LET s == call[c].lease
           f == call[c].file
       IN \E r \in RoomFor(sessions[s], f) :
            LET next == SyncDocument(r, f, call[c].text)
            IN /\ next # sessions[s] => sessions[s].state = "live"
               /\ sessions' = [sessions EXCEPT ![s] = next]
               /\ IF call[c].kind = "diagnostics"
                  THEN /\ call' = [call EXCEPT ![c].pc = "wait",
                                               ![c].expected = next.open[f].version]
                       /\ Unlock(c)
                  ELSE call' = [call EXCEPT ![c].pc = "ask"] /\ UNCHANGED owner
    /\ UNCHANGED pool /\ Bounds

SyncFails(c) ==
    /\ At(c, "sync")
    /\ LET r == sessions[call[c].lease]
       IN r.kind # "off" /\ ~UpToDate(r, call[c].file, call[c].text)
    /\ \E r \in {sessions[call[c].lease]} \cup RoomFor(sessions[call[c].lease], call[c].file) :
         sessions' = [sessions EXCEPT ![call[c].lease] = r]
    /\ call' = [call EXCEPT ![c].pc = "broken"]
    /\ Unlock(c)
    /\ UNCHANGED pool /\ Bounds

(***************************************************************************)
(* A request is answered from the text the server has by then; or it is    *)
(* not answered in time, refused, or the server is gone.                   *)
(***************************************************************************)
Answered(c) ==
    /\ At(c, "ask")
    /\ LET r == sessions[call[c].lease] IN
         /\ r.state = "live"
         /\ Finish(c, IF call[c].kind = "symbols" THEN NoText ELSE r.server[call[c].file].text,
                   0, ~r.cut)
    /\ Unlock(c)
    /\ UNCHANGED pool /\ Bounds
    /\ Keep(sessions)

AskFailsLocked(c) ==         \* a bug: the session is closed with its lock still held
    /\ At(c, "ask")
    /\ call' = [call EXCEPT ![c].pc = "broken"]
    /\ UNCHANGED <<pool, sessions, owner>> /\ Bounds

AskFails(c) ==
    /\ At(c, "ask")
    /\ call' = [call EXCEPT ![c].pc = "broken"]
    /\ Unlock(c)
    /\ UNCHANGED <<pool, sessions>> /\ Bounds

Broken(c) == At(c, "broken") /\ Invalidate(c, "return")

(***************************************************************************)
(* wait_for_diagnostics, without the lock of the session.  The cache holds *)
(* the snapshot of the file that arrived last; a server publishes when it  *)
(* likes, of any text it was told and in any order, so that this may be    *)
(* one of any of them.  A snapshot of the version that was sent is         *)
(* current; one without a version is when it arrived after the sync, of    *)
(* which nothing is modelled; any will do for a server that is not told.   *)
(***************************************************************************)
Snapshots(r, f) ==
    IF r.kind = "off" THEN {[version |-> 0, text |-> t] : t \in Texts}
    ELSE {[d EXCEPT !.version = IF r.kind = "unversioned" THEN 0 ELSE @] : d \in r.sent[f]}

MatchesAny(snapshot, expected) == TRUE   \* a bug: the version is not compared

Matches(snapshot, expected) == expected = 0 \/ snapshot.version \in {0, expected}

Published(c) ==
    /\ At(c, "wait")
    /\ LET r == sessions[call[c].lease]
           f == call[c].file
       IN \E d \in Snapshots(r, f) :
            /\ Matches(d, call[c].expected)
            /\ Finish(c, d.text, d.version, ~r.cut /\ f \notin r.reopened)
    /\ UNCHANGED <<pool, owner>> /\ Bounds
    /\ Keep(sessions)

NotPublished(c) ==
    /\ At(c, "wait") /\ Finish(c, NoText, 0, TRUE)
    /\ UNCHANGED <<pool, owner>> /\ Bounds
    /\ Keep(sessions)

Return(c) ==
    /\ At(c, "return")
    /\ call' = [call EXCEPT ![c] = Idle]
    /\ UNCHANGED <<pool, sessions, owner>> /\ Bounds

(***************************************************************************)
(* shutdown_pooled_sessions, when the application exits.                   *)
(***************************************************************************)
Shutdown(c) ==
    /\ At(c, "idle") /\ made < MaxCalls
    /\ call' = [call EXCEPT ![c] =
                  CloseFirst(@, {s \in Sessions : Pooled(s)}, None, "return")]
    /\ pool' = [k \in Keys |-> None]
    /\ made' = made + 1
    /\ UNCHANGED <<sessions, owner, faults>>

-----------------------------------------------------------------------------
(***************************************************************************)
(* A dropped call.  What it has sent is not taken back: a document may     *)
(* have been closed, opened or changed at the server without the client's  *)
(* record of it, or a message may be torn; a session that was being        *)
(* closed may have lost its documents.  Its lease and lock end with it.    *)
(***************************************************************************)
Cut(r, x) == [r EXCEPT !.server = x.server, !.sent = x.sent, !.cut = TRUE]

CutSessions(c) ==
    LET s == call[c].lease
        r == sessions[s]
        f == call[c].file
        sent == {r} \cup RoomFor(r, f)
                \cup {SyncDocument(x, f, call[c].text) : x \in RoomFor(r, f)}
    IN CASE At(c, "sync") -> {[sessions EXCEPT ![s] = Cut(r, x)] : x \in sent}
         [] At(c, "ask")  -> {sessions, [sessions EXCEPT ![s].cut = TRUE]}
         [] At(c, "evict") -> {sessions} \cup
              {[sessions EXCEPT ![x] = Cut(sessions[x], Shut(x)[x])] :
                 x \in {y \in call[c].evicted : owner[y] = None}}
         [] OTHER -> {sessions}

Cancel(c) ==
    /\ call[c].pc \notin {"idle", "return"} /\ faults < MaxFaults
    /\ faults' = faults + 1
    /\ call' = [call EXCEPT ![c] = Idle]
    /\ owner' = [s \in Sessions |-> IF owner[s] = c THEN None ELSE owner[s]]
    /\ UNCHANGED <<pool, made>>
    /\ \E after \in CutSessions(c) : Keep(after)

(***************************************************************************)
(* A server exits on its own.                                              *)
(***************************************************************************)
ServerDies(s) ==
    /\ sessions[s].state = "live" /\ faults < MaxFaults
    /\ sessions' = [sessions EXCEPT ![s].state = "dead"]
    /\ faults' = faults + 1
    /\ UNCHANGED <<pool, owner, call, made>>

-----------------------------------------------------------------------------
Step(c) ==
    \/ Acquire(c) \/ CloseEvicted(c)
    \/ Start(c) \/ StartFails(c) \/ Insert(c) \/ Check(c) \/ Stale(c)
    \/ Lock(c) \/ Unsupported(c) \/ Sync(c) \/ SyncFails(c)
    \/ Answered(c) \/ AskFails(c) \/ Broken(c)
    \/ Published(c) \/ NotPublished(c) \/ Return(c)

Next ==
    \/ \E c \in Callers :
         \/ \E f \in Files, t \in Texts \cup {NoText} :
              \E kind \in CallsOf[f] : Begin(c, kind, f, t)
         \/ Step(c) \/ Cancel(c) \/ Shutdown(c)
    \/ \E s \in Sessions : ServerDies(s)

(***************************************************************************)
(* Every await of a call ends: requests after LSP_TIMEOUT_SECS, the wait   *)
(* for diagnostics after DIAGNOSTIC_WAIT_MILLIS, a lock when its holder is *)
(* done.  Nothing is assumed of servers, users and cancellation.           *)
(***************************************************************************)
Fairness == \A c \in Callers : WF_vars(Step(c))

Spec == Init /\ [][Next]_vars /\ Fairness

-----------------------------------------------------------------------------
(***************************************************************************)
(* The shape of the state.  The pool never exceeds its capacity, each      *)
(* pooled session is in it once, and the sessions that live are those      *)
(* somebody refers to.                                                     *)
(***************************************************************************)
TypeOK ==
    /\ pool \in [Keys -> Sessions \cup {None}]
    /\ Cardinality({k \in Keys : pool[k] # None}) <= MaxPooled
    /\ \A s \in Sessions : Cardinality({k \in Keys : pool[k] = s}) <= 1
    /\ \A s \in Sessions :
         /\ sessions[s].state \in {"none", "live", "dead", "closed"}
         /\ sessions[s].kind \in Kinds
         /\ sessions[s].open \in [Files -> Document]
         /\ sessions[s].server \in [Files -> Document]
         /\ sessions[s].state = "none" <=> ~Referenced(s)
         /\ owner[s] \in Callers \cup {None}
    /\ \A c \in Callers : call[c].lease \in Sessions \cup {None}

(***************************************************************************)
(* A session another call has a lease on is never closed by eviction, be   *)
(* it for its age or for room, nor by the loser of a race to start it: a   *)
(* call finds the session it holds closed only when a call gave it up as   *)
(* broken or the application exits.                                        *)
(***************************************************************************)
EvictionSparesLeases ==
    \A c \in Callers :
        call[c].pc = "evict" /\ call[c].then \in {"check", "start"} =>
            \A s \in call[c].evicted, d \in Callers : call[d].lease # s

(***************************************************************************)
(* The answer of a navigation or outline request is about the text the     *)
(* call read: line and column were checked against it.  Two calls may have *)
(* read two texts of one file, and share a session.  Not claimed of a      *)
(* session in which a call was dropped while it was sending: the text it   *)
(* sent is not on record.                                                  *)
(***************************************************************************)
AnswersAreAboutTheText ==
    \A c \in Callers :
        /\ call[c].pc = "return" /\ call[c].kind = "navigate" /\ call[c].sound
        => call[c].got \in {NoText, call[c].text}

(***************************************************************************)
(* Diagnostics returned as published are those of the text the call read,  *)
(* although they arrive in any order with respect to syncs of other calls. *)
(* Claimed of versioned snapshots, where no send was dropped and the file  *)
(* was opened only once in the session: without these exceptions it does   *)
(* not hold, for versions start again when a file is opened again.         *)
(***************************************************************************)
DiagnosticsAreAboutTheText ==
    \A c \in Callers :
        /\ call[c].pc = "return" /\ call[c].kind = "diagnostics"
        /\ call[c].expected > 0 /\ call[c].sound
        => call[c].got \in {NoText, call[c].text}

(***************************************************************************)
(* Every tool call returns, whatever the servers do and whoever closes     *)
(* them: no two calls wait for each other's session.                       *)
(***************************************************************************)
EveryCallEnds == \A c \in Callers : call[c].pc # "idle" ~> call[c].pc = "idle"
=============================================================================
