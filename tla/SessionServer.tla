---------------------------- MODULE SessionServer ----------------------------
(***************************************************************************)
(* InterpreterServer (src/src/server.rs): the session map, its lock, the   *)
(* lock of each session, and the tools that use them, composed with the    *)
(* sessions of WorkerPipe.                                                 *)
(*                                                                         *)
(*   sessions: Mutex<HashMap<String, Arc<Mutex<Session>>>>                 *)
(*                                                                         *)
(* Each call is one task of a multi-threaded runtime, so calls interleave  *)
(* at every lock and every await.  A critical section of the map lock that *)
(* awaits nothing is one action, guarded by the lock being free; the one   *)
(* that awaits (install_package) holds mapLock across actions.  An Arc is  *)
(* a reference: an object is dropped by the step that removes its last.    *)
(***************************************************************************)
EXTENDS WorkerPipe, FiniteSets

CONSTANTS
    Sids,         \* session ids: given by the client, or a fresh uuid
    MaxSessions,  \* Config::max_sessions
    Cancellable   \* may the transport drop the future of a call?

ASSUME ServerAssumption ==
    /\ MaxSessions \in Nat \ {0}
    /\ Cancellable \in BOOLEAN

VARIABLES
    sessions,  \* the map: sessions[s] is an object, or NoCall when s is absent
    mapLock,   \* the call that holds the map lock across an await
    sessLock,  \* sessLock[o]: the call that holds the lock of object o
    pc,        \* where each call is
    sid,       \* its session_id
    handle,    \* the object its acquire, lookup or removal returned
    snapshot,  \* Arcs that a listing has cloned, or a reset has removed
    expired,   \* objects with SESSION_IDLE_SECONDS gone by since last_used
    result,    \* what the call reports
    answer     \* whose code an execution reports on

serverVars == <<sessions, mapLock, sessLock, pc, sid, handle, snapshot,
                expired, result, answer>>
vars == <<pipeVars, serverVars>>

\* execute_python: sweep, acquire, lock (or wait for it), send, read, then
\* return or retire.
ExecutePcs == {"sweep", "acquire", "lock", "wait", "send", "read", "return", "retire"}
EntryPcs == {"sweep", "reset", "list", "install"}
Pcs == ExecutePcs \cup EntryPcs \cup {"release", "listing", "path", "pip", "done"}

\* A call in the middle of an exchange: it holds the lock of its session.
Executing == {"send", "read", "return"}
\* A call whose local `session` is an Arc.
HoldingArc == Executing \cup {"lock", "wait", "retire"}
\* A call that is waiting for the map lock, or can be.
WantsMap == {"sweep", "acquire", "retire", "reset", "list", "install"}

Results == {"none", "output", "failed", "refused", "unspawned", "reset", "absent", "listed",
            "installed", "nosession", "pipfailed", "cancelled"}
PipEnds == {"installed", "pipfailed"}

TypeOK ==
    /\ PipeTypeOK
    /\ sessions \in [Sids -> Objs \cup {NoCall}]
    /\ mapLock \in Calls \cup {NoCall}
    /\ sessLock \in [Objs -> Calls \cup {NoCall}]
    /\ pc \in [Calls -> Pcs]
    /\ sid \in [Calls -> Sids]
    /\ handle \in [Calls -> Objs \cup {NoCall}]
    /\ snapshot \in [Calls -> SUBSET Objs]
    /\ expired \subseteq Objs
    /\ result \in [Calls -> Results]
    /\ answer \in [Calls -> Calls \cup {NoCall}]

\* Which tool a call asks for and on which session is settled from the start:
\* nothing can be seen of a call before its first step.
Init ==
    /\ PipeInit
    /\ sessions = [s \in Sids |-> NoCall]
    /\ mapLock = NoCall
    /\ sessLock = [o \in Objs |-> NoCall]
    /\ pc \in [Calls -> EntryPcs]
    /\ sid \in [Calls -> Sids]
    /\ handle = [c \in Calls |-> NoCall]
    /\ snapshot = [c \in Calls |-> {}]
    /\ expired = {}
    /\ result = [c \in Calls |-> "none"]
    /\ answer = [c \in Calls |-> NoCall]

-------------------------------------------------------------------------------
Present == {s \in Sids : sessions[s] # NoCall}
Mapped  == {sessions[s] : s \in Present}

\* Mutant of Referenced: a finished call leaks its Arc.
ReferencedLeak(o) ==
    \/ o \in Mapped
    \/ \E c \in Calls : pc[c] \in HoldingArc \cup {"done"} /\ handle[c] = o
    \/ \E c \in Calls : o \in snapshot[c]

\* Arc strong count > 0.
Referenced(o) ==
    \/ o \in Mapped
    \/ \E c \in Calls : pc[c] \in HoldingArc /\ handle[c] = o
    \/ \E c \in Calls : o \in snapshot[c]

\* Objects whose last reference this step removes are dropped in it.
DropUnreferenced ==
    Drop({o \in Objs : life[o] \in {"open", "killed"} /\ ~Referenced(o)'})

Goto(c, label) == pc' = [pc EXCEPT ![c] = label]
Finish(c, r) == Goto(c, "done") /\ result' = [result EXCEPT ![c] = r]
Lookup(c) == sessions[sid[c]]
MapFree == mapLock = NoCall
Unmap(s) == sessions' = [sessions EXCEPT ![s] = NoCall]

-------------------------------------------------------------------------------
(* cleanup_expired: one critical section; try_lock keeps busy sessions. *)

\* try_lock succeeds.  tokio's lock is handed from its holder to the first of
\* the queue: with a queue it is never free.
LockFree(o) ==
    sessLock[o] = NoCall /\ \A c \in Calls : pc[c] = "wait" => handle[c] # o

\* Mutant of Expirable: no try_lock, last_used alone decides.
ExpirableBusy == {s \in Present : sessions[s] \in expired}

Expirable == {s \in Present : sessions[s] \in expired /\ LockFree(sessions[s])}

CleanupExpired ==
    /\ MapFree
    /\ sessions' = [s \in Sids |-> IF s \in Expirable THEN NoCall ELSE sessions[s]]
    /\ DropUnreferenced

\* Mutant of Reaper: the revision that swept only inside execute_python.
ReaperNever == UNCHANGED vars

\* spawn_reaper's ticker, every CLEANUP_INTERVAL_SECS.
Reaper ==
    /\ UNCHANGED <<mapLock, sessLock, pc, sid, handle, snapshot, expired, result, answer>>
    /\ CleanupExpired

\* SESSION_IDLE_SECONDS have passed since the last_used of o, at whatever point
\* the calls are (of interest only while o is in the map).
Age(o) ==
    /\ o \in Mapped \ expired
    /\ expired' = expired \cup {o}
    /\ UNCHANGED <<pipeVars, sessions, mapLock, sessLock, pc, sid, handle, snapshot,
                   result, answer>>

-------------------------------------------------------------------------------
(* execute_python *)

Sweep(c) ==
    /\ pc[c] = "sweep"
    /\ Goto(c, "acquire")
    /\ UNCHANGED <<mapLock, sessLock, sid, handle, snapshot, expired, result, answer>>
    /\ CleanupExpired

AcquireExisting(c) ==
    /\ pc[c] = "acquire" /\ MapFree
    /\ Lookup(c) # NoCall
    /\ handle' = [handle EXCEPT ![c] = Lookup(c)]
    /\ Goto(c, "lock")
    /\ UNCHANGED <<pipeVars, sessions, mapLock, sessLock, sid, snapshot, expired,
                   result, answer>>

AcquireRefused(c) ==
    /\ pc[c] = "acquire" /\ MapFree
    /\ Lookup(c) = NoCall
    /\ Cardinality(Present) >= MaxSessions
    /\ Finish(c, "refused")
    /\ UNCHANGED <<pipeVars, sessions, mapLock, sessLock, sid, handle, snapshot,
                   expired, answer>>

\* Session::new fails (directory, nsjail required, spawn): nothing is inserted.
SpawnFails(c) ==
    /\ pc[c] = "acquire" /\ MapFree
    /\ Lookup(c) = NoCall
    /\ Cardinality(Present) < MaxSessions
    /\ Finish(c, "unspawned")
    /\ UNCHANGED <<pipeVars, sessions, mapLock, sessLock, sid, handle, snapshot,
                   expired, answer>>

\* Mutant of AcquireNew: `>` for `>=` in the limit check.
AcquireNewOverLimit(c) ==
    /\ pc[c] = "acquire" /\ MapFree
    /\ Lookup(c) = NoCall
    /\ Cardinality(Present) <= MaxSessions
    /\ Spawn(c)
    /\ sessions' = [sessions EXCEPT ![sid[c]] = c]
    /\ handle' = [handle EXCEPT ![c] = c]
    /\ Goto(c, "lock")
    /\ UNCHANGED <<mapLock, sessLock, sid, snapshot, expired, result, answer>>

AcquireNew(c) ==
    /\ pc[c] = "acquire" /\ MapFree
    /\ Lookup(c) = NoCall
    /\ Cardinality(Present) < MaxSessions
    /\ Spawn(c)
    /\ sessions' = [sessions EXCEPT ![sid[c]] = c]
    /\ handle' = [handle EXCEPT ![c] = c]
    /\ Goto(c, "lock")
    /\ UNCHANGED <<mapLock, sessLock, sid, snapshot, expired, result, answer>>

\* session.lock().await finds the lock taken and queues.
AwaitSession(c) ==
    /\ pc[c] = "lock"
    /\ ~LockFree(handle[c])
    /\ Goto(c, "wait")
    /\ UNCHANGED <<pipeVars, sessions, mapLock, sessLock, sid, handle, snapshot,
                   expired, result, answer>>

\* Mutant of LockSession: the session is used without its lock.
LockSessionUnguarded(c) ==
    /\ pc[c] \in {"lock", "wait"}
    /\ sessLock' = [sessLock EXCEPT ![handle[c]] = c]
    /\ expired' = expired \ {handle[c]}
    /\ Goto(c, "send")
    /\ UNCHANGED <<pipeVars, sessions, mapLock, sid, handle, snapshot, result, answer>>

\* It is free, or this call's turn has come (any of the queue: who came first
\* is left out).  Session::execute sets last_used before all else.
LockSession(c) ==
    /\ \/ pc[c] = "lock" /\ LockFree(handle[c])
       \/ pc[c] = "wait" /\ sessLock[handle[c]] = NoCall
    /\ sessLock' = [sessLock EXCEPT ![handle[c]] = c]
    /\ expired' = expired \ {handle[c]}
    /\ Goto(c, "send")
    /\ UNCHANGED <<pipeVars, sessions, mapLock, sid, handle, snapshot, result, answer>>

Send(c) ==
    /\ pc[c] = "send"
    /\ WriteRequest(handle[c], c)
    /\ Goto(c, "read")
    /\ UNCHANGED <<sessions, mapLock, sessLock, sid, handle, snapshot, expired,
                   result, answer>>

\* Mutants of Fail: no drop(guard); no retirement.
FailKeepsGuard(c) ==
    /\ Goto(c, "retire")
    /\ UNCHANGED <<sessions, mapLock, sessLock, sid, handle, snapshot, expired, result, answer>>
FailStays(c) ==
    /\ sessLock' = [sessLock EXCEPT ![handle[c]] = NoCall]
    /\ Finish(c, "failed")
    /\ UNCHANGED <<sessions, mapLock, sid, handle, snapshot, expired, answer>>

\* A failed exchange: drop(guard), with the retirement still to come.
Fail(c) ==
    /\ sessLock' = [sessLock EXCEPT ![handle[c]] = NoCall]
    /\ Goto(c, "retire")
    /\ UNCHANGED <<sessions, mapLock, sid, handle, snapshot, expired, result, answer>>

SendFails(c) ==
    /\ pc[c] = "send"
    /\ WriteFails(handle[c])
    /\ Fail(c)
    /\ UNCHANGED pipeVars

\* Mutant of ReadOutput: the session is looked up again by its id.
ReadOutputById(c) ==
    /\ pc[c] = "read"
    /\ Lookup(c) # NoCall /\ ReadLine(Lookup(c))
    /\ LET line == Head(outbox[Lookup(c)])
       IN  /\ line.kind \in {"response", "json"}
           /\ answer' = [answer EXCEPT ![c] = line.by]
    /\ result' = [result EXCEPT ![c] = "output"]
    /\ Goto(c, "return")
    /\ UNCHANGED <<sessions, mapLock, sessLock, sid, handle, snapshot, expired>>

\* The line parses: its fields, or their defaults, are the output.
ReadOutput(c) ==
    /\ pc[c] = "read"
    /\ ReadLine(handle[c])
    /\ LET line == Head(outbox[handle[c]])
       IN  /\ line.kind \in {"response", "json"}
           /\ answer' = [answer EXCEPT ![c] = line.by]
    /\ result' = [result EXCEPT ![c] = "output"]
    /\ Goto(c, "return")
    /\ UNCHANGED <<sessions, mapLock, sessLock, sid, handle, snapshot, expired>>

\* The line does not parse: the pipe stays open, what follows stays unread.
ReadJunk(c) ==
    /\ pc[c] = "read"
    /\ ReadLine(handle[c])
    /\ Head(outbox[handle[c]]).kind = "junk"
    /\ Fail(c)

ReadEof(c) ==
    /\ pc[c] = "read"
    /\ AtEof(handle[c])
    /\ Fail(c)
    /\ UNCHANGED pipeVars

\* Mutants of Timeout: the worker is left running; there is no timeout.
TimeoutWithoutKill(c) ==
    /\ pc[c] \in {"send", "read"}
    /\ life[handle[c]] = "open"
    /\ Fail(c)
    /\ UNCHANGED pipeVars
TimeoutNever(c) == FALSE

\* tokio::time::timeout around the whole exchange.
Timeout(c) ==
    /\ pc[c] \in {"send", "read"}
    /\ life[handle[c]] = "open"
    /\ Kill(handle[c])
    /\ Fail(c)

\* The guard and then the Arc go out of scope with the Ok response.
Return(c) ==
    /\ pc[c] = "return"
    /\ sessLock' = [sessLock EXCEPT ![handle[c]] = NoCall]
    /\ Goto(c, "done")
    /\ UNCHANGED <<sessions, mapLock, sid, handle, snapshot, expired, result, answer>>
    /\ DropUnreferenced

\* Mutant of Retire: the error is returned, the session stays in the map.
RetireReports(c) ==
    /\ pc[c] = "retire" /\ MapFree
    /\ Finish(c, "failed")
    /\ UNCHANGED <<sessions, mapLock, sessLock, sid, handle, snapshot, expired, answer>>
    /\ DropUnreferenced

\* sessions.lock().await.remove(&sid), by key.
Retire(c) ==
    /\ pc[c] = "retire" /\ MapFree
    /\ Unmap(sid[c])
    /\ Finish(c, "failed")
    /\ UNCHANGED <<mapLock, sessLock, sid, handle, snapshot, expired, answer>>
    /\ DropUnreferenced

-------------------------------------------------------------------------------
(* reset_python_session and list_python_sessions *)

\* sessions.lock().await.remove(&session_id): the guard goes with the statement,
\* the Arc stays in `removed`.
Reset(c) ==
    /\ pc[c] = "reset" /\ MapFree
    /\ Unmap(sid[c])
    /\ handle' = [handle EXCEPT ![c] = Lookup(c)]
    /\ snapshot' = [snapshot EXCEPT ![c] = {Lookup(c)} \ {NoCall}]
    /\ result' = [result EXCEPT ![c] = IF Lookup(c) # NoCall THEN "reset" ELSE "absent"]
    /\ Goto(c, "release")
    /\ UNCHANGED <<pipeVars, mapLock, sessLock, sid, expired, answer>>

\* drop(removed), and the answer.
ResetDrops(c) ==
    /\ pc[c] = "release"
    /\ snapshot' = [snapshot EXCEPT ![c] = {}]
    /\ Goto(c, "done")
    /\ UNCHANGED <<sessions, mapLock, sessLock, sid, handle, expired, result, answer>>
    /\ DropUnreferenced

ListSnapshot(c) ==
    /\ pc[c] = "list" /\ MapFree
    /\ snapshot' = [snapshot EXCEPT ![c] = Mapped]
    /\ Goto(c, "listing")
    /\ UNCHANGED <<pipeVars, sessions, mapLock, sessLock, sid, handle, expired,
                   result, answer>>

\* One turn of the loop: try_lock never waits, and the Arc goes out of scope.
ListEntry(c) ==
    /\ pc[c] = "listing"
    /\ \E o \in snapshot[c] : snapshot' = [snapshot EXCEPT ![c] = @ \ {o}]
    /\ UNCHANGED <<sessions, mapLock, sessLock, pc, sid, handle, expired, result, answer>>
    /\ DropUnreferenced

ListReturn(c) ==
    /\ pc[c] = "listing" /\ snapshot[c] = {}
    /\ Finish(c, "listed")
    /\ UNCHANGED <<pipeVars, sessions, mapLock, sessLock, sid, handle, snapshot,
                   expired, answer>>

-------------------------------------------------------------------------------
(* install_package *)

\* With a session_id: the map lock is taken and kept over the next await.
InstallLookup(c) ==
    /\ pc[c] = "install" /\ MapFree
    /\ Lookup(c) # NoCall
    /\ mapLock' = c
    /\ handle' = [handle EXCEPT ![c] = Lookup(c)]
    /\ Goto(c, "path")
    /\ UNCHANGED <<pipeVars, sessions, sessLock, sid, snapshot, expired, result, answer>>

InstallUnknown(c) ==
    /\ pc[c] = "install" /\ MapFree
    /\ Lookup(c) = NoCall
    /\ Finish(c, "nosession")
    /\ UNCHANGED <<pipeVars, sessions, mapLock, sessLock, sid, handle, snapshot,
                   expired, answer>>

\* Without a session_id.
InstallGlobal(c) ==
    /\ pc[c] = "install"
    /\ Goto(c, "pip")
    /\ UNCHANGED <<pipeVars, sessions, mapLock, sessLock, sid, handle, snapshot,
                   expired, result, answer>>

\* session.lock().await.packages_path(), then both guards are gone.
InstallPath(c) ==
    /\ pc[c] = "path"
    /\ sessLock[handle[c]] = NoCall
    /\ mapLock' = NoCall
    /\ Goto(c, "pip")
    /\ UNCHANGED <<pipeVars, sessions, sessLock, sid, handle, snapshot, expired,
                   result, answer>>

\* pip creates a --target directory that is not there.
PipSucceeds(c) ==
    /\ pc[c] = "pip"
    /\ workdirs' = workdirs \cup ({handle[c]} \ {NoCall})
    /\ Finish(c, "installed")
    /\ UNCHANGED <<life, worker, job, inbox, outbox, ran, strays,
                   sessions, mapLock, sessLock, sid, handle, snapshot, expired, answer>>

\* A pip that fails may have made the directory before.  A name that is rejected
\* before pip starts ends here too.
PipFails(c) ==
    /\ pc[c] = "pip"
    /\ workdirs' \in {workdirs, workdirs \cup ({handle[c]} \ {NoCall})}
    /\ Finish(c, "pipfailed")
    /\ UNCHANGED <<life, worker, job, inbox, outbox, ran, strays,
                   sessions, mapLock, sessLock, sid, handle, snapshot, expired, answer>>

-------------------------------------------------------------------------------
\* The transport drops the future of a call at an await: guards and Arcs are
\* released by their destructors, no other code of the handler runs.  pip is
\* not killed with the future that awaits it: PipStep stands for both cases.
Cancel(c) ==
    /\ Cancellable
    /\ pc[c] \notin {"return", "release", "listing", "pip", "done"}
    /\ mapLock' = IF mapLock = c THEN NoCall ELSE mapLock
    /\ sessLock' = [o \in Objs |-> IF sessLock[o] = c THEN NoCall ELSE sessLock[o]]
    /\ Finish(c, "cancelled")
    /\ UNCHANGED <<sessions, sid, handle, snapshot, expired, answer>>
    /\ DropUnreferenced

ExecuteStep(c) ==
    \/ Sweep(c)
    \/ AcquireExisting(c) \/ AcquireRefused(c) \/ SpawnFails(c) \/ AcquireNew(c)
    \/ AwaitSession(c) \/ LockSession(c)
    \/ Send(c) \/ SendFails(c)
    \/ ReadOutput(c) \/ ReadJunk(c) \/ ReadEof(c)
    \/ Timeout(c)
    \/ Return(c) \/ Retire(c)

ToolStep(c) ==
    \/ Reset(c) \/ ResetDrops(c)
    \/ ListSnapshot(c) \/ ListEntry(c) \/ ListReturn(c)
    \/ InstallLookup(c) \/ InstallUnknown(c) \/ InstallGlobal(c) \/ InstallPath(c)

PipStep(c) == PipSucceeds(c) \/ PipFails(c)

PipeStep(o) == WorkerStep(o) /\ UNCHANGED serverVars

Next ==
    \/ \E c \in Calls : ExecuteStep(c) \/ ToolStep(c) \/ PipStep(c) \/ Cancel(c)
    \/ \E o \in Objs : PipeStep(o) \/ Age(o)
    \/ Reaper

Spec == Init /\ [][Next]_vars

-------------------------------------------------------------------------------
(* Safety *)

\* The map never holds more sessions than LIBERADO_MAX_SESSIONS: the check and
\* the insert of `acquire` are under one hold of the map lock, while any number
\* of calls race for the last place.
SessionLimit == Cardinality(Present) <= MaxSessions

\* No two calls are inside an exchange with the same worker (execute_python
\* holds the session lock across `execute`), through timeouts, retirements,
\* cancelled calls and objects that have left the map.
SessionMutex ==
    \A c, d \in Calls :
        pc[c] \in Executing /\ pc[d] \in Executing /\ handle[c] = handle[d] => c = d

\* ARCHITECTURE.md, "Exactly one response per request": whatever an execution
\* reports is the response of the worker to the code of that execution, never
\* the late or left-over response to somebody else's.
ReplyPairs == \A c \in Calls : result[c] = "output" => answer[c] = c

\* Sessions do not mix, whatever user code writes to the protocol stream and
\* whichever calls are cancelled: a response that an execution takes for its own
\* comes from code that was run in the very session the execution used.
SessionIsolation ==
    \A c \in Calls :
        result[c] = "output" => answer[c] = NoCall \/ handle[answer[c]] = handle[c]

\* An execution that reported an error has left no way to its session: the
\* object it failed on is not in the map, under any name.
FailedSessionGone ==
    \A c \in Calls : result[c] = "failed" => handle[c] \notin Mapped

\* A session whose worker was killed by a timeout can be found in the map only
\* while the call that killed it, or one that failed on it since, is on its way
\* to remove it.
KilledSessionRetiring ==
    \A o \in Mapped : life[o] = "killed" =>
        \E c \in Calls : pc[c] = "retire" /\ handle[c] = o

\* The two locks do not close a circle: while install_package holds the map
\* lock and waits for a session lock, the holder of that session lock is in an
\* exchange, which ends by itself, and does not wait for the map lock.
NoCircularWait ==
    \A c, d \in Calls :
        ~ /\ mapLock = c /\ pc[c] = "path" /\ sessLock[handle[c]] = d
          /\ pc[d] \in WantsMap

\* LIBERADO_MAX_SESSIONS counts the map, and more workers than that can be
\* alive: but each one outside the map is in the hands of a call that has not
\* ended, so they are at most as many again as there are such calls.
UnmappedWorkersInUse ==
    \A o \in Objs : worker[o] = "alive" /\ o \notin Mapped =>
        \E c \in Calls : o \in snapshot[c] \/ (pc[c] \in HoldingArc /\ handle[c] = o)

\* Work directories are accounted for: every session that is not dropped has
\* its own, and one that outlives its session was made again by a pip that was
\* running when the session went (install_package keeps a path, no Arc).
WorkdirsAccounted ==
    \A o \in Objs :
        /\ life[o] \in {"open", "killed"} => o \in workdirs
        /\ o \in workdirs /\ life[o] = "dropped" =>
              \E c \in Calls : result[c] \in PipEnds /\ handle[c] = o

-------------------------------------------------------------------------------
(* Action properties *)

Leaves(labels) == \E c \in Calls : pc[c] \in labels /\ pc'[c] \notin labels

\* A session leaves the map during an exchange on it only because a client
\* reset it or an execution failed: neither the sweep of another execute_python
\* nor the reaper takes it, however long ago its last_used is
\* (cleanup_expired: "Busy sessions are by definition not idle").
BusyNeverReaped ==
    [][\A c \in Calls :
          pc[c] \in Executing /\ handle[c] \in Mapped /\ handle[c] \notin Mapped'
              => Leaves({"reset", "retire"})]_vars

\* execute_python's retirement removes the session its exchange failed on, and
\* no other (server.rs: "Retire the session rather than reuse it"; "someone
\* else's live namespace is not ours to discard").
RetireOwnSession ==
    [][\A c \in Calls :
          pc[c] = "retire" /\ pc'[c] = "done" => Mapped \ Mapped' \subseteq {handle[c]}]_vars

\* server.rs, SharedSession: "The map lock is only ever held long enough to
\* look this up": no call keeps it while it waits for a running execution.
MapLockShort ==
    \A c \in Calls : mapLock = c => sessLock[handle[c]] = NoCall

-------------------------------------------------------------------------------
(* What the clients see: the server implements SessionDirectory. *)

UsedBy  == [c \in Calls |-> IF pc[c] \in HoldingArc THEN handle[c] ELSE NoCall]
Opened  == {o \in Objs : life[o] # "none"}
Outcome == [c \in Calls |-> IF pc[c] \in {"release", "done"} THEN result[c] ELSE "none"]

Directory == INSTANCE SessionDirectory
    WITH names <- sessions, uses <- UsedBy, inside <- sessLock, born <- Opened,
         outcome <- Outcome

\* Locks, queues, pipes, Arcs, pip and the reaper show to no client: whatever
\* they do is a step of the directory or nothing.  An execution has the session
\* its id named, alone and to its end; a failure is reported when the session
\* has no id any more; sweeps forget only what nobody uses; and no session gets
\* an id for a second time.
DirectorySpec == Directory!Spec

-------------------------------------------------------------------------------
(* Progress.  Locks are tokio's, which queue: whoever waits for one gets it if *)
(* it is released again and again (strong fairness).  exec_timeout_secs ends   *)
(* every exchange, the reaper's ticker and the clock go on.  Nothing is        *)
(* assumed of a worker, of pip (it has no timeout) or of the clients.          *)

Fairness ==
    /\ \A c \in Calls : SF_vars(ExecuteStep(c) \/ ToolStep(c))
    /\ \A o \in Objs : WF_vars(Age(o))
    /\ WF_vars(Reaper)

FairSpec == Spec /\ Fairness

\* Every call returns, except that nothing bounds pip: an endless execution,
\* a dead worker or a queue behind either delays the others but blocks nobody
\* (constants.rs, EXEC_TIMEOUT_SECS).
CallsReturn == \A c \in Calls : <>(pc[c] \in {"done", "pip"})

\* Abandoned sessions do not keep their subprocess (spawn_reaper): when no more
\* calls come, every worker is gone in the end, the mapped ones through the
\* reaper and the unmapped ones with their last Arc.
WorkersReclaimed == <>[](\A o \in Objs : worker[o] # "alive")

\* A reset releases the subprocess of a session in the end, also when the
\* session was busy and only the execution's Arc was left of it.
ResetReleases ==
    \A c \in Calls, o \in Objs :
        (result[c] = "reset" /\ handle[c] = o) ~> worker[o] # "alive"
===============================================================================
