--------------------------- MODULE SessionInvariant ---------------------------
(***************************************************************************)
(* The inductive invariant of SessionServer behind its safety properties.  *)
(* LockInv, MapInv and LimitInv hold of every server; RetireInv needs      *)
(* calls that run to their end, PipeInv in addition user code that leaves  *)
(* the protocol stream alone.  SessionServerProofs proves it.              *)
(***************************************************************************)
EXTENDS SessionServer

\* Locks are held by the calls whose pc says so, and by nobody else.
LockInv ==
    /\ \A c \in Calls : pc[c] \in HoldingArc \cup {"path"} => handle[c] \in Objs
    /\ \A c \in Calls : pc[c] \in Executing => sessLock[handle[c]] = c
    /\ \A o \in Objs : sessLock[o] # NoCall =>
          pc[sessLock[o]] \in Executing /\ handle[sessLock[o]] = o
    /\ \A c \in Calls : pc[c] = "path" <=> mapLock = c

\* The map: its objects are undropped and under one name, the name their
\* holders know; an object is inserted once, by its creator, before anybody
\* else can hold it.
MapInv ==
    /\ \A s \in Present : life[sessions[s]] \in {"open", "killed"}
    /\ \A s, t \in Present : sessions[s] = sessions[t] => s = t
    /\ \A c \in Calls, s \in Present :
          pc[c] \in HoldingArc /\ sessions[s] = handle[c] => s = sid[c]
    /\ \A c \in Calls : handle[c] # NoCall => life[handle[c]] # "none"
    /\ \A c \in Calls : pc[c] \in {"sweep", "acquire"} => life[c] = "none"
    /\ \A c \in Calls : pc[c] \notin {"return", "release", "done"} => result[c] = "none"

LimitInv == IsFiniteSet(Present) /\ SessionLimit

SharedInv == TypeOK /\ LockInv /\ MapInv /\ LimitInv /\ FailedSessionGone

\* Only an output is returned; a failure goes through the retirement.
ReturnInv == \A c \in Calls : pc[c] = "return" => result[c] = "output"

\* What keeps a session, and what a session keeps.  A session that is not
\* dropped is referenced, a worker that lives belongs to one whose pipes are
\* open, and nobody has clones of Arcs but a listing or a reset on its way.
ResourceInv ==
    /\ \A o \in Objs : life[o] \in {"open", "killed"} => Referenced(o)
    /\ \A o \in Objs : worker[o] = "alive" => life[o] = "open"
    /\ \A o \in Objs : o \in workdirs => life[o] # "none"
    /\ \A c \in Calls : pc[c] \notin {"release", "listing"} => snapshot[c] = {}
    /\ WorkdirsAccounted

RetireInv == ~Cancellable => KilledSessionRetiring

\* Nothing is in the pipes of o or being executed.
Quiet(o) == inbox[o] = <<>> /\ job[o] = NoCall /\ outbox[o] = <<>>

\* The request of c is on its way, in execution or answered; or it was lost
\* with the worker.
InFlight(o, c) ==
    \/ Quiet(o)
    \/ inbox[o] = <<c>> /\ job[o] = NoCall /\ outbox[o] = <<>>
    \/ inbox[o] = <<>> /\ job[o] = c /\ outbox[o] = <<>>
    \/ inbox[o] = <<>> /\ job[o] = NoCall /\ outbox[o] = <<Response(c)>>

\* A pipe carries something only between the send and the read of one call,
\* and only of that call.
PipeInv ==
    /\ \A o \in Objs : (\A c \in Calls : pc[c] = "read" => handle[c] # o) => Quiet(o)
    /\ \A o \in Objs, c \in Calls : pc[c] = "read" /\ handle[c] = o => InFlight(o, c)
    /\ \A o \in Objs : worker[o] = "dead" => inbox[o] = <<>> /\ job[o] = NoCall
    /\ ReplyPairs

Orderly == ~Cancellable /\ StrayKinds = {}
ReplyInv == Orderly => PipeInv

IInv == SharedInv /\ ReturnInv /\ ResourceInv /\ RetireInv /\ ReplyInv

\* The calls whose request, execution or response is in the pipes of o.
Inside(o) ==
    ({inbox[o][i] : i \in DOMAIN inbox[o]}
        \cup {job[o]} \cup {outbox[o][i].by : i \in DOMAIN outbox[o]}) \ {NoCall}

\* A call that has written its request: its session is settled.
Asked(c) == pc[c] \in {"read", "return", "retire", "done"}

\* What is in a pipe belongs to calls of that session, for good.
IsolationInv ==
    /\ \A o \in Objs : \A c \in Inside(o) : handle[c] = o /\ Asked(c)
    /\ \A c \in Calls : result[c] = "output" /\ answer[c] # NoCall =>
          Asked(c) /\ Asked(answer[c]) /\ handle[answer[c]] = handle[c]
===============================================================================
