------------------------- MODULE SessionServerProofs -------------------------
(***************************************************************************)
(* Proofs about SessionServer, for any set of calls, session ids, limit    *)
(* and user code.                                                          *)
(***************************************************************************)
EXTENDS SessionInvariant, FiniteSetTheorems, TLAPS

LEMMA TypeInit == Init => TypeOK
  BY PipeAssumption, ServerAssumption
  DEF Init, PipeInit, TypeOK, PipeTypeOK, Objs, Pcs, ExecutePcs, EntryPcs, Results, Line

\* What a step of the pipe layer does keeps its types.
LEMMA DropType ==
  ASSUME PipeTypeOK, NEW S, Drop(S)
  PROVE  PipeTypeOK'
  BY DEF PipeTypeOK, Drop, Sever

LEMMA KillType ==
  ASSUME PipeTypeOK, NEW o, Kill(o)
  PROVE  PipeTypeOK'
  BY DEF PipeTypeOK, Kill, Sever

LEMMA SendType ==
  ASSUME PipeTypeOK, NEW o \in Objs, NEW c \in Calls, WriteRequest(o, c)
  PROVE  PipeTypeOK'
  <1>1. Append(inbox[o], c) \in Seq(Calls) /\ inbox[o] \in Seq(Calls)
    BY DEF PipeTypeOK
  <1> QED BY <1>1 DEF PipeTypeOK, WriteRequest

LEMMA ReadType ==
  ASSUME PipeTypeOK, NEW o \in Objs, ReadLine(o)
  PROVE  PipeTypeOK' /\ Head(outbox[o]) \in Line
  <1>1. outbox[o] \in Seq(Line) /\ outbox[o] # <<>>
    BY DEF PipeTypeOK, ReadLine
  <1>2. Tail(outbox[o]) \in Seq(Line) /\ Head(outbox[o]) \in Line
    BY <1>1
  <1> QED BY <1>2 DEF PipeTypeOK, ReadLine

LEMMA EmitType ==
  ASSUME PipeTypeOK, NEW o \in Objs, NEW line \in Line, Emit(o, line)
  PROVE  outbox' \in [Objs -> Seq(Line)]
  <1>1. Append(outbox[o], line) \in Seq(Line)
    BY DEF PipeTypeOK
  <1> QED BY <1>1 DEF PipeTypeOK, Emit

LEMMA WorkerType ==
  ASSUME PipeTypeOK, NEW o \in Objs, WorkerStep(o)
  PROVE  PipeTypeOK'
  <1>1. CASE WorkerReads(o)
    <2>1. Head(inbox[o]) \in Calls /\ Tail(inbox[o]) \in Seq(Calls)
      BY <1>1 DEF PipeTypeOK, WorkerReads
    <2> QED BY <1>1, <2>1 DEF PipeTypeOK, WorkerReads
  <1>2. CASE WorkerResponds(o)
    <2>1. Response(job[o]) \in Line
      BY <1>2 DEF PipeTypeOK, WorkerResponds, Response, Line
    <2>2. outbox' \in [Objs -> Seq(Line)]
      BY <1>2, <2>1, EmitType DEF WorkerResponds
    <2> QED BY <1>2, <2>2 DEF PipeTypeOK, WorkerResponds
  <1>3. ASSUME NEW k \in StrayKinds, WorkerStray(o, k)
        PROVE  PipeTypeOK'
    <2>1. Stray(k) \in Line
      BY PipeAssumption DEF Stray, Line
    <2>2. outbox' \in [Objs -> Seq(Line)]
      BY <1>3, <2>1, EmitType DEF WorkerStray
    <2> QED BY <1>3, <2>2 DEF PipeTypeOK, WorkerStray
  <1>4. CASE WorkerGarbles(o)
    <2>1. Stray("junk") \in Line
      BY DEF Stray, Line
    <2>2. outbox' \in [Objs -> Seq(Line)]
      BY <1>4, <2>1, EmitType DEF WorkerGarbles
    <2>3. strays' \in Nat
      BY <1>4 DEF PipeTypeOK, WorkerGarbles
    <2>4. job' \in [Objs -> Calls \cup {NoCall}]
      BY <1>4 DEF PipeTypeOK, WorkerGarbles
    <2> QED BY <1>4, <2>2, <2>3, <2>4 DEF PipeTypeOK, WorkerGarbles
  <1>5. CASE WorkerDies(o)
    BY <1>5 DEF PipeTypeOK, WorkerDies
  <1> QED BY <1>1, <1>2, <1>3, <1>4, <1>5 DEF WorkerStep

\* One step of one call or of the reaper keeps all types.
LEMMA ExecuteType ==
  ASSUME TypeOK, LockInv, NEW c \in Calls, ExecuteStep(c)
  PROVE  TypeOK'
  <1> USE DEF TypeOK, Pcs, ExecutePcs, EntryPcs, Results, Objs, Goto, Finish, Unmap, Lookup
  <1> PipeTypeOK
    OBVIOUS
  <1>1. CASE Sweep(c)
    <2>1. PipeTypeOK'
      BY <1>1, DropType DEF Sweep, CleanupExpired, DropUnreferenced
    <2> QED BY <1>1, <2>1 DEF Sweep, CleanupExpired
  <1>2. CASE AcquireExisting(c)
    BY <1>2 DEF AcquireExisting, pipeVars, PipeTypeOK
  <1>3. CASE AcquireRefused(c)
    BY <1>3 DEF AcquireRefused, pipeVars, PipeTypeOK
  <1>4. CASE SpawnFails(c)
    BY <1>4 DEF SpawnFails, pipeVars, PipeTypeOK
  <1>5. CASE AcquireNew(c)
    <2>1. PipeTypeOK'
      BY <1>5 DEF AcquireNew, Spawn, PipeTypeOK
    <2> QED BY <1>5, <2>1 DEF AcquireNew
  <1>6. CASE AwaitSession(c)
    BY <1>6 DEF AwaitSession, pipeVars, PipeTypeOK
  <1>7. CASE LockSession(c)
    BY <1>7 DEF LockSession, pipeVars, PipeTypeOK
  <1>8. CASE Send(c)
    <2>1. PipeTypeOK'
      BY <1>8, SendType DEF Send, LockInv, HoldingArc, Executing
    <2> QED BY <1>8, <2>1 DEF Send
  <1>9. CASE SendFails(c)
    BY <1>9 DEF SendFails, Fail, pipeVars, PipeTypeOK
  <1>10. CASE ReadOutput(c)
    <2>1. handle[c] \in Objs
      BY <1>10 DEF ReadOutput, LockInv, HoldingArc, Executing
    <2>2. PipeTypeOK' /\ Head(outbox[handle[c]]) \in Line
      BY <1>10, <2>1, ReadType DEF ReadOutput
    <2>3. Head(outbox[handle[c]]).by \in Calls \cup {NoCall}
      BY <2>2 DEF Line
    <2> QED BY <1>10, <2>2, <2>3 DEF ReadOutput
  <1>11. CASE ReadJunk(c)
    <2>1. PipeTypeOK'
      BY <1>11, ReadType DEF ReadJunk, LockInv, HoldingArc, Executing
    <2> QED BY <1>11, <2>1 DEF ReadJunk, Fail
  <1>12. CASE ReadEof(c)
    BY <1>12 DEF ReadEof, Fail, pipeVars, PipeTypeOK
  <1>13. CASE Timeout(c)
    <2>1. PipeTypeOK'
      BY <1>13, KillType DEF Timeout
    <2> QED BY <1>13, <2>1 DEF Timeout, Fail
  <1>14. CASE Return(c)
    <2>1. PipeTypeOK'
      BY <1>14, DropType DEF Return, DropUnreferenced
    <2> QED BY <1>14, <2>1 DEF Return
  <1>15. CASE Retire(c)
    <2>1. PipeTypeOK'
      BY <1>15, DropType DEF Retire, DropUnreferenced
    <2> QED BY <1>15, <2>1 DEF Retire
  <1> QED BY <1>1, <1>2, <1>3, <1>4, <1>5, <1>6, <1>7, <1>8, <1>9, <1>10, <1>11,
             <1>12, <1>13, <1>14, <1>15 DEF ExecuteStep

LEMMA ToolType ==
  ASSUME TypeOK, NEW c \in Calls, ToolStep(c) \/ PipStep(c) \/ Cancel(c)
  PROVE  TypeOK'
  <1> USE DEF TypeOK, Pcs, ExecutePcs, EntryPcs, Results, Objs, Goto, Finish, Unmap, Lookup
  <1> PipeTypeOK
    OBVIOUS
  <1>1. CASE Reset(c)
    BY <1>1 DEF Reset, pipeVars, PipeTypeOK
  <1>12. CASE ResetDrops(c)
    <2>1. PipeTypeOK'
      BY <1>12, DropType DEF ResetDrops, DropUnreferenced
    <2> QED BY <1>12, <2>1 DEF ResetDrops
  <1>2. CASE ListSnapshot(c)
    BY <1>2 DEF ListSnapshot, Mapped, Present, pipeVars, PipeTypeOK
  <1>3. CASE ListEntry(c)
    <2>1. PipeTypeOK'
      BY <1>3, DropType DEF ListEntry, DropUnreferenced
    <2> QED BY <1>3, <2>1 DEF ListEntry
  <1>4. CASE ListReturn(c)
    BY <1>4 DEF ListReturn, pipeVars, PipeTypeOK
  <1>5. CASE InstallLookup(c)
    BY <1>5 DEF InstallLookup, pipeVars, PipeTypeOK
  <1>6. CASE InstallUnknown(c)
    BY <1>6 DEF InstallUnknown, pipeVars, PipeTypeOK
  <1>7. CASE InstallGlobal(c)
    BY <1>7 DEF InstallGlobal, pipeVars, PipeTypeOK
  <1>8. CASE InstallPath(c)
    BY <1>8 DEF InstallPath, pipeVars, PipeTypeOK
  <1>9. CASE PipSucceeds(c)
    <2>1. PipeTypeOK'
      BY <1>9 DEF PipSucceeds, PipeTypeOK
    <2> QED BY <1>9, <2>1 DEF PipSucceeds
  <1>10. CASE PipFails(c)
    <2>1. PipeTypeOK'
      BY <1>10 DEF PipFails, PipeTypeOK
    <2> QED BY <1>10, <2>1 DEF PipFails
  <1>11. CASE Cancel(c)
    <2>1. PipeTypeOK'
      BY <1>11, DropType DEF Cancel, DropUnreferenced
    <2> QED BY <1>11, <2>1 DEF Cancel
  <1> QED BY <1>1, <1>12, <1>2, <1>3, <1>4, <1>5, <1>6, <1>7, <1>8, <1>9, <1>10, <1>11
          DEF ToolStep, PipStep

LEMMA TypeStep == TypeOK /\ LockInv /\ [Next]_vars => TypeOK'
  <1> SUFFICES ASSUME TypeOK, LockInv, [Next]_vars
               PROVE  TypeOK'
    OBVIOUS
  <1>1. ASSUME NEW c \in Calls, ExecuteStep(c) \/ ToolStep(c) \/ PipStep(c) \/ Cancel(c)
        PROVE  TypeOK'
    BY <1>1, ExecuteType, ToolType
  <1>2. ASSUME NEW o \in Objs, PipeStep(o)
        PROVE  TypeOK'
    <2>1. PipeTypeOK'
      BY <1>2, WorkerType DEF TypeOK, PipeStep
    <2> QED BY <1>2, <2>1 DEF TypeOK, PipeStep, serverVars
  <1>3. ASSUME NEW o \in Objs, Age(o)
        PROVE  TypeOK'
    BY <1>3 DEF Age, TypeOK, pipeVars, PipeTypeOK
  <1>4. CASE Reaper
    <2>1. PipeTypeOK'
      BY <1>4, DropType DEF TypeOK, Reaper, CleanupExpired, DropUnreferenced
    <2> QED BY <1>4, <2>1 DEF TypeOK, Reaper, CleanupExpired
  <1>5. CASE UNCHANGED vars
    BY <1>5 DEF vars, serverVars, pipeVars, TypeOK, PipeTypeOK
  <1> QED BY <1>1, <1>2, <1>3, <1>4, <1>5 DEF Next

-------------------------------------------------------------------------------
(* The locks *)

LEMMA LockInit == Init => LockInv
  BY PipeAssumption DEF Init, LockInv, Objs, HoldingArc, Executing, EntryPcs

LEMMA LockExecute ==
  ASSUME TypeOK, LockInv, NEW c \in Calls, ExecuteStep(c)
  PROVE  LockInv'
  <1> USE PipeAssumption
      DEF TypeOK, LockInv, Objs, Goto, Finish, HoldingArc, Executing, Lookup
  <1>1. CASE Sweep(c)
    BY <1>1 DEF Sweep
  <1>2. CASE AcquireExisting(c)
    BY <1>2 DEF AcquireExisting
  <1>3. CASE AcquireRefused(c)
    BY <1>3 DEF AcquireRefused
  <1>4. CASE SpawnFails(c)
    BY <1>4 DEF SpawnFails
  <1>5. CASE AcquireNew(c)
    BY <1>5 DEF AcquireNew
  <1>6. CASE AwaitSession(c)
    BY <1>6 DEF AwaitSession
  <1>7. CASE LockSession(c)
    BY <1>7 DEF LockSession, LockFree
  <1>8. CASE Send(c)
    BY <1>8 DEF Send
  <1>9. CASE SendFails(c)
    BY <1>9 DEF SendFails, Fail
  <1>10. CASE ReadOutput(c)
    BY <1>10 DEF ReadOutput
  <1>11. CASE ReadJunk(c)
    BY <1>11 DEF ReadJunk, Fail
  <1>12. CASE ReadEof(c)
    BY <1>12 DEF ReadEof, Fail
  <1>13. CASE Timeout(c)
    BY <1>13 DEF Timeout, Fail
  <1>14. CASE Return(c)
    BY <1>14 DEF Return
  <1>15. CASE Retire(c)
    BY <1>15 DEF Retire
  <1> QED BY <1>1, <1>2, <1>3, <1>4, <1>5, <1>6, <1>7, <1>8, <1>9, <1>10, <1>11,
             <1>12, <1>13, <1>14, <1>15 DEF ExecuteStep

LEMMA LockTool ==
  ASSUME TypeOK, LockInv, NEW c \in Calls, ToolStep(c) \/ PipStep(c) \/ Cancel(c)
  PROVE  LockInv'
  <1> USE PipeAssumption
      DEF TypeOK, LockInv, Objs, Goto, Finish, HoldingArc, Executing, Lookup, MapFree
  <1>1. CASE Reset(c)
    BY <1>1 DEF Reset
  <1>12. CASE ResetDrops(c)
    BY <1>12 DEF ResetDrops
  <1>2. CASE ListSnapshot(c)
    BY <1>2 DEF ListSnapshot
  <1>3. CASE ListEntry(c)
    BY <1>3 DEF ListEntry
  <1>4. CASE ListReturn(c)
    BY <1>4 DEF ListReturn
  <1>5. CASE InstallLookup(c)
    BY <1>5 DEF InstallLookup
  <1>6. CASE InstallUnknown(c)
    BY <1>6 DEF InstallUnknown
  <1>7. CASE InstallGlobal(c)
    BY <1>7 DEF InstallGlobal
  <1>8. CASE InstallPath(c)
    BY <1>8 DEF InstallPath
  <1>9. CASE PipSucceeds(c)
    BY <1>9 DEF PipSucceeds
  <1>10. CASE PipFails(c)
    BY <1>10 DEF PipFails
  <1>11. CASE Cancel(c)
    BY <1>11 DEF Cancel
  <1> QED BY <1>1, <1>12, <1>2, <1>3, <1>4, <1>5, <1>6, <1>7, <1>8, <1>9, <1>10, <1>11
          DEF ToolStep, PipStep

\* Whoever moves, a lock is held by the call whose pc says so and by nobody else.
LEMMA LockStep == TypeOK /\ LockInv /\ [Next]_vars => LockInv'
  <1> SUFFICES ASSUME TypeOK, LockInv, [Next]_vars
               PROVE  LockInv'
    OBVIOUS
  <1>1. ASSUME NEW c \in Calls, ExecuteStep(c) \/ ToolStep(c) \/ PipStep(c) \/ Cancel(c)
        PROVE  LockInv'
    BY <1>1, LockExecute, LockTool
  <1>2. CASE UNCHANGED <<mapLock, sessLock, pc, handle>>
    BY <1>2 DEF LockInv
  <1>3. ASSUME NEW o \in Objs, PipeStep(o) \/ Age(o)
        PROVE  UNCHANGED <<mapLock, sessLock, pc, handle>>
    BY <1>3 DEF PipeStep, Age, serverVars
  <1>4. CASE Reaper
    BY <1>2, <1>4 DEF Reaper
  <1>5. CASE UNCHANGED vars
    BY <1>2, <1>5 DEF vars, serverVars
  <1> QED BY <1>1, <1>2, <1>3, <1>4, <1>5 DEF Next

LEMMA TypesAndLocks == Spec => [](TypeOK /\ LockInv)
  BY TypeInit, LockInit, TypeStep, LockStep, PTL DEF Spec

\* Every variable keeps its type in every behaviour of the server.  Types are
\* not inductive without the locks: what read_line returns has a type only
\* when the reading call has a session.
THEOREM TypeCorrect == Spec => []TypeOK
  BY TypesAndLocks, PTL

\* execute_python's session lock excludes: two calls are never in an exchange
\* with one worker, for any number of calls, cancelled ones included.
THEOREM ExchangesExclude == Spec => []SessionMutex
  <1>1. TypeOK /\ LockInv => SessionMutex
    BY DEF LockInv, SessionMutex, HoldingArc
  <1> QED BY <1>1, TypesAndLocks, PTL

\* install_package waits for a session lock with the map lock in hand; the
\* holder of the session lock never waits for the map lock, so they cannot
\* wait for each other.
THEOREM LocksDoNotCircle == Spec => []NoCircularWait
  <1>1. TypeOK /\ LockInv => NoCircularWait
    <2> SUFFICES ASSUME TypeOK, LockInv, NEW c \in Calls, NEW d \in Calls,
                        pc[c] = "path", sessLock[handle[c]] = d, pc[d] \in WantsMap
                 PROVE  FALSE
      BY DEF NoCircularWait
    <2>1. handle[c] \in Objs
      BY DEF LockInv
    <2>2. sessLock[handle[c]] # NoCall
      BY PipeAssumption
    <2>3. pc[d] \in Executing
      BY <2>1, <2>2 DEF LockInv
    <2> QED BY <2>3 DEF Executing, WantsMap
  <1> QED BY <1>1, TypesAndLocks, PTL

-------------------------------------------------------------------------------
(* The map *)

MapPart == MapInv /\ FailedSessionGone

\* What every step but the creation of a session does to the objects.
LifeLasts ==
    /\ \A o \in Objs : life'[o] # life[o] =>
          life'[o] \in {"killed", "dropped"} /\ life[o] # "none"
    /\ \A s \in Sids : sessions'[s] # NoCall =>
          life'[sessions'[s]] \in {life[sessions'[s]], "killed"}

\* The step that drops objects drops none that was never made or is in the map.
LEMMA DropLasts ==
  ASSUME TypeOK, DropUnreferenced, sessions' \in [Sids -> Objs \cup {NoCall}]
  PROVE  LifeLasts
  <1> DEFINE S == {o \in Objs : life[o] \in {"open", "killed"} /\ ~Referenced(o)'}
  <1>1. life' = [o \in Objs |-> IF o \in S THEN "dropped" ELSE life[o]]
    BY DEF DropUnreferenced, Drop, Sever
  <1>2. ASSUME NEW s \in Sids, sessions'[s] # NoCall
        PROVE  sessions'[s] \notin S
    BY <1>2 DEF Referenced, Mapped, Present
  <1>3. \A o \in S : o \in Objs /\ life[o] # "none"
    OBVIOUS
  <1> HIDE DEF S
  <1> QED BY <1>1, <1>2, <1>3 DEF LifeLasts, TypeOK, PipeTypeOK

LEMMA SameLasts ==
  ASSUME TypeOK, UNCHANGED life
  PROVE  LifeLasts
  BY DEF LifeLasts, TypeOK, PipeTypeOK

LEMMA MapInit == Init => MapPart
  BY DEF Init, PipeInit, MapPart, MapInv, FailedSessionGone, Present, Mapped, Objs, EntryPcs,
         HoldingArc, Executing

\* What such a step does to the calls: one that holds an Arc held it before, and
\* one that fails has its session unmapped.
Keeps ==
    \A c \in Calls :
        /\ pc'[c] \in HoldingArc => pc[c] \in HoldingArc
        /\ pc'[c] \in {"sweep", "acquire"} => pc[c] \in {"sweep", "acquire"}
        /\ pc'[c] \notin {"return", "release", "done"} => result'[c] = "none"
        /\ result'[c] = "failed" => result[c] = "failed" \/ handle[c] \notin Mapped'

\* A step that adds nothing to the map and gives no call a session.
LEMMA MapShrinks ==
  ASSUME TypeOK, MapPart, LifeLasts, UNCHANGED <<sid, handle>>,
         \A s \in Sids : sessions'[s] \in {sessions[s], NoCall},
         Keeps
  PROVE  MapPart'
  <1> USE PipeAssumption DEF Objs, TypeOK, Present
  <1>1. \A s \in Present' : s \in Present /\ sessions'[s] = sessions[s]
    OBVIOUS
  <1>2. Mapped' \subseteq Mapped
    BY <1>1 DEF Mapped
  <1>3. (\A s \in Present : life[sessions[s]] \in {"open", "killed"})'
    BY <1>1 DEF MapPart, MapInv, LifeLasts
  <1>4. (\A s, t \in Present : sessions[s] = sessions[t] => s = t)'
    BY <1>1 DEF MapPart, MapInv
  <1>5. (\A d \in Calls, s \in Present :
           pc[d] \in HoldingArc /\ sessions[s] = handle[d] => s = sid[d])'
    BY <1>1 DEF MapPart, MapInv, Keeps
  <1>6. (\A d \in Calls : handle[d] # NoCall => life[handle[d]] # "none")'
    BY DEF MapPart, MapInv, LifeLasts
  <1>7. (\A d \in Calls : pc[d] \in {"sweep", "acquire"} => life[d] = "none")'
    BY DEF MapPart, MapInv, LifeLasts, Keeps
  <1>8. (\A d \in Calls : pc[d] \notin {"return", "release", "done"} => result[d] = "none")'
    BY DEF Keeps
  <1>9. FailedSessionGone'
    BY <1>2 DEF MapPart, FailedSessionGone, Keeps
  <1> QED BY <1>3, <1>4, <1>5, <1>6, <1>7, <1>8, <1>9 DEF MapPart, MapInv

\* A call takes the Arc it found in the map under its own id.
LEMMA MapTakes ==
  ASSUME TypeOK, MapPart, NEW c \in Calls, UNCHANGED <<sid, sessions, life>>,
         handle' = [handle EXCEPT ![c] = sessions[sid[c]]],
         sessions[sid[c]] # NoCall, pc[c] \notin {"return", "release", "done"}, UNCHANGED result,
         NEW label \in Pcs \ {"sweep", "acquire"}, pc' = [pc EXCEPT ![c] = label]
  PROVE  MapPart'
  <1> USE PipeAssumption DEF Objs, TypeOK, Present
  <1>1. life[sessions[sid[c]]] # "none"
    BY DEF MapPart, MapInv
  <1>2. result[c] = "none"
    BY DEF MapPart, MapInv
  <1>3. (\A d \in Calls, s \in Present :
           pc[d] \in HoldingArc /\ sessions[s] = handle[d] => s = sid[d])'
    BY DEF MapPart, MapInv
  <1>4. MapInv'
    BY <1>1, <1>2, <1>3 DEF MapPart, MapInv
  <1>5. FailedSessionGone'
    BY <1>2 DEF MapPart, FailedSessionGone, Mapped
  <1> QED BY <1>4, <1>5 DEF MapPart

\* acquire makes an object nobody has seen and inserts it.
LEMMA MapGrows ==
  ASSUME TypeOK, MapPart, NEW c \in Calls, AcquireNew(c)
  PROVE  MapPart'
  <1> USE PipeAssumption
      DEF Objs, TypeOK, PipeTypeOK, Present, AcquireNew, Spawn, Goto, Lookup
  <1>1. life[c] = "none" /\ result[c] = "none"
    BY DEF MapPart, MapInv
  <1>2. \A s \in Present : sessions[s] # c
    BY <1>1 DEF MapPart, MapInv
  <1>3. \A d \in Calls : handle[d] # c
    BY <1>1 DEF MapPart, MapInv
  <1>4. (\A s \in Present : life[sessions[s]] \in {"open", "killed"})'
    BY <1>2 DEF MapPart, MapInv
  <1>5. (\A s, t \in Present : sessions[s] = sessions[t] => s = t)'
    BY <1>2 DEF MapPart, MapInv
  <1>6. (\A d \in Calls, s \in Present :
           pc[d] \in HoldingArc /\ sessions[s] = handle[d] => s = sid[d])'
    BY <1>2, <1>3 DEF MapPart, MapInv
  <1>7. (\A d \in Calls : handle[d] # NoCall => life[handle[d]] # "none")'
    BY <1>3 DEF MapPart, MapInv
  <1>8. (\A d \in Calls : pc[d] \in {"sweep", "acquire"} => life[d] = "none")'
    BY DEF MapPart, MapInv
  <1>9. (\A d \in Calls : pc[d] \notin {"return", "release", "done"} => result[d] = "none")'
    BY <1>1 DEF MapPart, MapInv
  <1>10. FailedSessionGone'
    BY <1>1, <1>3 DEF MapPart, FailedSessionGone, Mapped
  <1> QED BY <1>4, <1>5, <1>6, <1>7, <1>8, <1>9, <1>10 DEF MapPart, MapInv

LEMMA MapExecute ==
  ASSUME TypeOK, TypeOK', LockInv, MapPart, NEW c \in Calls, ExecuteStep(c)
  PROVE  MapPart'
  <1> USE DEF TypeOK, Goto, Finish, HoldingArc, Executing
  <1>0. /\ sessions' \in [Sids -> Objs \cup {NoCall}]
        /\ \A d \in Calls : pc[d] \notin {"return", "release", "done"} => result[d] = "none"
    BY DEF MapPart, MapInv
  <1>1. CASE Sweep(c)
    <2>1. LifeLasts
      BY <1>0, <1>1, DropLasts DEF Sweep, CleanupExpired
    <2>2. Keeps
      BY <1>0, <1>1 DEF Keeps, Sweep
    <2> QED BY <1>1, <2>1, <2>2, MapShrinks DEF Sweep, CleanupExpired
  <1>2. CASE AcquireExisting(c)
    BY <1>2, MapTakes DEF AcquireExisting, Lookup, pipeVars, Pcs, ExecutePcs
  <1>3. CASE AcquireRefused(c) \/ SpawnFails(c)
    <2>1. Keeps
      BY <1>0, <1>3 DEF Keeps, AcquireRefused, SpawnFails
    <2> QED BY <1>3, <2>1, SameLasts, MapShrinks DEF AcquireRefused, SpawnFails, pipeVars
  <1>4. CASE AcquireNew(c)
    BY <1>4, MapGrows
  <1>5. CASE AwaitSession(c) \/ LockSession(c)
    <2>1. Keeps
      BY <1>0, <1>5 DEF Keeps, AwaitSession, LockSession
    <2> QED BY <1>5, <2>1, SameLasts, MapShrinks DEF AwaitSession, LockSession, pipeVars
  <1>6. CASE Send(c) \/ SendFails(c)
    <2>1. Keeps
      BY <1>0, <1>6 DEF Keeps, Send, SendFails, Fail
    <2> QED BY <1>6, <2>1, SameLasts, MapShrinks
            DEF Send, SendFails, Fail, WriteRequest, pipeVars
  <1>7. CASE ReadOutput(c)
    <2>1. Keeps
      BY <1>0, <1>7 DEF Keeps, ReadOutput
    <2> QED BY <1>7, <2>1, SameLasts, MapShrinks DEF ReadOutput, ReadLine
  <1>8. CASE ReadJunk(c) \/ ReadEof(c)
    <2>1. Keeps
      BY <1>0, <1>8 DEF Keeps, ReadJunk, ReadEof, Fail
    <2> QED BY <1>8, <2>1, SameLasts, MapShrinks DEF ReadJunk, ReadEof, Fail, ReadLine, pipeVars
  <1>9. CASE Timeout(c)
    <2>1. handle[c] \in Objs /\ UNCHANGED sessions
      BY <1>9 DEF Timeout, Fail, LockInv
    <2>2. life' = [o \in Objs |-> IF o = handle[c] THEN "killed" ELSE life[o]]
      BY <1>9 DEF Timeout, Kill, Sever
    <2>3. LifeLasts
      BY <1>9, <2>1, <2>2 DEF LifeLasts, Timeout, PipeTypeOK
    <2>4. Keeps
      BY <1>0, <1>9 DEF Keeps, Timeout, Fail
    <2> QED BY <1>9, <2>3, <2>4, MapShrinks DEF Timeout, Fail
  <1>10. CASE Return(c)
    <2>1. LifeLasts
      BY <1>0, <1>10, DropLasts DEF Return
    <2>2. Keeps
      BY <1>0, <1>10 DEF Keeps, Return
    <2> QED BY <1>10, <2>1, <2>2, MapShrinks DEF Return
  <1>11. CASE Retire(c)
    <2>1. LifeLasts
      BY <1>0, <1>11, DropLasts DEF Retire
    <2>2. handle[c] \notin Mapped'
      BY <1>11 DEF Retire, Unmap, MapPart, MapInv, Mapped, Present
    <2>3. Keeps
      BY <1>0, <1>11, <2>2 DEF Keeps, Retire
    <2> QED BY <1>11, <2>1, <2>3, MapShrinks DEF Retire, Unmap
  <1> QED BY <1>1, <1>2, <1>3, <1>4, <1>5, <1>6, <1>7, <1>8, <1>9, <1>10, <1>11
          DEF ExecuteStep

LEMMA MapTool ==
  ASSUME TypeOK, TypeOK', LockInv, MapPart, NEW c \in Calls,
         ToolStep(c) \/ PipStep(c) \/ Cancel(c)
  PROVE  MapPart'
  <1> USE DEF TypeOK, Goto, Finish, HoldingArc, Executing
  <1>0. /\ sessions' \in [Sids -> Objs \cup {NoCall}]
        /\ \A d \in Calls : pc[d] \notin {"return", "release", "done"} => result[d] = "none"
    BY DEF MapPart, MapInv
  <1>1. CASE Reset(c)
    <2> USE PipeAssumption DEF Objs, Present, Reset, Unmap, Lookup
    <2>1. LifeLasts
      BY <1>1, SameLasts DEF pipeVars
    <2>2. \A s \in Present' : s \in Present /\ sessions'[s] = sessions[s]
      BY <1>1
    <2>3. (\A s \in Present : life[sessions[s]] \in {"open", "killed"})'
      BY <2>1, <2>2 DEF MapPart, MapInv, LifeLasts
    <2>4. (\A s, t \in Present : sessions[s] = sessions[t] => s = t)'
      BY <2>2 DEF MapPart, MapInv
    <2>5. (\A d \in Calls, s \in Present :
             pc[d] \in HoldingArc /\ sessions[s] = handle[d] => s = sid[d])'
      BY <1>1, <2>2 DEF MapPart, MapInv
    <2>6. sessions[sid[c]] # NoCall => life[sessions[sid[c]]] # "none"
      BY DEF MapPart, MapInv
    <2>7. (\A d \in Calls : handle[d] # NoCall => life[handle[d]] # "none")'
      BY <1>1, <2>1, <2>6 DEF MapPart, MapInv, LifeLasts
    <2>8. (\A d \in Calls : pc[d] \in {"sweep", "acquire"} => life[d] = "none")'
      BY <1>1, <2>1 DEF MapPart, MapInv, LifeLasts
    <2>9. (\A d \in Calls : pc[d] \notin {"return", "release", "done"} => result[d] = "none")'
      BY <1>0, <1>1
    <2>10. FailedSessionGone'
      BY <1>1, <2>2 DEF MapPart, FailedSessionGone, Mapped
    <2> QED BY <2>3, <2>4, <2>5, <2>7, <2>8, <2>9, <2>10 DEF MapPart, MapInv
  <1>2. CASE ListSnapshot(c) \/ ListReturn(c)
    <2>1. Keeps
      BY <1>0, <1>2 DEF Keeps, ListSnapshot, ListReturn
    <2> QED BY <1>2, <2>1, SameLasts, MapShrinks DEF ListSnapshot, ListReturn, pipeVars
  <1>3. CASE ListEntry(c) \/ ResetDrops(c)
    <2>1. LifeLasts
      BY <1>0, <1>3, DropLasts DEF ListEntry, ResetDrops
    <2>2. Keeps
      BY <1>0, <1>3 DEF Keeps, ListEntry, ResetDrops, MapPart, FailedSessionGone, Mapped, Present
    <2> QED BY <1>3, <2>1, <2>2, MapShrinks DEF ListEntry, ResetDrops
  <1>4. CASE InstallLookup(c)
    BY <1>4, MapTakes DEF InstallLookup, Lookup, pipeVars, Pcs
  <1>5. CASE InstallUnknown(c) \/ InstallGlobal(c) \/ InstallPath(c)
    <2>1. Keeps
      BY <1>0, <1>5 DEF Keeps, InstallUnknown, InstallGlobal, InstallPath
    <2> QED BY <1>5, <2>1, SameLasts, MapShrinks
            DEF InstallUnknown, InstallGlobal, InstallPath, pipeVars
  <1>6. CASE PipSucceeds(c) \/ PipFails(c)
    <2>1. Keeps
      BY <1>0, <1>6 DEF Keeps, PipSucceeds, PipFails
    <2> QED BY <1>6, <2>1, SameLasts, MapShrinks DEF PipSucceeds, PipFails
  <1>7. CASE Cancel(c)
    <2>1. LifeLasts
      BY <1>0, <1>7, DropLasts DEF Cancel
    <2>2. Keeps
      BY <1>0, <1>7 DEF Keeps, Cancel
    <2> QED BY <1>7, <2>1, <2>2, MapShrinks DEF Cancel
  <1> QED BY <1>1, <1>2, <1>3, <1>4, <1>5, <1>6, <1>7 DEF ToolStep, PipStep

LEMMA MapStep == TypeOK /\ LockInv /\ MapPart /\ [Next]_vars => MapPart'
  <1> SUFFICES ASSUME TypeOK, LockInv, MapPart, [Next]_vars
               PROVE  MapPart'
    OBVIOUS
  <1>0. TypeOK'
    BY TypeStep
  <1>1. ASSUME NEW c \in Calls, ExecuteStep(c) \/ ToolStep(c) \/ PipStep(c) \/ Cancel(c)
        PROVE  MapPart'
    BY <1>0, <1>1, MapExecute, MapTool
  <1>2. CASE Reaper
    <2>1. LifeLasts
      BY <1>0, <1>2, DropLasts DEF TypeOK, Reaper, CleanupExpired
    <2>2. Keeps
      BY <1>2 DEF Keeps, Reaper, MapPart, MapInv
    <2> QED BY <1>2, <2>1, <2>2, MapShrinks DEF Reaper, CleanupExpired
  <1>3. CASE UNCHANGED <<life, sessions, pc, sid, handle, result>>
    BY <1>3 DEF MapPart, MapInv, FailedSessionGone, Present, Mapped
  <1>4. ASSUME NEW o \in Objs, PipeStep(o) \/ Age(o)
        PROVE  UNCHANGED <<life, sessions, pc, sid, handle, result>>
    BY <1>4 DEF PipeStep, WorkerStep, WorkerReads, WorkerResponds, WorkerStray, WorkerGarbles,
                WorkerDies, Age, serverVars, pipeVars
  <1>5. CASE UNCHANGED vars
    BY <1>3, <1>5 DEF vars, pipeVars, serverVars
  <1> QED BY <1>1, <1>2, <1>3, <1>4, <1>5 DEF Next

-------------------------------------------------------------------------------
(* The limit *)

\* Only acquire adds an entry.
LEMMA OnlyAcquireAdds ==
  ASSUME TypeOK, [Next]_vars
  PROVE  \/ \E c \in Calls : AcquireNew(c)
         \/ \A s \in Sids : sessions'[s] \in {sessions[s], NoCall}
  <1> DEFINE Shrinks == \A s \in Sids : sessions'[s] \in {sessions[s], NoCall}
  <1>1. ASSUME NEW c \in Calls, ExecuteStep(c)
        PROVE  AcquireNew(c) \/ Shrinks
    BY <1>1 DEF TypeOK, ExecuteStep, Sweep, CleanupExpired, AcquireExisting, AcquireRefused,
       SpawnFails, AwaitSession, LockSession, Send, SendFails, Fail, ReadOutput, ReadJunk,
       ReadEof, Timeout, Return, Retire, Unmap
  <1>2. ASSUME NEW c \in Calls, ToolStep(c) \/ PipStep(c) \/ Cancel(c)
        PROVE  Shrinks
    BY <1>2 DEF TypeOK, ToolStep, PipStep, Cancel, Reset, ResetDrops, Unmap, ListSnapshot, ListEntry,
       ListReturn, InstallLookup, InstallUnknown, InstallGlobal, InstallPath, PipSucceeds,
       PipFails
  <1>3. ASSUME NEW o \in Objs, PipeStep(o) \/ Age(o)
        PROVE  Shrinks
    BY <1>3 DEF PipeStep, Age, serverVars
  <1>4. CASE Reaper
    BY <1>4 DEF TypeOK, Reaper, CleanupExpired
  <1>5. CASE UNCHANGED vars
    BY <1>5 DEF vars, serverVars
  <1> QED BY <1>1, <1>2, <1>3, <1>4, <1>5 DEF Next

LEMMA LimitInit == Init => LimitInv
  <1> SUFFICES ASSUME Init
               PROVE  LimitInv
    OBVIOUS
  <1>1. Present = {}
    BY DEF Init, Present
  <1> QED BY <1>1, FS_EmptySet, ServerAssumption DEF LimitInv, SessionLimit

LEMMA LimitStep == TypeOK /\ LimitInv /\ [Next]_vars => LimitInv'
  <1> SUFFICES ASSUME TypeOK, LimitInv, [Next]_vars
               PROVE  LimitInv'
    OBVIOUS
  <1> USE ServerAssumption DEF LimitInv, SessionLimit
  <1>0. Cardinality(Present) \in Nat
    BY FS_CardinalityType
  <1>1. ASSUME NEW c \in Calls, AcquireNew(c)
        PROVE  LimitInv'
    <2>1. Present' = Present \cup {sid[c]}
      BY <1>1, PipeAssumption DEF Present, AcquireNew, TypeOK, Objs
    <2>2. Cardinality(Present) < MaxSessions
      BY <1>1 DEF AcquireNew
    <2>3. /\ IsFiniteSet(Present \cup {sid[c]})
          /\ Cardinality(Present \cup {sid[c]}) <= Cardinality(Present) + 1
      BY <1>0, FS_AddElement
    <2>4. Cardinality(Present \cup {sid[c]}) \in Nat
      BY <2>3, FS_CardinalityType
    <2> QED BY <1>0, <2>1, <2>2, <2>3, <2>4
  <1>2. ASSUME \A s \in Sids : sessions'[s] \in {sessions[s], NoCall}
        PROVE  LimitInv'
    <2>1. Present' \subseteq Present
      BY <1>2 DEF Present
    <2>2. IsFiniteSet(Present') /\ Cardinality(Present') <= Cardinality(Present)
      BY <2>1, FS_Subset
    <2>3. Cardinality(Present') \in Nat
      BY <2>2, FS_CardinalityType
    <2> QED BY <1>0, <2>2, <2>3
  <1> QED BY <1>1, <1>2, OnlyAcquireAdds

LEMMA SharedInvariant == Spec => []SharedInv
  <1>1. Init => SharedInv
    BY TypeInit, LockInit, MapInit, LimitInit DEF SharedInv, MapPart
  <1>2. SharedInv /\ [Next]_vars => SharedInv'
    BY TypeStep, LockStep, MapStep, LimitStep DEF SharedInv, MapPart
  <1> QED BY <1>1, <1>2, PTL DEF Spec

\* acquire never lets the map outgrow LIBERADO_MAX_SESSIONS, for any limit,
\* any number of calls in a race and any session ids.
THEOREM LimitHolds == Spec => []SessionLimit
  <1>1. SharedInv => SessionLimit
    BY DEF SharedInv, LimitInv
  <1> QED BY <1>1, SharedInvariant, PTL

\* When execute_python reports an error the session it used is in the map no
\* more, although it is removed by its id and not by what it is.
THEOREM FailuresRetire == Spec => []FailedSessionGone
  <1>1. SharedInv => FailedSessionGone
    BY DEF SharedInv
  <1> QED BY <1>1, SharedInvariant, PTL

-------------------------------------------------------------------------------
(* Killed workers *)

LEMMA OnlyTimeoutKills ==
  ASSUME TypeOK, [Next]_vars
  PROVE  \/ \E c \in Calls : Timeout(c)
         \/ \A o \in Objs : life'[o] \in {life[o], "open", "dropped"}
  <1> DEFINE Spared == \A o \in Objs : life'[o] \in {life[o], "open", "dropped"}
  <1> USE DEF TypeOK, PipeTypeOK
  <1>0. DropUnreferenced => Spared
    BY DEF DropUnreferenced, Drop, Sever
  <1>1. ASSUME NEW c \in Calls, ExecuteStep(c)
        PROVE  Timeout(c) \/ Spared
    BY <1>0, <1>1 DEF ExecuteStep, Sweep, CleanupExpired, AcquireExisting, AcquireRefused,
       SpawnFails, AcquireNew, Spawn, AwaitSession, LockSession, Send, WriteRequest, SendFails,
       ReadOutput, ReadJunk, ReadLine, ReadEof, Return, Retire, pipeVars
  <1>2. ASSUME NEW c \in Calls, ToolStep(c) \/ PipStep(c) \/ Cancel(c)
        PROVE  Spared
    BY <1>0, <1>2 DEF ToolStep, PipStep, Cancel, Reset, ResetDrops, ListSnapshot, ListEntry,
       ListReturn, InstallLookup, InstallUnknown, InstallGlobal, InstallPath, PipSucceeds,
       PipFails, pipeVars
  <1>3. ASSUME NEW o \in Objs, PipeStep(o) \/ Age(o)
        PROVE  Spared
    BY <1>3 DEF PipeStep, WorkerStep, WorkerReads, WorkerResponds, WorkerStray, WorkerGarbles,
       WorkerDies, Age, pipeVars
  <1>4. CASE Reaper
    BY <1>0, <1>4 DEF Reaper, CleanupExpired
  <1>5. CASE UNCHANGED vars
    BY <1>5 DEF vars, pipeVars
  <1> QED BY <1>1, <1>2, <1>3, <1>4, <1>5 DEF Next

LEMMA OnlyRetireLeaves ==
  ASSUME TypeOK, [Next]_vars, ~Cancellable, NEW d \in Calls, pc[d] = "retire"
  PROVE  Retire(d) \/ (pc'[d] = "retire" /\ handle'[d] = handle[d])
  <1> DEFINE Stays == pc'[d] = "retire" /\ handle'[d] = handle[d]
  <1> USE DEF TypeOK, Goto, Finish
  <1>1. ASSUME NEW c \in Calls, ExecuteStep(c)
        PROVE  Retire(d) \/ Stays
    BY <1>1 DEF ExecuteStep, Sweep, AcquireExisting, AcquireRefused,
       SpawnFails, AcquireNew, AwaitSession, LockSession, Send, SendFails,
       ReadOutput, ReadJunk, ReadEof, Timeout, Fail, Return, Retire
  <1>2. ASSUME NEW c \in Calls, ToolStep(c) \/ PipStep(c) \/ Cancel(c)
        PROVE  Stays
    BY <1>2 DEF ToolStep, PipStep, Cancel, Reset, ResetDrops, ListSnapshot, ListEntry,
       ListReturn, InstallLookup, InstallUnknown, InstallGlobal, InstallPath, PipSucceeds,
       PipFails
  <1>3. ASSUME NEW o \in Objs, PipeStep(o) \/ Age(o)
        PROVE  Stays
    BY <1>3 DEF PipeStep, Age, serverVars
  <1>4. Reaper => Stays
    BY DEF Reaper
  <1>5. UNCHANGED vars => Stays
    BY DEF vars, serverVars
  <1> HIDE DEF Stays, TypeOK, Goto, Finish
  <1>6. Retire(d) \/ Stays
    BY <1>1, <1>2, <1>3, <1>4, <1>5 DEF Next
  <1> QED BY <1>6 DEF Stays

LEMMA RetireStep ==
  ASSUME SharedInv, SharedInv', [Next]_vars, ~Cancellable, KilledSessionRetiring
  PROVE  KilledSessionRetiring'
  <1> USE PipeAssumption DEF SharedInv, Objs
  <1>1. SUFFICES ASSUME NEW o \in Mapped', life'[o] = "killed"
                 PROVE  \E c \in Calls : pc'[c] = "retire" /\ handle'[c] = o
    BY DEF KilledSessionRetiring
  <1>2. o \in Objs
    BY DEF Mapped, Present, TypeOK
  <1>3. CASE life[o] = "killed"
    <2>1. o \in Mapped
      <3>1. ASSUME NEW c \in Calls, AcquireNew(c)
            PROVE  o \in Mapped
        BY <1>1, <1>2, <3>1 DEF AcquireNew, Spawn, Mapped, Present, TypeOK, PipeTypeOK
      <3>2. ASSUME \A s \in Sids : sessions'[s] \in {sessions[s], NoCall}
            PROVE  o \in Mapped
        BY <3>2 DEF Mapped, Present
      <3> QED BY <3>1, <3>2, OnlyAcquireAdds
    <2>2. PICK c \in Calls : pc[c] = "retire" /\ handle[c] = o
      BY <1>3, <2>1 DEF KilledSessionRetiring
    <2>3. ~Retire(c)
      <3>1. SUFFICES ASSUME Retire(c)
                     PROVE  FALSE
        OBVIOUS
      <3>2. result'[c] = "failed" /\ handle'[c] = o
        BY <2>2, <3>1 DEF Retire, Finish, TypeOK
      <3> QED BY <3>2 DEF FailedSessionGone
    <2> QED BY <2>2, <2>3, OnlyRetireLeaves
  <1>4. CASE life[o] # "killed"
    <2>1. PICK c \in Calls : Timeout(c)
      BY <1>1, <1>2, <1>4, OnlyTimeoutKills
    <2>2. handle[c] = o
      BY <1>1, <1>2, <1>4, <2>1 DEF Timeout, Kill, Sever, TypeOK, PipeTypeOK
    <2>3. pc'[c] = "retire" /\ handle'[c] = handle[c]
      BY <2>1 DEF Timeout, Fail, Goto, TypeOK
    <2> QED BY <2>2, <2>3
  <1> QED BY <1>3, <1>4

\* Where calls run to their end, a session whose worker a timeout has killed is
\* found in the map only while some call is about to retire it.
THEOREM KilledSessionsLeave ==
  ASSUME ~Cancellable
  PROVE  Spec => []KilledSessionRetiring
  <1>1. Init => KilledSessionRetiring
    BY PipeAssumption DEF Init, KilledSessionRetiring, Mapped, Present
  <1>2. SharedInv /\ SharedInv' /\ KilledSessionRetiring /\ [Next]_vars => KilledSessionRetiring'
    BY RetireStep
  <1> QED BY <1>1, <1>2, SharedInvariant, PTL DEF Spec

-------------------------------------------------------------------------------
(* The pipes, where user code leaves them alone and calls run to their end *)

LEMMA SingleLine ==
  ASSUME NEW x
  PROVE  /\ <<x>> # <<>> /\ Head(<<x>>) = x /\ Tail(<<x>>) = <<>> /\ Append(<<>>, x) = <<x>>
  OBVIOUS

\* At most one call at a time is between its send and its read on an object.
LEMMA OneReader ==
  ASSUME LockInv, NEW c \in Calls, NEW d \in Calls, pc[c] \in Executing, pc[d] \in Executing,
         handle[c] = handle[d]
  PROVE  c = d
  BY DEF LockInv

\* A step that leaves every pipe as it is or empties it, and every reader in
\* place or its pipe empty, and makes no reply.
PipesRest ==
    /\ \A o \in Objs : Quiet(o)' \/ UNCHANGED <<inbox[o], job[o], outbox[o]>>
    /\ \A o \in Objs : worker'[o] = "dead" => Quiet(o)' \/ worker[o] = "dead"

ReadersRest ==
    /\ \A c \in Calls : pc'[c] = "read" => pc[c] = "read" /\ handle'[c] = handle[c]
    /\ \A o \in Objs, c \in Calls :
          pc[c] = "read" /\ handle[c] = o => Quiet(o)' \/ pc'[c] = "read"
    /\ \A c \in Calls : result'[c] = "output" => result[c] = "output"
    /\ UNCHANGED answer

LEMMA PipeRests ==
  ASSUME PipeInv, PipesRest, ReadersRest
  PROVE  PipeInv'
  <1>1. ASSUME NEW o \in Objs, \A c \in Calls : pc'[c] = "read" => handle'[c] # o
        PROVE  Quiet(o)'
    <2>1. CASE \E c \in Calls : pc[c] = "read" /\ handle[c] = o
      BY <1>1, <2>1 DEF ReadersRest
    <2>2. CASE \A c \in Calls : pc[c] = "read" => handle[c] # o
      BY <2>2 DEF PipeInv, Quiet, PipesRest
    <2> QED BY <2>1, <2>2
  <1>2. ASSUME NEW o \in Objs, NEW c \in Calls, pc'[c] = "read", handle'[c] = o
        PROVE  InFlight(o, c)'
    <2>1. InFlight(o, c)
      BY <1>2 DEF PipeInv, ReadersRest
    <2> QED BY <2>1 DEF InFlight, Quiet, Response, PipesRest
  <1>3. ASSUME NEW o \in Objs, worker'[o] = "dead"
        PROVE  inbox'[o] = <<>> /\ job'[o] = NoCall
    BY <1>3 DEF PipeInv, PipesRest, Quiet
  <1>4. ReplyPairs'
    BY DEF PipeInv, ReplyPairs, ReadersRest
  <1> QED BY <1>1, <1>2, <1>3, <1>4 DEF PipeInv

LEMMA SeverRests ==
  ASSUME TypeOK, NEW S, NEW how, Sever(S, how)
  PROVE  PipesRest
  BY DEF Sever, Quiet, PipesRest

LEMMA UnchangedRests ==
  ASSUME TypeOK, UNCHANGED <<inbox, job, outbox>>,
         \A o \in Objs : worker'[o] = "dead" => worker[o] = "dead"
  PROVE  PipesRest
  BY DEF PipesRest

\* The request of c enters a pipe that is empty.
LEMMA PipeSends ==
  ASSUME TypeOK, LockInv, PipeInv, NEW c \in Calls, Send(c)
  PROVE  PipeInv'
  <1> DEFINE o == handle[c]
  <1> USE DEF TypeOK, PipeTypeOK, Goto
  <1>1. o \in Objs /\ pc[c] = "send"
    BY DEF Send, LockInv, HoldingArc, Executing
  <1>2. \A d \in Calls : pc[d] = "read" => handle[d] # o
    BY <1>1, OneReader DEF Executing
  <1>3. Quiet(o)
    BY <1>1, <1>2 DEF PipeInv
  <1>4. inbox'[o] = <<c>> \/ inbox'[o] = <<>>
    BY <1>1, <1>3, SingleLine DEF Send, WriteRequest, Quiet
  <1>5. \A p \in Objs : p # o => inbox'[p] = inbox[p]
    BY <1>1 DEF Send, WriteRequest
  <1>6. UNCHANGED <<job, outbox, worker, handle, result, answer>>
    BY DEF Send, WriteRequest
  <1>7. pc' = [pc EXCEPT ![c] = "read"]
    BY DEF Send
  <1>8. worker[o] = "dead" => inbox'[o] = <<>>
    BY <1>1, <1>3 DEF Send, WriteRequest, Quiet
  <1>9. \A p \in Objs : p = o => InFlight(p, c)'
    BY <1>3, <1>4, <1>6 DEF InFlight, Quiet
  <1> HIDE DEF o
  <1>10. (\A p \in Objs : (\A d \in Calls : pc[d] = "read" => handle[d] # p) => Quiet(p))'
    BY <1>5, <1>6, <1>7 DEF PipeInv, Quiet, o
  <1>11. ASSUME NEW p \in Objs, NEW d \in Calls, pc'[d] = "read", handle'[d] = p
         PROVE  InFlight(p, d)'
    <2>1. CASE d = c
      BY <1>6, <1>9, <1>11, <2>1 DEF o
    <2>2. CASE d # c
      <3>1. pc[d] = "read" /\ handle[d] = p /\ p # o
        BY <1>2, <1>6, <1>7, <1>11, <2>2
      <3>2. InFlight(p, d)
        BY <3>1 DEF PipeInv
      <3> QED BY <1>5, <1>6, <3>1, <3>2 DEF InFlight, Quiet, Response
    <2> QED BY <2>1, <2>2
  <1>12. (\A p \in Objs : worker[p] = "dead" => inbox[p] = <<>> /\ job[p] = NoCall)'
    BY <1>5, <1>6, <1>8 DEF PipeInv
  <1>13. ReplyPairs'
    BY <1>6 DEF PipeInv, ReplyPairs
  <1> QED BY <1>10, <1>11, <1>12, <1>13 DEF PipeInv

\* What c reads is the response to c, and it leaves the pipe empty.
LEMMA PipeReads ==
  ASSUME TypeOK, LockInv, PipeInv, NEW c \in Calls, NEW o \in Objs,
         pc[c] = "read", handle[c] = o, ReadLine(o)
  PROVE  Head(outbox[o]) = Response(c) /\ Quiet(o)' /\ PipesRest
  <1>1. /\ outbox[o] # <<>> /\ outbox' = [outbox EXCEPT ![o] = Tail(outbox[o])]
        /\ UNCHANGED <<inbox, job, worker>>
    BY DEF ReadLine
  <1>2. InFlight(o, c)
    BY DEF PipeInv
  <1>3. inbox[o] = <<>> /\ job[o] = NoCall /\ outbox[o] = <<Response(c)>>
    BY <1>1, <1>2, PipeAssumption DEF InFlight, Quiet
  <1>4. Head(outbox[o]) = Response(c) /\ Tail(outbox[o]) = <<>>
    BY <1>3, SingleLine
  <1>5. Quiet(o)'
    BY <1>1, <1>3, <1>4 DEF Quiet, TypeOK, PipeTypeOK
  <1>6. PipesRest
    BY <1>1, <1>5 DEF PipesRest, TypeOK, PipeTypeOK
  <1> QED BY <1>4, <1>5, <1>6

\* The worker moves the one request of its reader along.
LEMMA PipeWorks ==
  ASSUME TypeOK, LockInv, PipeInv, StrayKinds = {}, NEW o \in Objs, PipeStep(o)
  PROVE  PipeInv'
  <1> USE DEF TypeOK, PipeTypeOK
  <1>1. UNCHANGED <<pc, handle, result, answer>>
    BY DEF PipeStep, serverVars
  <1>2. \A p \in Objs : p # o =>
           /\ inbox'[p] = inbox[p] /\ job'[p] = job[p] /\ outbox'[p] = outbox[p]
           /\ worker'[p] = worker[p]
    BY DEF PipeStep, WorkerStep, WorkerReads, WorkerResponds, WorkerStray, WorkerGarbles,
           WorkerDies, Emit
  <1>3. Quiet(o) => Quiet(o)'
    BY DEF PipeStep, WorkerStep, WorkerReads, WorkerResponds, WorkerStray, WorkerGarbles,
           WorkerDies, Quiet
  <1>4. ASSUME NEW c \in Calls, pc[c] = "read", handle[c] = o
        PROVE  InFlight(o, c)'
    <2>1. InFlight(o, c)
      BY <1>4 DEF PipeInv
    <2>2. CASE WorkerReads(o)
      <3>1. inbox[o] = <<c>> /\ outbox[o] = <<>>
        BY <2>1, <2>2, PipeAssumption DEF WorkerReads, InFlight, Quiet
      <3>2. inbox'[o] = <<>> /\ job'[o] = c /\ outbox'[o] = <<>>
        BY <2>2, <3>1, SingleLine DEF WorkerReads
      <3> QED BY <3>2 DEF InFlight
    <2>3. CASE WorkerResponds(o)
      <3>1. inbox[o] = <<>> /\ job[o] = c /\ outbox[o] = <<>>
        BY <2>1, <2>3, PipeAssumption DEF WorkerResponds, InFlight, Quiet
      <3>2. inbox'[o] = <<>> /\ job'[o] = NoCall /\ outbox'[o] = <<Response(c)>>
        BY <2>3, <3>1, SingleLine DEF WorkerResponds, Emit
      <3> QED BY <3>2 DEF InFlight, Response
    <2>4. CASE WorkerDies(o)
      BY <2>1, <2>4 DEF WorkerDies, InFlight, Quiet, Response
    <2> QED BY <2>2, <2>3, <2>4 DEF PipeStep, WorkerStep, WorkerStray, WorkerGarbles
  <1>5. worker'[o] = "dead" => inbox'[o] = <<>> /\ job'[o] = NoCall
    BY DEF PipeStep, WorkerStep, WorkerReads, WorkerResponds, WorkerStray, WorkerGarbles,
           WorkerDies, PipeInv
  <1>6. (\A p \in Objs : (\A d \in Calls : pc[d] = "read" => handle[d] # p) => Quiet(p))'
    BY <1>1, <1>2, <1>3 DEF PipeInv, Quiet
  <1>7. ASSUME NEW p \in Objs, NEW d \in Calls, pc'[d] = "read", handle'[d] = p
        PROVE  InFlight(p, d)'
    <2>1. CASE p = o
      BY <1>1, <1>4, <1>7, <2>1
    <2>2. CASE p # o
      <3>1. InFlight(p, d)
        BY <1>1, <1>7 DEF PipeInv
      <3> QED BY <1>2, <2>2, <3>1 DEF InFlight, Quiet, Response
    <2> QED BY <2>1, <2>2
  <1>8. ReplyPairs'
    BY <1>1 DEF PipeInv, ReplyPairs
  <1>9. (\A p \in Objs : worker[p] = "dead" => inbox[p] = <<>> /\ job[p] = NoCall)'
    BY <1>2, <1>5 DEF PipeInv
  <1> QED BY <1>6, <1>7, <1>8, <1>9 DEF PipeInv

LEMMA PipeExecute ==
  ASSUME TypeOK, LockInv, MapInv, PipeInv, NEW c \in Calls, ExecuteStep(c)
  PROVE  PipeInv'
  <1> USE DEF TypeOK, Goto, Finish
  <1>0. PipeTypeOK /\ (pc[c] \in Executing => handle[c] \in Objs)
    BY DEF LockInv, HoldingArc
  <1>1. CASE Sweep(c) \/ Return(c) \/ Retire(c)
    <2>1. PipesRest
      BY <1>1, SeverRests DEF Sweep, CleanupExpired, Return, Retire, DropUnreferenced, Drop
    <2>2. ReadersRest
      BY <1>1 DEF ReadersRest, Sweep, Return, Retire
    <2> QED BY <2>1, <2>2, PipeRests
  <1>2. CASE AcquireNew(c)
    <2>1. PipesRest
      BY <1>2, UnchangedRests DEF AcquireNew, Spawn, PipeTypeOK
    <2>2. ReadersRest
      BY <1>2 DEF ReadersRest, AcquireNew
    <2> QED BY <2>1, <2>2, PipeRests
  <1>3. CASE AcquireExisting(c) \/ AcquireRefused(c) \/ SpawnFails(c)
    <2>1. PipesRest
      BY <1>3, UnchangedRests DEF AcquireExisting, AcquireRefused, SpawnFails, pipeVars
    <2>2. ReadersRest
      BY <1>3 DEF ReadersRest, AcquireExisting, AcquireRefused, SpawnFails
    <2> QED BY <2>1, <2>2, PipeRests
  <1>4. CASE AwaitSession(c) \/ LockSession(c) \/ SendFails(c)
    <2>1. PipesRest
      BY <1>4, UnchangedRests DEF AwaitSession, LockSession, SendFails, pipeVars
    <2>2. ReadersRest
      BY <1>4 DEF ReadersRest, AwaitSession, LockSession, SendFails, Fail
    <2> QED BY <2>1, <2>2, PipeRests
  <1>5. CASE Send(c)
    BY <1>5, PipeSends
  <1>6. CASE ReadOutput(c)
    <2>1. PICK o \in Objs : o = handle[c]
      BY <1>0, <1>6 DEF ReadOutput, Executing
    <2>2. /\ pc[c] = "read" /\ ReadLine(o)
          /\ answer' = [answer EXCEPT ![c] = Head(outbox[o]).by]
          /\ result' = [result EXCEPT ![c] = "output"]
          /\ pc' = [pc EXCEPT ![c] = "return"] /\ UNCHANGED handle
      BY <1>6, <2>1 DEF ReadOutput
    <2>3. Head(outbox[o]) = Response(c) /\ Quiet(o)' /\ PipesRest
      BY <2>1, <2>2, PipeReads
    <2>4. ReplyPairs'
      BY <2>2, <2>3 DEF PipeInv, ReplyPairs, Response
    <2>5. ASSUME NEW p \in Objs, \A d \in Calls : pc'[d] = "read" => handle'[d] # p
          PROVE  Quiet(p)'
      <3>1. CASE p = o
        BY <2>3, <3>1
      <3>2. CASE p # o
        <4>1. \A d \in Calls : pc[d] = "read" => handle[d] # p
          BY <2>1, <2>2, <2>5, <3>2
        <4> QED BY <2>3, <4>1 DEF PipeInv, PipesRest, Quiet
      <3> QED BY <3>1, <3>2
    <2>6. ASSUME NEW p \in Objs, NEW d \in Calls, pc'[d] = "read", handle'[d] = p
          PROVE  InFlight(p, d)'
      <3>1. InFlight(p, d)
        BY <2>2, <2>6 DEF PipeInv
      <3> QED BY <2>3, <3>1 DEF InFlight, PipesRest, Quiet, Response
    <2>7. (\A p \in Objs : worker[p] = "dead" => inbox[p] = <<>> /\ job[p] = NoCall)'
      BY <2>3 DEF PipeInv, PipesRest, Quiet
    <2> QED BY <2>4, <2>5, <2>6, <2>7 DEF PipeInv
  <1>7. ~ReadJunk(c)
    <2> SUFFICES ASSUME ReadJunk(c)
                 PROVE  FALSE
      OBVIOUS
    <2>1. Head(outbox[handle[c]]) = Response(c)
      BY <1>0, PipeReads DEF ReadJunk, Executing
    <2> QED BY <2>1 DEF ReadJunk, Response
  <1>8. CASE ReadEof(c)
    <2>1. PipesRest
      BY <1>8, UnchangedRests DEF ReadEof, pipeVars
    <2>2. Quiet(handle[c])
      BY <1>0, <1>8 DEF ReadEof, AtEof, PipeInv, Quiet, Executing
    <2>3. \A p \in Objs : p = handle[c] => Quiet(p)'
      BY <1>8, <2>2 DEF ReadEof, pipeVars, Quiet
    <2>4. ReadersRest
      BY <1>8, <2>3 DEF ReadersRest, ReadEof, Fail
    <2> QED BY <2>1, <2>4, PipeRests
  <1>9. CASE Timeout(c)
    <2>1. PipesRest
      BY <1>9, SeverRests DEF Timeout, Kill
    <2>2. \A p \in Objs : p = handle[c] => Quiet(p)'
      BY <1>9 DEF Timeout, Kill, Sever, Quiet
    <2>3. ReadersRest
      BY <1>9, <2>2 DEF ReadersRest, Timeout, Fail
    <2> QED BY <2>1, <2>3, PipeRests
  <1> QED BY <1>1, <1>2, <1>3, <1>4, <1>5, <1>6, <1>7, <1>8, <1>9 DEF ExecuteStep

LEMMA PipeTool ==
  ASSUME TypeOK, PipeInv, NEW c \in Calls, ToolStep(c) \/ PipStep(c)
  PROVE  PipeInv'
  <1> USE DEF TypeOK, Goto, Finish
  <1>1. CASE ResetDrops(c) \/ ListEntry(c)
    <2>1. PipesRest
      BY <1>1, SeverRests DEF ResetDrops, ListEntry, DropUnreferenced, Drop
    <2>2. ReadersRest
      BY <1>1 DEF ReadersRest, ResetDrops, ListEntry
    <2> QED BY <2>1, <2>2, PipeRests
  <1>2. CASE Reset(c) \/ ListSnapshot(c) \/ ListReturn(c) \/ PipSucceeds(c) \/ PipFails(c)
    <2>1. PipesRest
      BY <1>2, UnchangedRests DEF Reset, ListSnapshot, ListReturn, PipSucceeds, PipFails, pipeVars
    <2>2. ReadersRest
      BY <1>2 DEF ReadersRest, Reset, ListSnapshot, ListReturn, PipSucceeds, PipFails
    <2> QED BY <2>1, <2>2, PipeRests
  <1>3. CASE InstallLookup(c) \/ InstallUnknown(c) \/ InstallGlobal(c) \/ InstallPath(c)
    <2>1. PipesRest
      BY <1>3, UnchangedRests
      DEF InstallLookup, InstallUnknown, InstallGlobal, InstallPath, pipeVars
    <2>2. ReadersRest
      BY <1>3 DEF ReadersRest, InstallLookup, InstallUnknown, InstallGlobal, InstallPath
    <2> QED BY <2>1, <2>2, PipeRests
  <1> QED BY <1>1, <1>2, <1>3 DEF ToolStep, PipStep

LEMMA PipeInvStep ==
  ASSUME Orderly, SharedInv, PipeInv, [Next]_vars
  PROVE  PipeInv'
  <1>1. ASSUME NEW c \in Calls, ExecuteStep(c) \/ ToolStep(c) \/ PipStep(c) \/ Cancel(c)
        PROVE  PipeInv'
    <2>1. ~Cancel(c)
      BY DEF Orderly, Cancel
    <2> QED BY <1>1, <2>1, PipeExecute, PipeTool DEF SharedInv
  <1>2. ASSUME NEW o \in Objs, PipeStep(o)
        PROVE  PipeInv'
    BY <1>2, PipeWorks DEF Orderly, SharedInv
  <1>3. CASE Reaper
    <2>1. PipesRest
      BY <1>3, SeverRests DEF Reaper, CleanupExpired, DropUnreferenced, Drop, SharedInv
    <2>2. ReadersRest
      BY <1>3 DEF ReadersRest, Reaper
    <2> QED BY <2>1, <2>2, PipeRests
  <1>4. CASE UNCHANGED <<inbox, job, outbox, worker, pc, handle, result, answer>>
    <2>1. PipesRest
      BY <1>4 DEF PipesRest
    <2>2. ReadersRest
      BY <1>4 DEF ReadersRest
    <2> QED BY <2>1, <2>2, PipeRests
  <1>5. ASSUME NEW o \in Objs, Age(o)
        PROVE  PipeInv'
    BY <1>4, <1>5 DEF Age, pipeVars
  <1>6. CASE UNCHANGED vars
    BY <1>4, <1>6 DEF vars, pipeVars, serverVars
  <1> QED BY <1>1, <1>2, <1>3, <1>5, <1>6 DEF Next

\* "Exactly one response per request", and the right one: where user code keeps
\* off the protocol stream and no call is abandoned by the transport, every
\* output execute_python reports is the worker's response to the code of that
\* call, through all timeouts, dead workers, queues, resets and reaped sessions.
THEOREM RepliesPair ==
  ASSUME Orderly
  PROVE  Spec => []ReplyPairs
  <1>1. Init => PipeInv
    BY DEF Init, PipeInit, PipeInv, Quiet, ReplyPairs, EntryPcs
  <1>2. SharedInv /\ PipeInv /\ [Next]_vars => PipeInv'
    BY PipeInvStep
  <1>3. PipeInv => ReplyPairs
    BY DEF PipeInv
  <1> QED BY <1>1, <1>2, <1>3, SharedInvariant, PTL DEF Spec

------------------------------------------------------------------------------
(* Two theorems that hold whatever user code writes and whichever calls are
   cancelled: sessions in use are not reaped, and the replies of one session
   never come from another. *)

\* A session in an exchange is locked, so no sweep takes it.
LEMMA SweepSparesBusy ==
  ASSUME TypeOK, LockInv, CleanupExpired, NEW c \in Calls, pc[c] \in Executing,
         handle[c] \in Mapped
  PROVE  handle[c] \in Mapped'
  <1>1. PICK s \in Sids : sessions[s] = handle[c] /\ sessions[s] # NoCall
    BY DEF Mapped, Present
  <1>2. s \notin Expirable
    BY <1>1, PipeAssumption DEF Expirable, LockFree, LockInv, HoldingArc
  <1>3. sessions'[s] = handle[c] /\ sessions'[s] # NoCall
    BY <1>1, <1>2 DEF CleanupExpired
  <1> QED BY <1>1, <1>3 DEF Mapped, Present

\* A session leaves the map only in a sweep, a retirement or a reset.
LEMMA OnlyThreeUnmap ==
  ASSUME TypeOK, [Next]_vars
  PROVE  \/ CleanupExpired
         \/ Leaves({"reset", "retire"})
         \/ \A o \in Mapped : o \in Mapped'
  <1> USE DEF TypeOK, Goto, Finish
  <1>1. ASSUME NEW c \in Calls, ExecuteStep(c)
        PROVE  \/ CleanupExpired
               \/ Leaves({"reset", "retire"})
               \/ \A o \in Mapped : o \in Mapped'
    <2>1. CASE Sweep(c)
      BY <2>1 DEF Sweep
    <2>2. CASE Retire(c)
      BY <2>2 DEF Retire, Leaves
    <2>3. CASE AcquireNew(c)
      BY <2>3, PipeAssumption DEF AcquireNew, Lookup, Mapped, Present
    <2>4. CASE /\ ~Sweep(c) /\ ~Retire(c) /\ ~AcquireNew(c)
      <3>1. UNCHANGED sessions
        BY <1>1, <2>4
        DEF ExecuteStep, AcquireExisting, AcquireRefused, SpawnFails, AwaitSession, LockSession,
            Send, SendFails, ReadOutput, ReadJunk, ReadEof, Timeout, Return, Fail
      <3> QED BY <3>1 DEF Mapped, Present
    <2> QED BY <2>1, <2>2, <2>3, <2>4
  <1>2. ASSUME NEW c \in Calls, ToolStep(c) \/ PipStep(c) \/ Cancel(c)
        PROVE  Leaves({"reset", "retire"}) \/ \A o \in Mapped : o \in Mapped'
    <2>1. CASE Reset(c)
      BY <2>1 DEF Reset, Leaves
    <2>2. CASE ~Reset(c)
      <3>1. UNCHANGED sessions
        BY <1>2, <2>2
        DEF ToolStep, PipStep, Cancel, ResetDrops, ListSnapshot, ListEntry, ListReturn, InstallLookup,
            InstallUnknown, InstallGlobal, InstallPath, PipSucceeds, PipFails
      <3> QED BY <3>1 DEF Mapped, Present
    <2> QED BY <2>1, <2>2
  <1>3. CASE (\E o \in Objs : PipeStep(o) \/ Age(o)) \/ UNCHANGED vars
    <2>1. UNCHANGED sessions
      BY <1>3 DEF PipeStep, Age, serverVars, vars
    <2> QED BY <2>1 DEF Mapped, Present
  <1>4. CASE Reaper
    BY <1>4 DEF Reaper
  <1> QED BY <1>1, <1>2, <1>3, <1>4 DEF Next

\* "Busy sessions are by definition not idle": a session leaves the map during
\* an exchange on it only by a reset or a failed execution, never by the sweep
\* of execute_python or of the reaper, for any number of calls and sessions.
THEOREM BusyStay == Spec => BusyNeverReaped
  <1> DEFINE Step == \A c \in Calls :
               pc[c] \in Executing /\ handle[c] \in Mapped /\ handle[c] \notin Mapped'
                   => Leaves({"reset", "retire"})
  <1>1. TypeOK /\ LockInv /\ [Next]_vars => Step
    BY SweepSparesBusy, OnlyThreeUnmap
  <1>2. TypeOK /\ LockInv /\ [Next]_vars => [Step]_vars
    BY <1>1
  <1> HIDE DEF Step
  <1>3. Spec => [][Step]_vars
    BY <1>2, TypesAndLocks, PTL DEF Spec
  <1> QED BY <1>3 DEF Step, BusyNeverReaped

-------------------------------------------------------------------------------
(* What is in the pipes of a session *)

\* A step that puts nothing into a pipe and leaves settled sessions alone.
PipesLose == \A o \in Objs : Inside(o)' \subseteq Inside(o)
AskedKeep ==
  \A c \in Calls :
      /\ Asked(c) => Asked(c)' /\ handle'[c] = handle[c]
      /\ result'[c] = "output" => result[c] = "output" /\ answer'[c] = answer[c]

LEMMA InsideAreCalls ==
  ASSUME TypeOK, NEW o \in Objs, NEW c \in Inside(o)
  PROVE  c \in Calls
  <1>1. inbox[o] \in Seq(Calls) /\ outbox[o] \in Seq(Line) /\ job[o] \in Calls \cup {NoCall}
    BY DEF TypeOK, PipeTypeOK
  <1>2. ASSUME NEW i \in DOMAIN outbox[o] PROVE outbox[o][i].by \in Calls \cup {NoCall}
    <2>1. outbox[o][i] \in Line
      BY <1>1
    <2> QED BY <2>1 DEF Line
  <1>3. \A i \in DOMAIN inbox[o] : inbox[o][i] \in Calls
    BY <1>1
  <1> QED BY <1>1, <1>2, <1>3 DEF Inside

LEMMA IsolationRests ==
  ASSUME TypeOK, IsolationInv, PipesLose, AskedKeep
  PROVE  IsolationInv'
  <1>1. ASSUME NEW o \in Objs, NEW c \in Inside(o)'
        PROVE  handle'[c] = o /\ Asked(c)'
    <2>1. c \in Inside(o)
      BY <1>1 DEF PipesLose
    <2>2. c \in Calls /\ handle[c] = o /\ Asked(c)
      BY <2>1, InsideAreCalls DEF IsolationInv
    <2> QED BY <2>2 DEF AskedKeep
  <1>2. ASSUME NEW c \in Calls, result'[c] = "output", answer'[c] # NoCall
        PROVE  (Asked(c) /\ Asked(answer[c]) /\ handle[answer[c]] = handle[c])'
    <2>1. result[c] = "output" /\ answer'[c] = answer[c]
      BY <1>2 DEF AskedKeep
    <2>2. PICK d \in Calls : d = answer[c]
      BY <1>2, <2>1 DEF TypeOK
    <2>3. Asked(c) /\ Asked(d) /\ handle[d] = handle[c]
      BY <1>2, <2>1, <2>2 DEF IsolationInv
    <2> QED BY <2>1, <2>2, <2>3 DEF AskedKeep
  <1> QED BY <1>1, <1>2 DEF IsolationInv

LEMMA SeverLoses ==
  ASSUME NEW S, NEW how, Sever(S, how)
  PROVE  PipesLose
  BY DEF PipesLose, Sever, Inside

LEMMA UnchangedLoses ==
  ASSUME UNCHANGED <<inbox, job, outbox>>
  PROVE  PipesLose
  BY DEF PipesLose, Inside

LEMMA ReadLoses ==
  ASSUME TypeOK, NEW o \in Objs, ReadLine(o)
  PROVE  PipesLose /\ (Head(outbox[o]).by # NoCall => Head(outbox[o]).by \in Inside(o))
  <1>1. outbox[o] \in Seq(Line) /\ outbox[o] # <<>>
    BY DEF TypeOK, PipeTypeOK, ReadLine
  <1>2. \A i \in DOMAIN Tail(outbox[o]) :
            i + 1 \in DOMAIN outbox[o] /\ Tail(outbox[o])[i] = outbox[o][i + 1]
    BY <1>1
  <1>3. 1 \in DOMAIN outbox[o] /\ Head(outbox[o]) = outbox[o][1]
    BY <1>1
  <1>4. outbox'[o] = Tail(outbox[o])
    BY DEF ReadLine, TypeOK, PipeTypeOK
  <1>5. \A p \in Objs : p # o => outbox'[p] = outbox[p]
    BY DEF ReadLine, TypeOK, PipeTypeOK
  <1>6. \A p \in Objs : inbox'[p] = inbox[p] /\ job'[p] = job[p]
    BY DEF ReadLine
  <1>7. ASSUME NEW p \in Objs, NEW c \in Inside(p)' PROVE c \in Inside(p)
    <2>1. CASE p # o
      BY <1>5, <1>6, <1>7, <2>1 DEF Inside
    <2>2. CASE p = o
      <3>1. \A i \in DOMAIN outbox'[o] : \E j \in DOMAIN outbox[o] : outbox'[o][i] = outbox[o][j]
        BY <1>2, <1>4
      <3> QED BY <1>6, <1>7, <2>2, <3>1 DEF Inside
    <2> QED BY <2>1, <2>2
  <1> QED BY <1>3, <1>7 DEF PipesLose, Inside

LEMMA EmitLoses ==
  ASSUME TypeOK, NEW o \in Objs, NEW line \in Line, Emit(o, line),
         inbox' = inbox,
         \/ job' = job /\ line.by = NoCall
         \/ job' = [job EXCEPT ![o] = NoCall] /\ line.by \in {job[o], NoCall}
  PROVE  PipesLose
  <1>1. outbox[o] \in Seq(Line)
    BY DEF TypeOK, PipeTypeOK
  <1>2. \A i \in DOMAIN Append(outbox[o], line) :
            \/ i \in DOMAIN outbox[o] /\ Append(outbox[o], line)[i] = outbox[o][i]
            \/ Append(outbox[o], line)[i] = line
    BY <1>1
  <1>3. outbox'[o] = Append(outbox[o], line)
    BY DEF Emit, TypeOK, PipeTypeOK
  <1>4. \A p \in Objs : p # o => outbox'[p] = outbox[p]
    BY DEF Emit, TypeOK, PipeTypeOK
  <1>5. \A p \in Objs : job'[p] \in {job[p], NoCall}
    BY DEF TypeOK, PipeTypeOK
  <1>6. ASSUME NEW p \in Objs, NEW c \in Inside(p)' PROVE c \in Inside(p)
    <2>1. CASE p # o
      BY <1>4, <1>5, <1>6, <2>1 DEF Inside
    <2>2. CASE p = o
      BY <1>2, <1>3, <1>5, <1>6, <2>2 DEF Inside
    <2> QED BY <2>1, <2>2
  <1> QED BY <1>6 DEF PipesLose

LEMMA WorkerLoses ==
  ASSUME TypeOK, NEW o \in Objs, WorkerStep(o)
  PROVE  PipesLose
  <1> USE DEF TypeOK, PipeTypeOK
  <1>1. CASE WorkerReads(o)
    <2>1. inbox[o] \in Seq(Calls) /\ inbox[o] # <<>>
      BY <1>1 DEF WorkerReads
    <2>2. /\ \A i \in DOMAIN Tail(inbox[o]) :
                i + 1 \in DOMAIN inbox[o] /\ Tail(inbox[o])[i] = inbox[o][i + 1]
          /\ 1 \in DOMAIN inbox[o] /\ Head(inbox[o]) = inbox[o][1]
      BY <2>1
    <2>3. /\ inbox'[o] = Tail(inbox[o]) /\ job'[o] = Head(inbox[o])
          /\ \A p \in Objs : p # o => inbox'[p] = inbox[p] /\ job'[p] = job[p]
          /\ outbox' = outbox
      BY <1>1 DEF WorkerReads
    <2>4. ASSUME NEW p \in Objs, NEW c \in Inside(p)' PROVE c \in Inside(p)
      <3>1. CASE p # o
        BY <2>3, <2>4, <3>1 DEF Inside
      <3>2. CASE p = o
        <4>1. \A i \in DOMAIN inbox'[o] : \E j \in DOMAIN inbox[o] : inbox'[o][i] = inbox[o][j]
          BY <2>2, <2>3
        <4>2. \E j \in DOMAIN inbox[o] : job'[o] = inbox[o][j]
          BY <2>2, <2>3
        <4>3. /\ \A j \in DOMAIN inbox[o] : inbox[o][j] # NoCall => inbox[o][j] \in Inside(o)
              /\ \A j \in DOMAIN outbox[o] :
                     outbox[o][j].by # NoCall => outbox[o][j].by \in Inside(o)
          BY DEF Inside
        <4>4. /\ c # NoCall
              /\ \/ \E i \in DOMAIN inbox'[o] : c = inbox'[o][i]
                 \/ c = job'[o]
                 \/ \E i \in DOMAIN outbox[o] : c = outbox[o][i].by
          BY <2>3, <2>4, <3>2 DEF Inside
        <4> QED BY <3>2, <4>1, <4>2, <4>3, <4>4
      <3> QED BY <3>1, <3>2
    <2> QED BY <2>4 DEF PipesLose
  <1>2. CASE WorkerResponds(o)
    <2>1. Response(job[o]) \in Line /\ Response(job[o]).by = job[o]
      BY DEF Response, Line
    <2> QED BY <1>2, <2>1, EmitLoses DEF WorkerResponds
  <1>3. ASSUME NEW k \in StrayKinds, WorkerStray(o, k) PROVE PipesLose
    <2>1. Stray(k) \in Line /\ Stray(k).by = NoCall
      BY <1>3, PipeAssumption DEF Stray, Line
    <2> QED BY <1>3, <2>1, EmitLoses DEF WorkerStray
  <1>4. CASE WorkerGarbles(o)
    <2>1. Stray("junk") \in Line /\ Stray("junk").by = NoCall
      BY DEF Stray, Line
    <2> QED BY <1>4, <2>1, EmitLoses DEF WorkerGarbles
  <1>5. CASE WorkerDies(o)
    BY <1>5 DEF WorkerDies, PipesLose, Inside
  <1> QED BY <1>1, <1>2, <1>3, <1>4, <1>5 DEF WorkerStep

LEMMA SendAdds ==
  ASSUME TypeOK, NEW o \in Objs, NEW d \in Calls, WriteRequest(o, d)
  PROVE  \A p \in Objs : Inside(p)' \subseteq Inside(p) \cup (IF p = o THEN {d} ELSE {})
  <1> USE DEF TypeOK, PipeTypeOK
  <1>1. inbox[o] \in Seq(Calls)
    OBVIOUS
  <1>2. \A i \in DOMAIN Append(inbox[o], d) :
            \/ i \in DOMAIN inbox[o] /\ Append(inbox[o], d)[i] = inbox[o][i]
            \/ Append(inbox[o], d)[i] = d
    BY <1>1
  <1>3. inbox'[o] \in {inbox[o], Append(inbox[o], d)} /\ job' = job /\ outbox' = outbox
    BY DEF WriteRequest
  <1>4. \A p \in Objs : p # o => inbox'[p] = inbox[p]
    BY DEF WriteRequest
  <1>5. ASSUME NEW p \in Objs, NEW c \in Inside(p)', p # o
        PROVE  c \in Inside(p)
    BY <1>3, <1>4, <1>5 DEF Inside
  <1>6. ASSUME NEW c \in Inside(o)', c # d
        PROVE  c \in Inside(o)
    <2>1. \A i \in DOMAIN inbox'[o] :
              (\E j \in DOMAIN inbox[o] : inbox'[o][i] = inbox[o][j]) \/ inbox'[o][i] = d
      BY <1>2, <1>3
    <2> QED BY <1>3, <1>6, <2>1 DEF Inside
  <1> QED BY <1>5, <1>6

-------------------------------------------------------------------------------
(* Every step of the server *)

LEMMA IsolationExecute ==
  ASSUME TypeOK, LockInv, MapInv, IsolationInv, NEW c \in Calls, ExecuteStep(c)
  PROVE  IsolationInv'
  <1> USE DEF TypeOK, Goto, Finish, Asked
  <1>0. /\ pc[c] \in Executing => handle[c] \in Objs
        /\ pc[c] \notin {"return", "release", "done"} => result[c] = "none"
    BY DEF LockInv, MapInv, HoldingArc
  <1>1. CASE Sweep(c) \/ Return(c) \/ Retire(c)
    <2>1. PipesLose
      BY <1>1, SeverLoses DEF Sweep, CleanupExpired, Return, Retire, DropUnreferenced, Drop
    <2>2. AskedKeep
      BY <1>1 DEF AskedKeep, Sweep, Return, Retire
    <2> QED BY <2>1, <2>2, IsolationRests
  <1>2. CASE AcquireNew(c) \/ AcquireExisting(c) \/ AcquireRefused(c) \/ SpawnFails(c)
    <2>1. PipesLose
      BY <1>2, UnchangedLoses
      DEF AcquireNew, Spawn, AcquireExisting, AcquireRefused, SpawnFails, pipeVars
    <2>2. AskedKeep
      BY <1>2 DEF AskedKeep, AcquireNew, AcquireExisting, AcquireRefused, SpawnFails
    <2> QED BY <2>1, <2>2, IsolationRests
  <1>3. CASE AwaitSession(c) \/ LockSession(c) \/ SendFails(c) \/ ReadEof(c)
    <2>1. PipesLose
      BY <1>3, UnchangedLoses DEF AwaitSession, LockSession, SendFails, ReadEof, pipeVars
    <2>2. AskedKeep
      BY <1>3 DEF AskedKeep, AwaitSession, LockSession, SendFails, ReadEof, Fail
    <2> QED BY <2>1, <2>2, IsolationRests
  <1>4. CASE Timeout(c)
    <2>1. PipesLose
      BY <1>4, SeverLoses DEF Timeout, Kill
    <2>2. AskedKeep
      BY <1>4 DEF AskedKeep, Timeout, Fail
    <2> QED BY <2>1, <2>2, IsolationRests
  <1>5. CASE ReadJunk(c)
    <2>1. PipesLose
      BY <1>0, <1>5, ReadLoses DEF ReadJunk, Executing
    <2>2. AskedKeep
      BY <1>5 DEF AskedKeep, ReadJunk, Fail
    <2> QED BY <2>1, <2>2, IsolationRests
  <1>6. CASE Send(c)
    <2>1. PICK o \in Objs : o = handle[c]
      BY <1>0, <1>6 DEF Send, Executing
    <2>2. /\ pc[c] = "send" /\ WriteRequest(o, c) /\ pc' = [pc EXCEPT ![c] = "read"]
          /\ UNCHANGED <<handle, result, answer>>
      BY <1>6, <2>1 DEF Send
    <2>3. AskedKeep
      BY <2>2 DEF AskedKeep
    <2>4. ASSUME NEW p \in Objs, NEW d \in Inside(p)'
          PROVE  (handle[d] = p /\ Asked(d))'
      <3>1. CASE d \in Inside(p)
        <4>1. d \in Calls /\ handle[d] = p /\ Asked(d)
          BY <3>1, InsideAreCalls DEF IsolationInv
        <4> QED BY <2>3, <4>1 DEF AskedKeep
      <3>2. CASE p = o /\ d = c
        BY <2>1, <2>2, <3>2
      <3> QED BY <2>2, <2>4, <3>1, <3>2, SendAdds
    <2>5. ASSUME NEW d \in Calls, (result[d] = "output" /\ answer[d] # NoCall)'
          PROVE  (Asked(d) /\ Asked(answer[d]) /\ handle[answer[d]] = handle[d])'
      BY <2>2, <2>5 DEF IsolationInv
    <2> QED BY <2>4, <2>5 DEF IsolationInv
  <1>7. CASE ReadOutput(c)
    <2>1. PICK o \in Objs : o = handle[c]
      BY <1>0, <1>7 DEF ReadOutput, Executing
    <2>2. /\ pc[c] = "read" /\ ReadLine(o) /\ pc' = [pc EXCEPT ![c] = "return"]
          /\ answer' = [answer EXCEPT ![c] = Head(outbox[o]).by]
          /\ result' = [result EXCEPT ![c] = "output"]
          /\ UNCHANGED handle
      BY <1>7, <2>1 DEF ReadOutput
    <2>3. PipesLose /\ (Head(outbox[o]).by # NoCall => Head(outbox[o]).by \in Inside(o))
      BY <2>2, ReadLoses
    <2>4. \A d \in Calls : Asked(d) => Asked(d)' /\ handle'[d] = handle[d]
      BY <2>2
    <2>5. ASSUME NEW p \in Objs, NEW d \in Inside(p)'
          PROVE  (handle[d] = p /\ Asked(d))'
      <3>1. d \in Calls /\ handle[d] = p /\ Asked(d)
        BY <2>3, InsideAreCalls DEF IsolationInv, PipesLose
      <3> QED BY <2>4, <3>1
    <2>6. ASSUME NEW d \in Calls, (result[d] = "output" /\ answer[d] # NoCall)'
          PROVE  (Asked(d) /\ Asked(answer[d]) /\ handle[answer[d]] = handle[d])'
      <3>1. CASE d = c
        <4>1. PICK e \in Inside(o) : e = answer'[c]
          BY <2>2, <2>3, <2>6, <3>1
        <4>2. e \in Calls /\ handle[e] = o /\ Asked(e)
          BY <4>1, InsideAreCalls DEF IsolationInv
        <4> QED BY <2>1, <2>2, <2>4, <3>1, <4>1, <4>2
      <3>2. CASE d # c
        <4>1. result[d] = "output" /\ answer'[d] = answer[d] /\ answer[d] # NoCall
          BY <2>2, <2>6, <3>2
        <4>2. answer[d] \in Calls
          BY <4>1
        <4>3. Asked(d) /\ Asked(answer[d]) /\ handle[answer[d]] = handle[d]
          BY <4>1 DEF IsolationInv
        <4> QED BY <2>4, <4>1, <4>2, <4>3
      <3> QED BY <3>1, <3>2
    <2> QED BY <2>5, <2>6 DEF IsolationInv
  <1> QED BY <1>1, <1>2, <1>3, <1>4, <1>5, <1>6, <1>7 DEF ExecuteStep

LEMMA IsolationTool ==
  ASSUME TypeOK, LockInv, MapInv, IsolationInv, NEW c \in Calls,
         ToolStep(c) \/ PipStep(c) \/ Cancel(c)
  PROVE  IsolationInv'
  <1> USE DEF TypeOK, Goto, Finish, Asked
  <1>1. CASE ResetDrops(c) \/ ListEntry(c) \/ Cancel(c)
    <2>1. PipesLose
      BY <1>1, SeverLoses DEF ResetDrops, ListEntry, Cancel, DropUnreferenced, Drop
    <2>2. AskedKeep
      BY <1>1 DEF AskedKeep, ResetDrops, ListEntry, Cancel
    <2> QED BY <2>1, <2>2, IsolationRests
  <1>2. CASE Reset(c) \/ ListSnapshot(c) \/ ListReturn(c) \/ PipSucceeds(c) \/ PipFails(c)
    <2>1. PipesLose
      BY <1>2, UnchangedLoses DEF Reset, ListSnapshot, ListReturn, PipSucceeds, PipFails, pipeVars
    <2>2. AskedKeep
      BY <1>2 DEF AskedKeep, Reset, ListSnapshot, ListReturn, PipSucceeds, PipFails
    <2> QED BY <2>1, <2>2, IsolationRests
  <1>3. CASE InstallLookup(c) \/ InstallUnknown(c) \/ InstallGlobal(c) \/ InstallPath(c)
    <2>1. PipesLose
      BY <1>3, UnchangedLoses
      DEF InstallLookup, InstallUnknown, InstallGlobal, InstallPath, pipeVars
    <2>2. AskedKeep
      BY <1>3 DEF AskedKeep, InstallLookup, InstallUnknown, InstallGlobal, InstallPath
    <2> QED BY <2>1, <2>2, IsolationRests
  <1> QED BY <1>1, <1>2, <1>3 DEF ToolStep, PipStep

LEMMA IsolationStep == SharedInv /\ IsolationInv /\ [Next]_vars => IsolationInv'
  <1> SUFFICES ASSUME SharedInv, IsolationInv, [Next]_vars
               PROVE  IsolationInv'
    OBVIOUS
  <1> USE DEF SharedInv
  <1>1. ASSUME NEW c \in Calls, ExecuteStep(c) \/ ToolStep(c) \/ PipStep(c) \/ Cancel(c)
        PROVE  IsolationInv'
    BY <1>1, IsolationExecute, IsolationTool
  <1>2. CASE UNCHANGED <<pc, handle, result, answer>> /\ PipesLose
    <2>1. AskedKeep
      BY <1>2 DEF AskedKeep, Asked
    <2> QED BY <1>2, <2>1, IsolationRests
  <1>3. ASSUME NEW o \in Objs, PipeStep(o)
        PROVE  IsolationInv'
    BY <1>2, <1>3, WorkerLoses DEF PipeStep, serverVars
  <1>4. CASE Reaper
    <2>1. PipesLose
      BY <1>4, SeverLoses DEF Reaper, CleanupExpired, DropUnreferenced, Drop
    <2> QED BY <1>2, <1>4, <2>1 DEF Reaper
  <1>5. CASE (\E o \in Objs : Age(o)) \/ UNCHANGED vars
    <2>1. PipesLose
      BY <1>5, UnchangedLoses DEF Age, vars, pipeVars
    <2> QED BY <1>2, <1>5, <2>1 DEF Age, vars, serverVars
  <1> QED BY <1>1, <1>3, <1>4, <1>5 DEF Next

\* What is in a pipe belongs to calls of that session, for good.
THEOREM PipesBelong == Spec => []IsolationInv
  <1>1. Init => IsolationInv
    <2> SUFFICES ASSUME Init
                 PROVE  IsolationInv
      OBVIOUS
    <2>1. \A o \in Objs : Inside(o) = {}
      BY DEF Init, PipeInit, Inside
    <2>2. \A c \in Calls : result[c] = "none"
      BY DEF Init
    <2> QED BY <2>1, <2>2 DEF IsolationInv
  <1>2. SharedInv /\ IsolationInv /\ [Next]_vars => IsolationInv'
    BY IsolationStep
  <1> QED BY <1>1, <1>2, SharedInvariant, PTL DEF Spec

\* Sessions do not mix: an execution reports a response only of code that was
\* run in its own session, whatever user code writes to the protocol stream,
\* whichever calls are cancelled and however many sessions a session id has
\* stood for.
THEOREM SessionsIsolated == Spec => []SessionIsolation
  <1>1. IsolationInv => SessionIsolation
    BY DEF IsolationInv, SessionIsolation
  <1> QED BY <1>1, PipesBelong, PTL
==============================================================================
