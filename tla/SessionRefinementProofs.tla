----------------------- MODULE SessionRefinementProofs -----------------------
(***************************************************************************)
(* SessionServer implements SessionDirectory, and keeps the resources of   *)
(* its sessions accounted for.                                             *)
(***************************************************************************)
EXTENDS SessionServerProofs

\* No step but the creation of a session opens one.
LEMMA OpenedLasts ==
  ASSUME TypeOK, LifeLasts
  PROVE  Opened' = Opened
  <1>1. \A o \in Objs : life'[o] # "none" <=> life[o] # "none"
    BY DEF LifeLasts
  <1> QED BY <1>1 DEF Opened

\* A step that no client can see.
LEMMA Unseen ==
  ASSUME TypeOK, TypeOK', LifeLasts, UNCHANGED <<sessions, sessLock>>,
         \A d \in Calls :
            /\ pc'[d] \in HoldingArc <=> pc[d] \in HoldingArc
            /\ pc[d] \in HoldingArc => handle'[d] = handle[d]
            /\ pc'[d] \in {"release", "done"} <=> pc[d] \in {"release", "done"}
            /\ pc[d] \in {"release", "done"} => result'[d] = result[d]
  PROVE  UNCHANGED Directory!vars
  <1>1. UsedBy' = UsedBy
    BY DEF UsedBy
  <1>2. Outcome' = Outcome
    BY DEF Outcome
  <1>3. Opened' = Opened
    BY OpenedLasts
  <1> QED BY <1>1, <1>2, <1>3 DEF Directory!vars

\* A call whose result is settled reports it and has no session any more.
LEMMA Settles ==
  ASSUME TypeOK, NEW c \in Calls, NEW r \in Results, NEW label \in {"release", "done"},
         Goto(c, label), result' = [result EXCEPT ![c] = r],
         \A d \in Calls : d # c => handle'[d] = handle[d]
  PROVE  Directory!Report(c, r)
  <1>1. /\ pc' = [pc EXCEPT ![c] = label] /\ result' = [result EXCEPT ![c] = r]
        /\ pc \in [Calls -> Pcs] /\ result \in [Calls -> Results]
    BY DEF Goto, TypeOK
  <1>2. Outcome' = [Outcome EXCEPT ![c] = r]
    BY <1>1 DEF Outcome
  <1>3. UsedBy' = [UsedBy EXCEPT ![c] = NoCall]
    BY <1>1 DEF UsedBy, HoldingArc, Executing
  <1> QED BY <1>2, <1>3 DEF Directory!Report

LEMMA Reports ==
  ASSUME TypeOK, NEW c \in Calls, NEW r \in Results, Finish(c, r),
         \A d \in Calls : d # c => handle'[d] = handle[d]
  PROVE  Directory!Report(c, r)
  BY Settles DEF Finish

\* What the call is, seen through the directory.
LEMMA Seen ==
  ASSUME TypeOK, LockInv, NEW c \in Calls
  PROVE  /\ pc[c] \notin {"release", "done"} => Directory!Running(c)
         /\ pc[c] \in HoldingArc => UsedBy[c] = handle[c] /\ handle[c] \in Objs
         /\ pc[c] \notin HoldingArc => UsedBy[c] = NoCall
         /\ pc[c] \in Executing => Directory!IsInside(c)
         /\ pc[c] \notin Executing => ~Directory!IsInside(c) /\ \A o \in Objs : sessLock[o] # c
  <1> USE PipeAssumption DEF Objs, LockInv
  <1>1. pc[c] \notin {"release", "done"} => Directory!Running(c)
    BY DEF Directory!Running, Outcome
  <1>2. pc[c] \in HoldingArc => UsedBy[c] = handle[c] /\ handle[c] \in Objs
    BY DEF UsedBy
  <1>3. pc[c] \notin HoldingArc => UsedBy[c] = NoCall
    BY DEF UsedBy
  <1>4. pc[c] \in Executing => Directory!IsInside(c)
    BY <1>2 DEF Directory!IsInside, HoldingArc
  <1>5. ASSUME pc[c] \notin Executing, NEW o \in Objs
        PROVE  sessLock[o] # c
    BY <1>5
  <1>6. pc[c] \notin Executing => ~Directory!IsInside(c)
    BY <1>2, <1>3, <1>5 DEF Directory!IsInside
  <1> QED BY <1>1, <1>2, <1>3, <1>4, <1>5, <1>6

\* Which steps leave the objects to what LifeLasts allows: all but one.
LEMMA LivesLast ==
  ASSUME SharedInv, TypeOK', [Next]_vars
  PROVE  LifeLasts \/ \E c \in Calls : AcquireNew(c)
  <1> USE DEF SharedInv
  <1>1. ASSUME DropUnreferenced
        PROVE  LifeLasts
    BY <1>1, DropLasts DEF TypeOK
  <1>2. ASSUME UNCHANGED life
        PROVE  LifeLasts
    BY <1>2, SameLasts
  <1>3. ASSUME NEW c \in Calls, Timeout(c)
        PROVE  LifeLasts
    <2>1. handle[c] \in Objs /\ UNCHANGED sessions
      BY <1>3 DEF Timeout, Fail, LockInv, HoldingArc, Executing
    <2>2. life' = [o \in Objs |-> IF o = handle[c] THEN "killed" ELSE life[o]]
      BY <1>3 DEF Timeout, Kill, Sever
    <2> QED BY <1>3, <2>1, <2>2 DEF LifeLasts, Timeout, TypeOK, PipeTypeOK
  <1>4. ASSUME NEW c \in Calls, ExecuteStep(c)
        PROVE  AcquireNew(c) \/ Timeout(c) \/ DropUnreferenced \/ UNCHANGED life
    BY <1>4 DEF ExecuteStep, Sweep, CleanupExpired, AcquireExisting, AcquireRefused,
       SpawnFails, AwaitSession, LockSession, Send, SendFails, Fail, ReadOutput, ReadJunk,
       ReadEof, Return, Retire, WriteRequest, ReadLine, pipeVars
  <1>5. ASSUME NEW c \in Calls, ToolStep(c) \/ PipStep(c) \/ Cancel(c)
        PROVE  DropUnreferenced \/ UNCHANGED life
    BY <1>5 DEF ToolStep, PipStep, Cancel, Reset, ResetDrops, ListSnapshot, ListEntry, ListReturn,
       InstallLookup, InstallUnknown, InstallGlobal, InstallPath, PipSucceeds, PipFails, pipeVars
  <1>6. ASSUME NEW o \in Objs, PipeStep(o) \/ Age(o)
        PROVE  UNCHANGED life
    BY <1>6 DEF PipeStep, WorkerStep, WorkerReads, WorkerResponds, WorkerStray, WorkerGarbles,
                WorkerDies, Age, pipeVars
  <1>7. CASE Reaper
    BY <1>1, <1>7 DEF Reaper, CleanupExpired
  <1>8. CASE UNCHANGED vars
    BY <1>2, <1>8 DEF vars, pipeVars
  <1> QED BY <1>1, <1>2, <1>3, <1>4, <1>5, <1>6, <1>7, <1>8 DEF Next

\* A sweep forgets sessions nobody is inside of.
LEMMA SweepMaps ==
  ASSUME SharedInv, CleanupExpired, LifeLasts, UNCHANGED <<sessLock, UsedBy, Outcome>>
  PROVE  Directory!Next
  <1>1. Expirable \in SUBSET Sids
    BY DEF Expirable, Present
  <1>2. Opened' = Opened
    BY OpenedLasts DEF SharedInv
  <1>3. Directory!Forgets(Expirable)
    BY <1>2 DEF Directory!Forgets, CleanupExpired, Expirable, Present, LockFree
  <1> QED BY <1>1, <1>3 DEF Directory!Next

\* The directory counts what the server counts.
LEMMA SameSize == ASSUME NEW S PROVE Directory!Cardinality(S) = Cardinality(S)
  BY DEF Directory!Cardinality, Cardinality

\* The guard of an exchange goes: the call is inside its session no more.
LEMMA Vacates ==
  ASSUME TypeOK, LockInv, NEW c \in Calls, pc[c] \in Executing,
         sessLock' = [sessLock EXCEPT ![handle[c]] = NoCall]
  PROVE  Directory!Vacate(c)
  <1>1. handle[c] \in Objs /\ sessLock[handle[c]] = c
    BY DEF LockInv, HoldingArc
  <1>2. \A o \in Objs : sessLock[o] = c => handle[c] = o
    BY PipeAssumption DEF LockInv, Objs
  <1> QED BY <1>1, <1>2 DEF Directory!Vacate, TypeOK, Objs

LEMMA ReturnInit == Init => ReturnInv
  BY DEF Init, ReturnInv, EntryPcs

\* Only ReadOutput brings a call to its return.
LEMMA ReturnStep == TypeOK /\ ReturnInv /\ [Next]_vars => ReturnInv'
  <1> SUFFICES ASSUME TypeOK, ReturnInv, [Next]_vars
               PROVE  ReturnInv'
    OBVIOUS
  <1> USE DEF TypeOK, ReturnInv, Goto, Finish
  <1>1. ASSUME NEW c \in Calls, ExecuteStep(c)
        PROVE  ReturnInv'
    BY <1>1 DEF ExecuteStep, Sweep, AcquireExisting, AcquireRefused, SpawnFails, AcquireNew,
       AwaitSession, LockSession, Send, SendFails, Fail, ReadOutput, ReadJunk, ReadEof, Timeout,
       Return, Retire
  <1>2. ASSUME NEW c \in Calls, ToolStep(c) \/ PipStep(c) \/ Cancel(c)
        PROVE  ReturnInv'
    BY <1>2 DEF ToolStep, PipStep, Cancel, Reset, ResetDrops, ListSnapshot, ListEntry, ListReturn,
       InstallLookup, InstallUnknown, InstallGlobal, InstallPath, PipSucceeds, PipFails
  <1>3. CASE UNCHANGED <<pc, result>>
    BY <1>3
  <1>4. ASSUME NEW o \in Objs, PipeStep(o) \/ Age(o)
        PROVE  UNCHANGED <<pc, result>>
    BY <1>4 DEF PipeStep, Age, serverVars
  <1>5. CASE Reaper \/ UNCHANGED vars
    BY <1>3, <1>5 DEF Reaper, vars, serverVars
  <1> QED BY <1>1, <1>2, <1>3, <1>4, <1>5 DEF Next

LEMMA ExecuteMaps ==
  ASSUME SharedInv, ReturnInv, TypeOK', NEW c \in Calls, ExecuteStep(c), LifeLasts \/ AcquireNew(c)
  PROVE  [Directory!Next]_(Directory!vars)
  <1> USE DEF SharedInv, Goto
  <1> DEFINE o == handle[c]
  <1>0. /\ pc \in [Calls -> Pcs] /\ handle \in [Calls -> Objs \cup {NoCall}]
        /\ sid \in [Calls -> Sids] /\ result \in [Calls -> Results]
        /\ sessions \in [Sids -> Objs \cup {NoCall}]
        /\ sessLock \in [Objs -> Calls \cup {NoCall}]
    BY DEF TypeOK
  <1>1. CASE Sweep(c)
    <2>1. LifeLasts /\ UNCHANGED <<sessLock, UsedBy, Outcome>>
      BY <1>0, <1>1 DEF Sweep, AcquireNew, UsedBy, Outcome, HoldingArc, Executing
    <2> QED BY <1>1, <2>1, SweepMaps DEF Sweep
  <1>2. CASE AcquireExisting(c)
    <2>1. LifeLasts /\ Opened' = Opened
      BY <1>2, SameLasts, OpenedLasts DEF AcquireExisting, pipeVars
    <2>2. UsedBy' = [UsedBy EXCEPT ![c] = sessions[sid[c]]] /\ Outcome' = Outcome
      BY <1>0, <1>2 DEF AcquireExisting, Lookup, UsedBy, Outcome, HoldingArc, Executing
    <2>3. Directory!Running(c) /\ UsedBy[c] = NoCall /\ sid[c] \in Sids
      BY <1>0, <1>2, Seen DEF AcquireExisting, HoldingArc, Executing
    <2>4. Directory!Joins(c, sid[c])
      BY <1>2, <2>1, <2>2, <2>3 DEF Directory!Joins, AcquireExisting, Lookup
    <2> QED BY <2>3, <2>4 DEF Directory!Next
  <1>3. CASE AcquireRefused(c)
    <2>1. LifeLasts /\ Opened' = Opened
      BY <1>3, SameLasts, OpenedLasts DEF AcquireRefused, pipeVars
    <2>2. Directory!Report(c, "refused") /\ Directory!Running(c)
      BY <1>3, Reports, Seen DEF AcquireRefused, Results
    <2>3. Directory!Refuses(c)
      BY <1>3, <2>1, <2>2, SameSize DEF Directory!Refuses, AcquireRefused, Directory!Named, Present
    <2> QED BY <2>3 DEF Directory!Next
  <1>4. CASE SpawnFails(c)
    <2>1. LifeLasts /\ Opened' = Opened
      BY <1>4, SameLasts, OpenedLasts DEF SpawnFails, pipeVars
    <2>2. Directory!Report(c, "unspawned") /\ Directory!Running(c)
      BY <1>4, Reports, Seen DEF SpawnFails, Results
    <2>3. Directory!Vacate(c)
      BY <1>0, <1>4, Seen DEF SpawnFails, Directory!Vacate, Objs, Executing
    <2>4. Directory!Ends(c)
      BY <1>4, <2>1, <2>2, <2>3 DEF Directory!Ends, SpawnFails, Directory!Quietly
    <2> QED BY <2>4 DEF Directory!Next
  <1>5. CASE AcquireNew(c)
    <2>1. life[c] = "none" /\ c \in Objs /\ sid[c] \in Sids
      BY <1>0, <1>5 DEF AcquireNew, MapInv, Objs
    <2>2. Opened' = Opened \cup {c} /\ c \notin Opened
      BY <1>5, <2>1 DEF AcquireNew, Spawn, Opened, TypeOK, PipeTypeOK
    <2>3. UsedBy' = [UsedBy EXCEPT ![c] = c] /\ Outcome' = Outcome
      BY <1>0, <1>5, <2>1 DEF AcquireNew, UsedBy, Outcome, HoldingArc, Executing
    <2>4. Directory!Running(c)
      BY <1>5, Seen DEF AcquireNew
    <2>5. Directory!Opens(c, sid[c])
      BY <1>5, <2>1, <2>2, <2>3, <2>4, SameSize
         DEF Directory!Opens, AcquireNew, Directory!Named, Present, Lookup
    <2> QED BY <2>1, <2>5 DEF Directory!Next
  <1>6. CASE AwaitSession(c) \/ Send(c) \/ ReadOutput(c)
    <2>1. LifeLasts /\ UNCHANGED <<sessions, sessLock, handle>>
      BY <1>6, SameLasts DEF AwaitSession, Send, ReadOutput, WriteRequest, ReadLine, pipeVars
    <2>2. \A d \in Calls :
            /\ pc'[d] \in HoldingArc <=> pc[d] \in HoldingArc
            /\ pc'[d] \in {"release", "done"} <=> pc[d] \in {"release", "done"}
            /\ pc[d] \in {"release", "done"} => result'[d] = result[d]
      BY <1>0, <1>6 DEF AwaitSession, Send, ReadOutput, HoldingArc, Executing
    <2> QED BY <2>1, <2>2, Unseen
  <1>7. CASE LockSession(c)
    <2>1. LifeLasts /\ Opened' = Opened
      BY <1>7, SameLasts, OpenedLasts DEF LockSession, pipeVars
    <2>2. UsedBy' = UsedBy /\ Outcome' = Outcome
      BY <1>0, <1>7 DEF LockSession, UsedBy, Outcome, HoldingArc, Executing
    <2>3. UsedBy[c] = o /\ o \in Opened /\ sessLock[o] = NoCall
      BY <1>7, Seen, PipeAssumption
         DEF LockSession, LockFree, HoldingArc, Opened, MapInv, Objs
    <2>4. Directory!Enters(c)
      BY <1>7, <2>1, <2>2, <2>3 DEF Directory!Enters, LockSession
    <2> QED BY <2>4 DEF Directory!Next
  <1>8. CASE SendFails(c) \/ ReadJunk(c) \/ ReadEof(c) \/ Timeout(c)
    <2>1. /\ pc[c] \in {"send", "read"} /\ Fail(c) /\ ~AcquireNew(c)
      BY <1>8 DEF SendFails, ReadJunk, ReadEof, Timeout, AcquireNew
    <2>2. LifeLasts /\ Opened' = Opened
      BY <2>1, OpenedLasts
    <2>3. UsedBy' = UsedBy /\ Outcome' = Outcome
      BY <1>0, <2>1 DEF Fail, UsedBy, Outcome, HoldingArc, Executing
    <2>4. Directory!Running(c) /\ Directory!IsInside(c)
      BY <2>1, Seen DEF Executing
    <2>5. Directory!Vacate(c)
      BY <2>1, Vacates DEF Fail, Executing
    <2>6. Directory!GivesUp(c)
      BY <2>1, <2>2, <2>3, <2>4, <2>5 DEF Directory!GivesUp, Fail
    <2> QED BY <2>6 DEF Directory!Next
  <1>9. CASE Return(c)
    <2>1. LifeLasts /\ Opened' = Opened
      BY <1>9, OpenedLasts DEF Return, AcquireNew
    <2>2. result[c] = "output"
      BY <1>9 DEF Return, ReturnInv
    <2>3. Finish(c, "output")
      BY <1>0, <1>9, <2>2 DEF Return, Finish
    <2>4. Directory!Report(c, "output") /\ Directory!Running(c) /\ Directory!IsInside(c)
      BY <1>9, <2>3, Reports, Seen DEF Return, Results, Executing
    <2>5. Directory!Vacate(c)
      BY <1>9, Vacates DEF Return, Executing
    <2>6. Directory!Answers(c)
      BY <1>9, <2>1, <2>4, <2>5 DEF Directory!Answers, Return
    <2> QED BY <2>6 DEF Directory!Next
  <1>10. CASE Retire(c)
    <2>1. LifeLasts /\ Opened' = Opened
      BY <1>10, OpenedLasts DEF Retire, AcquireNew
    <2>2. /\ Directory!Report(c, "failed") /\ Directory!Running(c) /\ ~Directory!IsInside(c)
          /\ UsedBy[c] = o /\ o \in Objs
      BY <1>10, Reports, Seen DEF Retire, Results, Executing, HoldingArc
    <2>3. \A t \in Sids : sessions'[t] # o
      BY <1>0, <1>10, <2>2, PipeAssumption
         DEF Retire, Unmap, MapInv, Present, HoldingArc, Objs
    <2>4. UsedBy[c] # NoCall
      BY <2>2, PipeAssumption DEF Objs
    <2>5. Directory!Fails(c, sid[c])
      BY <1>10, <2>1, <2>2, <2>3, <2>4 DEF Directory!Fails, Retire, Unmap
    <2> QED BY <1>0, <2>5 DEF Directory!Next
  <1> QED BY <1>1, <1>2, <1>3, <1>4, <1>5, <1>6, <1>7, <1>8, <1>9, <1>10 DEF ExecuteStep

\* The other tools, pip and cancelled calls.
LEMMA ToolMaps ==
  ASSUME SharedInv, TypeOK', NEW c \in Calls, ToolStep(c) \/ PipStep(c) \/ Cancel(c), LifeLasts
  PROVE  [Directory!Next]_(Directory!vars)
  <1> USE DEF SharedInv, Goto
  <1>0. /\ pc \in [Calls -> Pcs] /\ handle \in [Calls -> Objs \cup {NoCall}]
        /\ sid \in [Calls -> Sids] /\ result \in [Calls -> Results]
        /\ sessions \in [Sids -> Objs \cup {NoCall}]
        /\ sessLock \in [Objs -> Calls \cup {NoCall}]
    BY DEF TypeOK
  <1>1. Opened' = Opened
    BY OpenedLasts
  \* A call that ends and whose answer nobody else can see.
  <1>2. ASSUME NEW r \in Directory!Quietly, Finish(c, r), pc[c] \notin {"release", "done"}, UNCHANGED <<sessions, handle>>,
               Directory!Vacate(c)
        PROVE  Directory!Next
    <2>1. r \in Results
      BY DEF Directory!Quietly, Results
    <2>2. Directory!Report(c, r) /\ Directory!Running(c)
      BY <1>2, <2>1, Reports, Seen
    <2>3. Directory!Ends(c)
      BY <1>1, <1>2, <2>2 DEF Directory!Ends
    <2> QED BY <2>3 DEF Directory!Next
  <1>3. ASSUME pc[c] \notin Executing, UNCHANGED sessLock
        PROVE  Directory!Vacate(c)
    BY <1>0, <1>3, Seen DEF Directory!Vacate, Objs
  <1>4. CASE Reset(c)
    <2>1. Directory!Running(c) /\ sid[c] \in Sids
      BY <1>0, <1>4, Seen DEF Reset
    <2>2. Directory!Report(c, IF sessions[sid[c]] # NoCall THEN "reset" ELSE "absent")
      BY <1>0, <1>4, Settles DEF Reset, Lookup, Results
    <2>3. Directory!Deletes(c, sid[c])
      BY <1>1, <1>4, <2>1, <2>2 DEF Directory!Deletes, Reset, Unmap
    <2> QED BY <2>1, <2>3 DEF Directory!Next
  <1>5. CASE ListSnapshot(c) \/ ListEntry(c) \/ InstallLookup(c) \/ InstallGlobal(c) \/ InstallPath(c)
    <2>1. /\ UNCHANGED <<sessions, sessLock, result>>
          /\ \A d \in Calls : d # c => pc'[d] = pc[d] /\ handle'[d] = handle[d]
          /\ pc[c] \in {"list", "listing", "install", "path"} /\ pc'[c] \in {"listing", "path", "pip"}
      BY <1>0, <1>5 DEF ListSnapshot, ListEntry, InstallLookup, InstallGlobal, InstallPath
    <2>2. \A d \in Calls :
            /\ pc'[d] \in HoldingArc <=> pc[d] \in HoldingArc
            /\ pc[d] \in HoldingArc => handle'[d] = handle[d]
            /\ pc'[d] \in {"release", "done"} <=> pc[d] \in {"release", "done"}
            /\ pc[d] \in {"release", "done"} => result'[d] = result[d]
      BY <2>1 DEF HoldingArc, Executing
    <2> QED BY <2>1, <2>2, Unseen
  <1>6. CASE ListReturn(c)
    BY <1>2, <1>3, <1>6 DEF ListReturn, Directory!Quietly, Executing
  <1>7. CASE InstallUnknown(c)
    BY <1>2, <1>3, <1>7 DEF InstallUnknown, Directory!Quietly, Executing
  <1>8. CASE PipSucceeds(c)
    BY <1>2, <1>3, <1>8 DEF PipSucceeds, Directory!Quietly, Executing
  <1>9. CASE PipFails(c)
    BY <1>2, <1>3, <1>9 DEF PipFails, Directory!Quietly, Executing
  <1>10. CASE Cancel(c)
    <2>1. Directory!Vacate(c)
      BY <1>10 DEF Cancel, Directory!Vacate, Objs
    <2> QED BY <1>2, <1>10, <2>1 DEF Cancel, Directory!Quietly
  <1>11. CASE ResetDrops(c)
    <2>1. \A d \in Calls :
            /\ pc'[d] \in HoldingArc <=> pc[d] \in HoldingArc
            /\ pc'[d] \in {"release", "done"} <=> pc[d] \in {"release", "done"}
      BY <1>0, <1>11 DEF ResetDrops, HoldingArc, Executing
    <2> QED BY <1>0, <1>11, <2>1, Unseen DEF ResetDrops
  <1> QED BY <1>4, <1>5, <1>6, <1>7, <1>8, <1>9, <1>10, <1>11 DEF ToolStep, PipStep

\* The server implements the directory: whatever its locks, queues, pipes, Arcs,
\* cancelled calls and reaper do, for any calls, ids and limit, is a step of the
\* directory or cannot be seen.
THEOREM DirectoryImplemented == Spec => DirectorySpec
  <1>1. Init => Directory!Init
    <2> SUFFICES ASSUME Init
                 PROVE  Directory!Init
      OBVIOUS
    <2>1. UsedBy = [c \in Calls |-> NoCall]
      BY DEF Init, UsedBy, EntryPcs, HoldingArc, Executing
    <2>2. Opened = {}
      BY DEF Init, PipeInit, Opened
    <2>3. Outcome = [c \in Calls |-> "none"]
      BY DEF Init, Outcome, EntryPcs
    <2> QED BY <2>1, <2>2, <2>3 DEF Init, Directory!Init, Objs
  <1>2. SharedInv /\ SharedInv' /\ ReturnInv /\ [Next]_vars => [Directory!Next]_(Directory!vars)
    <2> SUFFICES ASSUME SharedInv, SharedInv', ReturnInv, [Next]_vars
                 PROVE  [Directory!Next]_(Directory!vars)
      OBVIOUS
    <2>0. TypeOK /\ TypeOK'
      BY DEF SharedInv
    <2>1. LifeLasts \/ \E c \in Calls : AcquireNew(c)
      BY <2>0, LivesLast
    <2>2. CASE \E c \in Calls : AcquireNew(c)
      BY <2>0, <2>2, ExecuteMaps DEF ExecuteStep
    <2>3. ASSUME LifeLasts, NEW c \in Calls, ExecuteStep(c) \/ ToolStep(c) \/ PipStep(c) \/ Cancel(c)
          PROVE  [Directory!Next]_(Directory!vars)
      BY <2>0, <2>3, ExecuteMaps, ToolMaps
    <2>4. CASE LifeLasts /\ UNCHANGED <<sessions, sessLock, pc, handle, result>>
      BY <2>0, <2>4, Unseen
    <2>5. ASSUME NEW o \in Objs, PipeStep(o) \/ Age(o)
          PROVE  UNCHANGED <<sessions, sessLock, pc, handle, result>>
      BY <2>5 DEF PipeStep, Age, serverVars
    <2>6. CASE LifeLasts /\ Reaper
      <3>1. UNCHANGED <<sessLock, UsedBy, Outcome>>
        BY <2>6 DEF Reaper, UsedBy, Outcome
      <3> QED BY <2>6, <3>1, SweepMaps DEF Reaper
    <2>7. CASE UNCHANGED vars
      <3>1. UNCHANGED <<sessions, sessLock, pc, handle, result>> /\ UNCHANGED life
        BY <2>7 DEF vars, serverVars, pipeVars
      <3> QED BY <2>0, <2>4, <3>1, SameLasts
    <2> QED BY <2>1, <2>2, <2>3, <2>4, <2>5, <2>6, <2>7 DEF Next
  <1>3. TypeOK /\ ReturnInv /\ [Next]_vars => ReturnInv'
    BY ReturnStep
  <1>4. SharedInv => TypeOK
    BY DEF SharedInv
  <1> QED BY <1>1, <1>2, <1>3, <1>4, ReturnInit, SharedInvariant, PTL DEF Spec, DirectorySpec, Directory!Spec

\* Only an opener gives an id to a session, and to one that was not born before.
LEMMA OnlyOpeningNames ==
  ASSUME TypeOK, Directory!Next, NEW o \in Opened, NEW s \in Sids, sessions'[s] = o
  PROVE  \E t \in Sids : sessions[t] = o
  <1> USE PipeAssumption DEF TypeOK, Opened, Objs
  <1>1. ASSUME NEW c \in Calls,
               Directory!Enters(c) \/ Directory!Answers(c) \/ Directory!GivesUp(c)
                  \/ Directory!Refuses(c) \/ Directory!Ends(c)
        PROVE  UNCHANGED sessions
    BY <1>1 DEF Directory!Enters, Directory!Answers, Directory!GivesUp, Directory!Refuses,
                Directory!Ends
  <1>2. ASSUME NEW c \in Calls, NEW t \in Sids, Directory!Opens(c, t)
        PROVE  c \notin Opened /\ sessions' = [sessions EXCEPT ![t] = c]
    BY <1>2 DEF Directory!Opens
  <1>3. ASSUME NEW c \in Calls, NEW t \in Sids,
               Directory!Joins(c, t) \/ Directory!Fails(c, t) \/ Directory!Deletes(c, t)
        PROVE  UNCHANGED sessions \/ sessions' = [sessions EXCEPT ![t] = NoCall]
    BY <1>3 DEF Directory!Joins, Directory!Fails, Directory!Deletes
  <1>4. ASSUME NEW S \in SUBSET Sids, Directory!Forgets(S)
        PROVE  \A t \in Sids : sessions'[t] \in {sessions[t], NoCall}
    BY <1>4 DEF Directory!Forgets
  <1> QED BY <1>1, <1>2, <1>3, <1>4 DEF Directory!Next

\* A session that has lost its id, by a reset, a retirement or a sweep, never
\* has one again: proved of the directory, and so true of the server.
THEOREM NamesStayLost == Spec => Directory!NeverNamedAgain
  <1>1. TypeOK /\ [Directory!Next]_(Directory!vars)
          => [\A o \in Opened : (\E s \in Sids : sessions'[s] = o)
                                 => \E s \in Sids : sessions[s] = o]_(Directory!vars)
    BY OnlyOpeningNames
  <1> QED BY <1>1, DirectoryImplemented, TypeCorrect, PTL
          DEF DirectorySpec, Directory!Spec, Directory!NeverNamedAgain

------------------------------------------------------------------------------
(* What sessions hold on to: workers, work directories, Arcs; and the whole
   invariant IInv of SessionInvariant. *)

\* A session keeps what refers to it.
ReferencesKept == \A o \in Objs : life[o] \in {"open", "killed"} /\ Referenced(o) => Referenced(o)'

\* What every step but the creation of a session, the installation of a package
\* and the snapshot does to the resources.
ResourcesRest ==
    /\ \A o \in Objs : life'[o] \in {"open", "killed"} => life[o] \in {"open", "killed"} /\ Referenced(o)'
    /\ \A o \in Objs : worker'[o] = "alive" => worker[o] = "alive" /\ life'[o] = life[o]
    /\ \A o \in Objs : o \in workdirs' => o \in workdirs /\ (life'[o] = "dropped" => life[o] = "dropped")
    /\ \A o \in Objs : o \in workdirs /\ life'[o] \in {"open", "killed"} => o \in workdirs'
    /\ \A c \in Calls : result[c] \in PipEnds => result'[c] \in PipEnds /\ handle'[c] = handle[c]

\* A step that drops the objects nobody refers to any more.
LEMMA DropRests ==
  ASSUME TypeOK, DropUnreferenced,
         \A c \in Calls : result[c] \in PipEnds => result'[c] \in PipEnds /\ handle'[c] = handle[c]
  PROVE  ResourcesRest
  <1> DEFINE S == {o \in Objs : life[o] \in {"open", "killed"} /\ ~Referenced(o)'}
  <1>1. /\ life' = [o \in Objs |-> IF o \in S THEN "dropped" ELSE life[o]]
        /\ worker' = [o \in Objs |-> IF o \in S THEN "dead" ELSE worker[o]]
        /\ workdirs' = workdirs \ S
    BY DEF DropUnreferenced, Drop, Sever
  <1>2. \A o \in Objs : o \in S <=> life[o] \in {"open", "killed"} /\ ~Referenced(o)'
    OBVIOUS
  <1> HIDE DEF S
  <1> QED BY <1>1, <1>2 DEF ResourcesRest

\* A step that leaves objects and directories alone.
LEMMA SameRests ==
  ASSUME TypeOK, ResourceInv, UNCHANGED <<life, workdirs>>, ReferencesKept,
         \A o \in Objs : worker'[o] = "alive" => worker[o] = "alive",
         \A c \in Calls : result[c] \in PipEnds => result'[c] \in PipEnds /\ handle'[c] = handle[c]
  PROVE  ResourcesRest
  BY DEF ResourcesRest, ReferencesKept, ResourceInv

LEMMA ResourcesKept ==
  ASSUME TypeOK, ResourceInv, ResourcesRest, LifeLasts,
         \A c \in Calls : pc'[c] \notin {"release", "listing"} => snapshot'[c] = {}
  PROVE  ResourceInv'
  <1>1. (\A o \in Objs : life[o] \in {"open", "killed"} => Referenced(o))'
    BY DEF ResourcesRest
  <1>2. (\A o \in Objs : worker[o] = "alive" => life[o] = "open")'
    BY DEF ResourcesRest, ResourceInv
  <1>3. (\A o \in Objs : o \in workdirs => life[o] # "none")'
    BY DEF ResourcesRest, ResourceInv, LifeLasts
  <1>4. WorkdirsAccounted'
    BY DEF ResourcesRest, ResourceInv, WorkdirsAccounted
  <1> QED BY <1>1, <1>2, <1>3, <1>4 DEF ResourceInv

\* References that are not given up.
LEMMA ReferencesStay ==
  ASSUME TypeOK, UNCHANGED sessions,
         \A c \in Calls : pc[c] \in HoldingArc => pc'[c] \in HoldingArc /\ handle'[c] = handle[c],
         \A c \in Calls : snapshot[c] \subseteq snapshot'[c]
  PROVE  ReferencesKept
  BY DEF ReferencesKept, Referenced, Mapped, Present

LEMMA ResourceExecute ==
  ASSUME SharedInv, ResourceInv, NEW c \in Calls, ExecuteStep(c), ~AcquireNew(c), LifeLasts
  PROVE  ResourceInv'
  <1> USE DEF SharedInv, TypeOK, Goto, Finish
  <1>0. /\ pc[c] # "return" => result[c] = "none"
        /\ pc[c] \notin {"release", "listing", "done"}
    BY DEF MapInv, ExecuteStep, Sweep, AcquireExisting, AcquireRefused, SpawnFails, AwaitSession,
           LockSession, Send, SendFails, ReadOutput, ReadJunk, ReadEof, Timeout, Return, Retire
  <1>1. CASE Sweep(c) \/ Return(c) \/ Retire(c)
    <2>1. DropUnreferenced
      BY <1>1 DEF Sweep, CleanupExpired, Return, Retire
    <2>2. \A d \in Calls : result[d] \in PipEnds => result'[d] \in PipEnds /\ handle'[d] = handle[d]
      BY <1>0, <1>1 DEF Sweep, Return, Retire, PipEnds
    <2>3. \A d \in Calls : pc'[d] \notin {"release", "listing"} => snapshot'[d] = {}
      BY <1>0, <1>1 DEF Sweep, Return, Retire, ResourceInv
    <2> QED BY <2>1, <2>2, <2>3, DropRests, ResourcesKept
  <1>2. CASE Timeout(c)
    <2>1. handle[c] \in Objs /\ Fail(c)
      BY <1>2 DEF Timeout, LockInv, HoldingArc, Executing
    <2>2. ReferencesKept
      BY <1>2, <2>1, ReferencesStay DEF Fail, Timeout, HoldingArc, Executing
    <2>3. /\ life' = [o \in Objs |-> IF o = handle[c] THEN "killed" ELSE life[o]]
          /\ worker' = [o \in Objs |-> IF o = handle[c] THEN "dead" ELSE worker[o]]
          /\ life[handle[c]] = "open" /\ UNCHANGED <<workdirs, result, handle, snapshot>>
      BY <1>2, <2>1 DEF Timeout, Kill, Sever, Fail
    <2>4. ResourcesRest
      BY <2>2, <2>3 DEF ResourcesRest, ReferencesKept, ResourceInv, PipeTypeOK
    <2>5. \A d \in Calls : pc'[d] \notin {"release", "listing"} => snapshot'[d] = {}
      BY <1>0, <2>1, <2>3 DEF Fail, ResourceInv
    <2> QED BY <2>4, <2>5, ResourcesKept
  <1>3. CASE ~(Sweep(c) \/ Return(c) \/ Retire(c) \/ Timeout(c))
    <2>1. UNCHANGED <<life, worker, workdirs, sessions, snapshot>>
      BY <1>3 DEF ExecuteStep, AcquireExisting, AcquireRefused, SpawnFails, AwaitSession,
         LockSession, Send, SendFails, ReadOutput, ReadJunk, ReadEof, Fail, WriteRequest, ReadLine,
         pipeVars
    <2>2. /\ \A d \in Calls : d # c => pc'[d] = pc[d] /\ handle'[d] = handle[d] /\ result'[d] = result[d]
          /\ pc[c] \in HoldingArc => pc'[c] \in HoldingArc /\ handle'[c] = handle[c]
          /\ pc[c] # "return"
      BY <1>3 DEF ExecuteStep, AcquireExisting, AcquireRefused, SpawnFails, AwaitSession,
         LockSession, Send, SendFails, ReadOutput, ReadJunk, ReadEof, Fail, HoldingArc, Executing
    <2>3. ReferencesKept
      BY <2>1, <2>2, ReferencesStay
    <2>4. ResourcesRest
      BY <1>0, <2>1, <2>2, <2>3, SameRests DEF PipEnds
    <2> QED BY <1>0, <2>1, <2>2, <2>4, ResourcesKept DEF ResourceInv
  <1> QED BY <1>1, <1>2, <1>3

LEMMA ResourceAcquire ==
  ASSUME SharedInv, ResourceInv, NEW c \in Calls, AcquireNew(c)
  PROVE  ResourceInv'
  <1>0. life[c] = "none" /\ result[c] = "none"
    BY DEF AcquireNew, SharedInv, MapInv
  <1>1. \A d \in Calls : handle[d] # c
    BY <1>0, PipeAssumption DEF SharedInv, MapInv
  <1> USE PipeAssumption DEF SharedInv, TypeOK, PipeTypeOK, Objs, Goto, AcquireNew, Spawn, Lookup
  <1>2. \A o \in Objs : o # c /\ Referenced(o) => Referenced(o)'
    BY DEF Referenced, Mapped, Present, HoldingArc, Executing
  <1>3. Referenced(c)'
    BY DEF Referenced, HoldingArc
  <1>4. (\A o \in Objs : life[o] \in {"open", "killed"} => Referenced(o))'
    BY <1>2, <1>3 DEF ResourceInv
  <1>5. (\A o \in Objs : worker[o] = "alive" => life[o] = "open")'
    BY DEF ResourceInv
  <1>6. (\A o \in Objs : o \in workdirs => life[o] # "none")'
    BY DEF ResourceInv
  <1>7. (\A d \in Calls : pc[d] \notin {"release", "listing"} => snapshot[d] = {})'
    BY DEF ResourceInv
  <1>8. WorkdirsAccounted'
    <2>1. /\ UNCHANGED result /\ \A d \in Calls : d # c => handle'[d] = handle[d]
          /\ workdirs' = workdirs \cup {c} /\ life'[c] = "open"
          /\ \A o \in Objs : o # c => life'[o] = life[o]
      OBVIOUS
    <2>2. ASSUME NEW o \in Objs, life'[o] \in {"open", "killed"}
          PROVE  o \in workdirs'
      BY <2>1, <2>2 DEF ResourceInv, WorkdirsAccounted
    <2>3. ASSUME NEW o \in Objs, o \in workdirs', life'[o] = "dropped"
          PROVE  \E d \in Calls : result'[d] \in PipEnds /\ handle'[d] = o
      <3>1. o # c /\ o \in workdirs /\ life[o] = "dropped"
        BY <2>1, <2>3
      <3>2. PICK d \in Calls : result[d] \in PipEnds /\ handle[d] = o
        BY <3>1 DEF ResourceInv, WorkdirsAccounted
      <3>3. d # c
        BY <1>0, <3>2 DEF PipEnds
      <3> QED BY <2>1, <3>2, <3>3
    <2> QED BY <2>2, <2>3 DEF WorkdirsAccounted
  <1> QED BY <1>4, <1>5, <1>6, <1>7, <1>8 DEF ResourceInv

LEMMA ResourceTool ==
  ASSUME SharedInv, ResourceInv, NEW c \in Calls, ToolStep(c) \/ PipStep(c) \/ Cancel(c), LifeLasts
  PROVE  ResourceInv'
  <1> USE DEF SharedInv, TypeOK, Goto, Finish
  <1>0. /\ pc[c] \notin {"return", "done"} /\ (pc[c] = "release" \/ result[c] = "none")
    BY DEF MapInv, ToolStep, PipStep, Cancel, Reset, ResetDrops, ListSnapshot, ListEntry, ListReturn,
       InstallLookup, InstallUnknown, InstallGlobal, InstallPath, PipSucceeds, PipFails
  <1>1. CASE ResetDrops(c) \/ ListEntry(c)
    <2>1. DropUnreferenced
      BY <1>1 DEF ResetDrops, ListEntry
    <2>2. \A d \in Calls : result[d] \in PipEnds => result'[d] \in PipEnds /\ handle'[d] = handle[d]
      BY <1>0, <1>1 DEF ResetDrops, ListEntry
    <2>3. \A d \in Calls : pc'[d] \notin {"release", "listing"} => snapshot'[d] = {}
      BY <1>0, <1>1 DEF ResetDrops, ListEntry, ResourceInv
    <2> QED BY <2>1, <2>2, <2>3, DropRests, ResourcesKept
  <1>2. CASE Cancel(c)
    <2>1. DropUnreferenced /\ pc[c] \notin {"release", "listing"}
      BY <1>2 DEF Cancel
    <2>2. \A d \in Calls : result[d] \in PipEnds => result'[d] \in PipEnds /\ handle'[d] = handle[d]
      BY <1>0, <1>2 DEF Cancel, PipEnds
    <2>3. \A d \in Calls : pc'[d] \notin {"release", "listing"} => snapshot'[d] = {}
      BY <1>2, <2>1 DEF Cancel, ResourceInv
    <2> QED BY <2>1, <2>2, <2>3, DropRests, ResourcesKept
  <1>3. CASE PipSucceeds(c) \/ PipFails(c)
    <2>1. /\ UNCHANGED <<life, worker, sessions, snapshot, handle>> /\ pc[c] = "pip"
          /\ pc' = [pc EXCEPT ![c] = "done"]
          /\ \E r \in PipEnds : result' = [result EXCEPT ![c] = r]
          /\ workdirs' \in {workdirs, workdirs \cup ({handle[c]} \ {NoCall})}
      BY <1>3 DEF PipSucceeds, PipFails, PipEnds
    <2>2. ReferencesKept
      BY <2>1, ReferencesStay DEF HoldingArc, Executing
    <2>3. (\A o \in Objs : life[o] \in {"open", "killed"} => Referenced(o))'
      BY <2>1, <2>2 DEF ReferencesKept, ResourceInv
    <2>4. (\A o \in Objs : worker[o] = "alive" => life[o] = "open")'
      BY <2>1 DEF ResourceInv
    <2>5. (\A o \in Objs : o \in workdirs => life[o] # "none")'
      BY <2>1 DEF ResourceInv, MapInv
    <2>6. (\A d \in Calls : pc[d] \notin {"release", "listing"} => snapshot[d] = {})'
      BY <2>1 DEF ResourceInv
    <2>7. WorkdirsAccounted'
      BY <1>0, <2>1 DEF ResourceInv, WorkdirsAccounted
    <2> QED BY <2>3, <2>4, <2>5, <2>6, <2>7 DEF ResourceInv
  <1>4. CASE ~(ResetDrops(c) \/ ListEntry(c) \/ Cancel(c) \/ PipSucceeds(c) \/ PipFails(c) \/ Reset(c))
    <2>1. UNCHANGED <<life, worker, workdirs, sessions>>
      BY <1>4 DEF ToolStep, PipStep, ListSnapshot, ListReturn, InstallLookup, InstallUnknown,
         InstallGlobal, InstallPath, pipeVars
    <2>2. /\ \A d \in Calls : d # c => /\ pc'[d] = pc[d] /\ handle'[d] = handle[d]
                                      /\ result'[d] = result[d] /\ snapshot'[d] = snapshot[d]
          /\ pc[c] \notin HoldingArc /\ pc[c] # "release"
          /\ snapshot[c] \subseteq snapshot'[c]
          /\ pc'[c] \notin {"release", "listing"} => snapshot'[c] = {}
      BY <1>4 DEF ToolStep, PipStep, ListSnapshot, ListReturn, InstallLookup, InstallUnknown,
         InstallGlobal, InstallPath, pipeVars, ResourceInv, HoldingArc, Executing
    <2>3. ReferencesKept
      BY <2>1, <2>2, ReferencesStay
    <2>4. ResourcesRest
      BY <1>0, <2>1, <2>2, <2>3, SameRests DEF PipEnds
    <2> QED BY <2>2, <2>4, ResourcesKept DEF ResourceInv
  <1>5. CASE Reset(c)
    <2>1. /\ UNCHANGED <<life, worker, workdirs>> /\ pc[c] = "reset" /\ pc'[c] = "release"
          /\ sessions' = [sessions EXCEPT ![sid[c]] = NoCall]
          /\ snapshot' = [snapshot EXCEPT ![c] = {sessions[sid[c]]} \ {NoCall}]
          /\ \A d \in Calls : d # c => /\ pc'[d] = pc[d] /\ handle'[d] = handle[d]
                                      /\ result'[d] = result[d] /\ snapshot'[d] = snapshot[d]
      BY <1>5 DEF Reset, Unmap, Lookup, pipeVars
    <2>2. ASSUME NEW o \in Objs, Referenced(o)
          PROVE  Referenced(o)'
      <3>1. CASE o \in Mapped
        <4>1. PICK s \in Sids : sessions[s] = o
          BY <3>1 DEF Mapped, Present
        <4>2. CASE s = sid[c]
          BY <2>1, <4>1, <4>2, PipeAssumption DEF Referenced, Objs
        <4>3. CASE s # sid[c]
          BY <2>1, <4>1, <4>3, PipeAssumption DEF Referenced, Mapped, Present, Objs
        <4> QED BY <4>2, <4>3
      <3>2. CASE \E d \in Calls : pc[d] \in HoldingArc /\ handle[d] = o
        BY <2>1, <3>2 DEF Referenced, HoldingArc, Executing
      <3>3. CASE \E d \in Calls : o \in snapshot[d]
        BY <2>1, <3>3 DEF Referenced, ResourceInv
      <3> QED BY <2>2, <3>1, <3>2, <3>3 DEF Referenced
    <2>3. ReferencesKept
      BY <2>2 DEF ReferencesKept
    <2>4. \A d \in Calls : result[d] \in PipEnds => result'[d] \in PipEnds /\ handle'[d] = handle[d]
      BY <1>0, <2>1 DEF PipEnds
    <2>5. ResourcesRest
      BY <2>1, <2>3, <2>4, SameRests
    <2>6. \A d \in Calls : pc'[d] \notin {"release", "listing"} => snapshot'[d] = {}
      BY <2>1 DEF ResourceInv
    <2> QED BY <2>5, <2>6, ResourcesKept
  <1> QED BY <1>1, <1>2, <1>3, <1>4, <1>5

LEMMA ResourceStep ==
  ASSUME SharedInv, SharedInv', ResourceInv, [Next]_vars
  PROVE  ResourceInv'
  <1>0. TypeOK /\ TypeOK'
    BY DEF SharedInv
  <1>1. LifeLasts \/ \E c \in Calls : AcquireNew(c)
    BY <1>0, LivesLast
  <1>2. CASE \E c \in Calls : AcquireNew(c)
    BY <1>2, ResourceAcquire
  <1>3. ASSUME NEW c \in Calls, LifeLasts, ExecuteStep(c) \/ ToolStep(c) \/ PipStep(c) \/ Cancel(c)
        PROVE  ResourceInv'
    BY <1>2, <1>3, ResourceExecute, ResourceTool
  <1>4. CASE /\ UNCHANGED <<life, workdirs, sessions, snapshot, pc, handle, result>> /\ LifeLasts
             /\ \A o \in Objs : worker'[o] = "alive" => worker[o] = "alive"
    <2>1. ReferencesKept
      BY <1>0, <1>4, ReferencesStay
    <2> QED BY <1>0, <1>4, <2>1, SameRests, ResourcesKept DEF ResourceInv
  <1>5. ASSUME NEW o \in Objs, PipeStep(o) \/ Age(o)
        PROVE  /\ UNCHANGED <<life, workdirs, sessions, snapshot, pc, handle, result>>
               /\ \A p \in Objs : worker'[p] = "alive" => worker[p] = "alive"
    BY <1>0, <1>5 DEF PipeStep, WorkerStep, WorkerReads, WorkerResponds, WorkerStray, WorkerGarbles,
              WorkerDies, Age, pipeVars, serverVars, TypeOK, PipeTypeOK
  <1>6. CASE LifeLasts /\ Reaper
    <2>1. DropUnreferenced /\ UNCHANGED <<pc, handle, result, snapshot>>
      BY <1>6 DEF Reaper, CleanupExpired
    <2> QED BY <1>0, <1>6, <2>1, DropRests, ResourcesKept DEF ResourceInv
  <1>7. CASE UNCHANGED vars
    BY <1>0, <1>4, <1>7, SameLasts DEF vars, pipeVars, serverVars
  <1> QED BY <1>1, <1>2, <1>3, <1>4, <1>5, <1>6, <1>7 DEF Next

LEMMA ResourceInit == Init => ResourceInv
  BY DEF Init, PipeInit, ResourceInv, WorkdirsAccounted, Objs

LEMMA ResourceInvariant == Spec => [](SharedInv /\ ResourceInv)
  <1>1. SharedInv /\ SharedInv' /\ ResourceInv /\ [Next]_vars => ResourceInv'
    BY ResourceStep
  <1> QED BY <1>1, ResourceInit, SharedInvariant, PTL DEF Spec

\* Every worker outside the map is in the hands of a call: the limit is exceeded
\* by no more than the calls in flight account for.
THEOREM WorkersAccounted == Spec => []UnmappedWorkersInUse
  <1>1. ResourceInv => UnmappedWorkersInUse
    BY DEF ResourceInv, UnmappedWorkersInUse, Referenced
  <1> QED BY <1>1, ResourceInvariant, PTL

\* A work directory without a session was made again by an installation.
THEOREM DirectoriesAccounted == Spec => []WorkdirsAccounted
  <1>1. ResourceInv => WorkdirsAccounted
    BY DEF ResourceInv
  <1> QED BY <1>1, ResourceInvariant, PTL

\* The whole invariant, with its conditional parts.
THEOREM InvariantHolds == Spec => []IInv
  <1>1. Init => IInv
    <2>1. Init => SharedInv
      BY TypeInit, LockInit, MapInit, LimitInit DEF SharedInv, MapPart
    <2>2. Init => KilledSessionRetiring
      BY PipeAssumption DEF Init, KilledSessionRetiring, Mapped, Present
    <2>3. Init => PipeInv
      BY DEF Init, PipeInit, PipeInv, Quiet, ReplyPairs, EntryPcs
    <2> QED BY <2>1, <2>2, <2>3, ReturnInit, ResourceInit DEF IInv, RetireInv, ReplyInv
  <1>2. IInv /\ [Next]_vars => IInv'
    <2> SUFFICES ASSUME IInv, [Next]_vars
                 PROVE  IInv'
      OBVIOUS
    <2>1. SharedInv /\ SharedInv'
      BY TypeStep, LockStep, MapStep, LimitStep DEF IInv, SharedInv, MapPart
    <2>2. ReturnInv'
      BY <2>1, ReturnStep DEF IInv, SharedInv
    <2>3. ResourceInv'
      BY <2>1, ResourceStep DEF IInv
    <2>4. RetireInv'
      BY <2>1, RetireStep DEF IInv, RetireInv
    <2>5. ReplyInv'
      BY <2>1, PipeInvStep DEF IInv, ReplyInv, Orderly
    <2> QED BY <2>1, <2>2, <2>3, <2>4, <2>5 DEF IInv
  <1> QED BY <1>1, <1>2, PTL DEF Spec
==============================================================================
