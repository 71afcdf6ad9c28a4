--------------------------- MODULE ReplWorkerProofs ---------------------------
(***************************************************************************)
(* One response to each line, every text in one place, and the worker      *)
(* implements ReplSession: the theorems behind the properties of           *)
(* ReplWorker, for any user code, any lines and any number of them.        *)
(***************************************************************************)
EXTENDS ReplWorker, SequenceTheorems, TLAPS

\* The fields of a response.
Responses == [to : Requests, more : BOOLEAN, error : Errors, vars : SUBSET Names]

-------------------------------------------------------------------------------
(* Types. *)

LEMMA Bounds == MaxRequests \in Nat
BY WorkerAssumption

LEMMA FreshType == Session!Fresh \in [Names -> 0..MaxRequests]
<1>1. 0 \in 0..MaxRequests
    BY Bounds
<1> QED
    BY <1>1 DEF Session!Fresh

LEMMA TypeInit == Init => TypeOK
<1> SUFFICES ASSUME Init PROVE TypeOK
    OBVIOUS
<1>1. namespace \in [Names -> 0..MaxRequests] /\ settled \in [Names -> 0..MaxRequests]
    BY FreshType DEF Init
<1>2. /\ <<>> \in Seq(Requests) /\ <<>> \in Seq(Texts) /\ <<>> \in Seq(Responses)
      /\ <<>> \in Seq(Seq(Texts)) /\ Len(<<>>) = 0
    OBVIOUS
<1>3. /\ inbox \in Seq(Requests) /\ sent \in Seq(Requests) /\ Len(sent) <= MaxRequests
      /\ Len(log) + (IF phase = "run" THEN 1 ELSE 0) <= Taken
    BY <1>2, Bounds DEF Init, Taken
<1> QED
    BY <1>1, <1>2, <1>3 DEF Init, TypeOK, Errors, Responses

\* A line is taken off the pipe.
LEMMA ReadsLine ==
    ASSUME TypeOK, NEW K, Reads(K), sent' = sent
    PROVE  /\ Head(inbox) \in Requests /\ Head(inbox).kind \in K
           /\ inbox' \in Seq(Requests) /\ Len(inbox') = Len(inbox) - 1
           /\ Taken' = Taken + 1 /\ Len(log) + 1 <= Taken' /\ Len(log) <= Taken'
           /\ Len(log) + 1 \in 1..MaxRequests
           /\ phase = "idle"
<1>1. inbox \in Seq(Requests) /\ inbox # <<>>
    BY DEF Reads, TypeOK
<1>2. /\ Head(inbox) \in Requests /\ Tail(inbox) \in Seq(Requests)
      /\ Len(Tail(inbox)) = Len(inbox) - 1
    BY <1>1, HeadTailProperties
<1>3. Len(inbox) \in Nat /\ Len(sent) \in Nat /\ Len(log) \in Nat /\ Len(inbox') \in Nat
    BY <1>1, <1>2 DEF TypeOK, Reads
<1>4. Len(inbox') = Len(inbox) - 1 /\ phase = "idle"
    BY <1>2 DEF Reads
<1>5. Len(sent) <= MaxRequests /\ Len(log) <= Len(sent) - Len(inbox)
    BY <1>4 DEF TypeOK, Taken
<1>6. /\ Taken' = Taken + 1 /\ Len(log) + 1 <= Taken' /\ Len(log) <= Taken'
      /\ Len(log) + 1 \in 1..MaxRequests
    BY <1>3, <1>4, <1>5, Bounds DEF Taken
<1> QED
    BY <1>2, <1>4, <1>6 DEF Reads

\* A response to r, whatever it says.
Responds(r) ==
    /\ \E response \in Responses : response.to = r /\ log' = Append(log, response)
    /\ shown' = Append(shown, out) /\ out' = <<>>
    /\ settled' = namespace' /\ error' = "none"

\* The log and the pages after a response.
LEMMA RespondsTypes ==
    ASSUME TypeOK, NEW STATE r, Responds(r)
    PROVE  /\ log' \in Seq(Responses) /\ Len(log') = Len(log) + 1
           /\ shown' \in Seq(Seq(Texts)) /\ Len(shown') = Len(log) + 1
           /\ \A i \in 1..Len(log) : log'[i] = log[i] /\ shown'[i] = shown[i]
           /\ log'[Len(log) + 1].to = r /\ shown'[Len(log) + 1] = out
           /\ Len(log) \in Nat
<1>1. /\ log \in Seq(Responses) /\ shown \in Seq(Seq(Texts)) /\ out \in Seq(Texts)
      /\ Len(shown) = Len(log)
    BY DEF TypeOK, Responses
<1>2. PICK response \in Responses : response.to = r /\ log' = Append(log, response)
    BY DEF Responds
<1>3. shown' = Append(shown, out)
    BY DEF Responds
<1>4. Len(log) \in Nat
    BY <1>1
<1>5. /\ log' \in Seq(Responses) /\ Len(log') = Len(log) + 1
      /\ \A i \in 1..Len(log) : log'[i] = log[i]
      /\ log'[Len(log) + 1] = response
    BY <1>1, <1>2, AppendProperties
<1>6. /\ shown' \in Seq(Seq(Texts)) /\ Len(shown') = Len(log) + 1
      /\ \A i \in 1..Len(log) : shown'[i] = shown[i]
      /\ shown'[Len(log) + 1] = out
    BY <1>1, <1>3, AppendProperties
<1> QED
    BY <1>2, <1>4, <1>5, <1>6

\* A line that is answered at once.
AnswersLine ==
    /\ Reads({"malformed", "unknown", "incomplete", "invalid", "info", "env", "reset"})
    /\ Responds(Head(inbox))
    /\ namespace' \in [Names -> 0..MaxRequests]
    /\ UNCHANGED <<sent, phase, job, at, strays, threads, printed>>

LEMMA Answers ==
    ASSUME TypeOK,
           RejectLine \/ DeclineSource \/ HandleInfo \/ HandleEnv \/ HandleReset
    PROVE  AnswersLine
<1>1. /\ Reads({"malformed", "unknown", "incomplete", "invalid", "info", "env", "reset"})
      /\ UNCHANGED <<sent, phase, job, at, strays, threads, printed>>
    BY DEF RejectLine, DeclineSource, HandleInfo, HandleEnv, HandleReset, Reads
<1>2. Head(inbox) \in Requests
    BY <1>1, HeadTailProperties DEF Reads, TypeOK
<1>3. namespace' = namespace \/ namespace' = Session!Fresh
    BY DEF RejectLine, DeclineSource, HandleInfo, HandleEnv, HandleReset
<1>4. namespace' \in [Names -> 0..MaxRequests]
    BY <1>3, FreshType DEF TypeOK
<1>5. /\ "none" \in Errors /\ "traceback" \in Errors /\ "not ok" \in Errors
      /\ {} \subseteq Names /\ Bound \subseteq Names
    BY DEF Errors, Bound
<1>6. \E more \in BOOLEAN, e \in Errors, names \in SUBSET Names :
        log' = Append(log, [to |-> Head(inbox), more |-> more, error |-> e, vars |-> names])
    <2>1. CASE RejectLine
        <3>1. log' = Append(log, [to |-> Head(inbox), more |-> FALSE, error |-> "not ok", vars |-> {}])
            BY <2>1 DEF RejectLine, Respond, Session!Answer
        <3> QED
            BY <3>1, <1>5
    <2>2. CASE DeclineSource
        <3> DEFINE more == Head(inbox).kind = "incomplete"
                   e == IF Head(inbox).kind = "invalid" THEN "traceback" ELSE "none"
        <3>1. log' = Append(log, [to |-> Head(inbox), more |-> more, error |-> e, vars |-> {}])
            BY <2>2 DEF DeclineSource, Respond, Session!Answer
        <3>2. more \in BOOLEAN /\ e \in Errors
            BY <1>5
        <3> HIDE DEF more, e
        <3> QED
            BY <3>1, <3>2, <1>5
    <2>3. CASE HandleInfo
        <3>1. log' = Append(log, [to |-> Head(inbox), more |-> FALSE, error |-> "none", vars |-> Bound])
            BY <2>3 DEF HandleInfo, Respond, Session!Answer
        <3> QED
            BY <3>1, <1>5
    <2>4. CASE HandleEnv \/ HandleReset
        <3>1. log' = Append(log, [to |-> Head(inbox), more |-> FALSE, error |-> "none", vars |-> {}])
            BY <2>4 DEF HandleEnv, HandleReset, Respond, Session!Answer
        <3> QED
            BY <3>1, <1>5
    <2> QED
        BY <2>1, <2>2, <2>3, <2>4
<1>7. /\ shown' = Append(shown, out) /\ out' = <<>>
      /\ settled' = namespace' /\ error' = "none"
    BY DEF RejectLine, DeclineSource, HandleInfo, HandleEnv, HandleReset, Respond
<1>8. Responds(Head(inbox))
    <2>1. PICK more \in BOOLEAN, e \in Errors, names \in SUBSET Names :
            log' = Append(log, [to |-> Head(inbox), more |-> more, error |-> e, vars |-> names])
        BY <1>6
    <2>2. [to |-> Head(inbox), more |-> more, error |-> e, vars |-> names] \in Responses
        BY <1>2 DEF Responses
    <2> QED
        BY <1>7, <2>1, <2>2 DEF Responds
<1> QED
    BY <1>1, <1>4, <1>8 DEF AnswersLine

LEMMA AnswersType == TypeOK /\ AnswersLine => TypeOK'
<1> SUFFICES ASSUME TypeOK, AnswersLine PROVE TypeOK'
    OBVIOUS
<1>1. /\ Head(inbox) \in Requests /\ inbox' \in Seq(Requests) /\ phase = "idle"
      /\ Len(log) + 1 <= Taken'
    BY ReadsLine DEF AnswersLine
<1>2. /\ log' \in Seq(Responses) /\ Len(log') = Len(log) + 1
      /\ shown' \in Seq(Seq(Texts)) /\ Len(shown') = Len(log')
    BY RespondsTypes DEF AnswersLine
<1>3. out' = <<>> /\ error' = "none" /\ settled' = namespace'
    BY DEF AnswersLine, Responds
<1>4. out' \in Seq(Texts) /\ error' \in Errors /\ phase' = "idle"
    BY <1>1, <1>3 DEF AnswersLine, Errors
<1>5. Len(log') + (IF phase' = "run" THEN 1 ELSE 0) <= Taken'
    <2>1. Len(log') \in Nat
        BY <1>2
    <2> QED
        BY <2>1, <1>1, <1>2, <1>4
<1> QED
    BY <1>1, <1>2, <1>3, <1>4, <1>5 DEF AnswersLine, TypeOK, Responses

\* What the next statement is, and the text it may print.
LEMMA Statement ==
    ASSUME TypeOK, phase = "run"
    PROVE  /\ job \in Requests /\ job.kind = "exec" /\ job.code \in Seq(Statements)
           /\ Len(job.code) \in Nat /\ at \in Nat /\ at \in 1..(Len(job.code) + 1)
           /\ Len(log) \in Nat /\ Len(log) + 1 \in 1..MaxRequests
           /\ \A i \in 1..Len(job.code) : job.code[i] \in Statements
           /\ \A how \in {"print", "thread", "echo"} : Text(how) \in Texts
<1>1. job.kind = "exec"
    BY DEF TypeOK
<1>2. job \in Requests
    BY <1>1 DEF TypeOK, Idle
<1>3. job.code \in Seq(Statements)
    BY <1>1, <1>2, WorkerAssumption
<1>4. Len(log) \in Nat /\ Len(inbox) \in Nat /\ Len(sent) \in Nat
    BY DEF TypeOK
<1>5. Len(log) + 1 <= Len(sent) - Len(inbox) /\ Len(sent) <= MaxRequests
    BY DEF TypeOK, Taken
<1>6. Len(log) + 1 \in 1..MaxRequests
    BY <1>4, <1>5, Bounds
<1>7. at \in Nat /\ at \in 1..(Len(job.code) + 1)
    BY DEF TypeOK
<1>8. \A how \in {"print", "thread", "echo"} : Text(how) \in Texts
    BY <1>6, <1>7 DEF Text, Texts
<1>9. Len(job.code) \in Nat /\ \A i \in 1..Len(job.code) : job.code[i] \in Statements
    BY <1>3
<1> QED
    BY <1>1, <1>2, <1>3, <1>4, <1>6, <1>7, <1>8, <1>9

\* One of the statements, but for what it does to the namespace: the batch goes
\* on or is given up, and at most one text is printed or left to a thread.
RunStatement == RunBind \/ RunUse \/ RunUnprintable \/ RunFails \/ RunInput \/ RunExit
               \/ RunPrint \/ RunThread

RunsOne ==
    /\ phase = "run" /\ at <= Len(job.code)
    /\ Go \/ Abort("traceback") \/ Abort("SystemExit")
    /\ \/ UNCHANGED <<out, printed, threads>>
       \/ (Say("print") \/ Say("echo")) /\ UNCHANGED threads
       \/ threads' = threads \cup {Text("thread")} /\ UNCHANGED <<out, printed>>
    /\ UNCHANGED <<inbox, sent, phase, job, settled, log, shown, strays>>

LEMMA RunsOneStatement ==
    ASSUME RunStatement
    PROVE  RunsOne
<1>1. CASE RunBind
    BY <1>1 DEF RunBind, Runs, RunsOne
<1>2. CASE RunUse
    BY <1>2 DEF RunUse, Runs, RunsOne
<1>3. CASE RunUnprintable
    BY <1>3 DEF RunUnprintable, Runs, RunsOne
<1>4. CASE RunFails
    BY <1>4 DEF RunFails, Runs, RunsOne
<1>5. CASE RunInput \/ RunExit
    BY <1>5 DEF RunInput, RunExit, Runs, RunsOne
<1>6. CASE RunPrint \/ RunThread
    BY <1>6 DEF RunPrint, RunThread, Runs, RunsOne
<1> QED
    BY <1>1, <1>2, <1>3, <1>4, <1>5, <1>6 DEF RunStatement

LEMMA Rebinds ==
    ASSUME NEW S, NEW T, NEW f \in [S -> T], NEW x \in S, NEW v \in T
    PROVE  [f EXCEPT ![x] = v] \in [S -> T]
OBVIOUS

LEMMA NamespaceType ==
    ASSUME TypeOK, RunStatement
    PROVE  namespace' \in [Names -> 0..MaxRequests]
<1>1. phase = "run" /\ at <= Len(job.code)
    BY RunsOneStatement DEF RunsOne
<1>2. namespace \in [Names -> 0..MaxRequests] /\ "_" \in Names
    BY WorkerAssumption DEF TypeOK
<1>3. Len(log) + 1 \in 0..MaxRequests
    BY <1>1, Statement
<1>4. job.code[at] \in Statements
    BY <1>1, Statement
<1>5. CASE RunBind
    <2>1. job.code[at].name \in Names
        BY <1>4, <1>5 DEF RunBind, Runs, Statements
    <2>2. namespace' = [namespace EXCEPT ![job.code[at].name] = Len(log) + 1]
        BY <1>5 DEF RunBind
    <2> QED
        BY <1>2, <1>3, <2>1, <2>2, Rebinds
<1>6. CASE RunUse
    <2>1. job.code[at].name \in Names
        BY <1>4, <1>6 DEF RunUse, Runs, Statements
    <2>2. namespace[job.code[at].name] \in 0..MaxRequests
        BY <1>2, <2>1
    <2>3. \/ namespace' = [namespace EXCEPT !["_"] = namespace[job.code[at].name]]
          \/ namespace' = namespace
        BY <1>6 DEF RunUse
    <2> QED
        BY <1>2, <2>2, <2>3, Rebinds
<1>7. CASE RunUnprintable
    <2>1. \/ namespace' = [namespace EXCEPT !["_"] = Len(log) + 1]
          \/ namespace' = namespace
        BY <1>7 DEF RunUnprintable
    <2> QED
        BY <1>2, <1>3, <2>1, Rebinds
<1>8. CASE RunFails \/ RunInput \/ RunExit \/ RunPrint \/ RunThread
    BY <1>2, <1>8 DEF RunFails, RunInput, RunExit, RunPrint, RunThread
<1> QED
    BY <1>5, <1>6, <1>7, <1>8 DEF RunStatement

LEMMA StatementType == TypeOK /\ RunStatement => TypeOK'
<1> SUFFICES ASSUME TypeOK, RunStatement PROVE TypeOK'
    OBVIOUS
<1>1. RunsOne /\ phase = "run" /\ at <= Len(job.code)
    BY RunsOneStatement DEF RunsOne
<1>2. namespace' \in [Names -> 0..MaxRequests]
    BY NamespaceType
<1>3. at' \in Nat /\ at' \in 1..(Len(job.code) + 1)
    BY <1>1, Statement DEF RunsOne, Go, Abort
<1>4. error' \in Errors
    BY <1>1 DEF RunsOne, Go, Abort, TypeOK, Errors
<1>5. Taken' = Taken
    BY <1>1 DEF RunsOne, Taken
<1>6. Text("print") \in Texts /\ Text("thread") \in Texts /\ Text("echo") \in Texts
    BY <1>1, Statement
<1>7. out \in Seq(Texts) /\ threads \subseteq Texts /\ printed \subseteq Texts
    BY DEF TypeOK
<1>8. out' \in Seq(Texts) /\ threads' \subseteq Texts /\ printed' \subseteq Texts
    BY <1>1, <1>6, <1>7 DEF RunsOne, Say
<1> QED
    BY <1>1, <1>2, <1>3, <1>4, <1>5, <1>8 DEF RunsOne, TypeOK

\* The end of a batch is a response, too.
LEMMA EndResponds ==
    ASSUME TypeOK, EndBatch
    PROVE  /\ Responds(job)
           /\ phase = "run" /\ at > Len(job.code) /\ phase' = "idle" /\ job' = Idle
           /\ UNCHANGED <<inbox, sent, at, namespace, strays, threads, printed>>
           /\ Taken' = Taken /\ Len(log) + 1 <= Taken
<1>1. /\ phase = "run" /\ at > Len(job.code) /\ phase' = "idle" /\ job' = Idle
      /\ UNCHANGED <<inbox, sent, at, namespace, strays, threads, printed>>
    BY DEF EndBatch
<1>2. log' = Append(log, [to |-> job, more |-> FALSE, error |-> error, vars |-> {}])
    BY DEF EndBatch, Respond, Session!Answer
<1>3. [to |-> job, more |-> FALSE, error |-> error, vars |-> {}] \in Responses
    BY <1>1, Statement DEF TypeOK, Responses
<1>4. /\ shown' = Append(shown, out) /\ out' = <<>>
      /\ settled' = namespace' /\ error' = "none"
    BY DEF EndBatch, Respond
<1>5. Len(log) + 1 <= Taken
    BY <1>1 DEF TypeOK
<1> QED
    BY <1>1, <1>2, <1>3, <1>4, <1>5 DEF Responds, Taken

LEMMA EndType == TypeOK /\ EndBatch => TypeOK'
<1> SUFFICES ASSUME TypeOK, EndBatch PROVE TypeOK'
    OBVIOUS
<1>1. /\ Responds(job) /\ phase' = "idle" /\ job' = Idle
      /\ UNCHANGED <<inbox, sent, at, namespace, strays, threads, printed>>
      /\ Taken' = Taken /\ Len(log) + 1 <= Taken
    BY EndResponds
<1>2. /\ log' \in Seq(Responses) /\ Len(log') = Len(log) + 1
      /\ shown' \in Seq(Seq(Texts)) /\ Len(shown') = Len(log') /\ Len(log) \in Nat
    BY <1>1, RespondsTypes
<1>3. out' = <<>> /\ error' = "none" /\ settled' = namespace'
    BY <1>1 DEF Responds
<1>4. out' \in Seq(Texts) /\ error' \in Errors
    BY <1>3 DEF Errors
<1>5. Len(log') + (IF phase' = "run" THEN 1 ELSE 0) <= Taken'
    BY <1>1, <1>2
<1> QED
    BY <1>1, <1>2, <1>3, <1>4, <1>5 DEF TypeOK, Responses

\* A thread's text goes to the batch that runs, or beside the responses.
LEMMA ThreadType ==
    ASSUME TypeOK, NEW t \in threads, ThreadPrints(t)
    PROVE  TypeOK'
<1>1. t \in Texts /\ out \in Seq(Texts) /\ strays \in Seq(Texts)
    BY DEF TypeOK
<1>2. out' \in Seq(Texts) /\ strays' \in Seq(Texts)
    BY <1>1 DEF ThreadPrints
<1>3. threads' \subseteq Texts /\ printed' \subseteq Texts
    BY <1>1 DEF ThreadPrints, TypeOK
<1> QED
    BY <1>2, <1>3 DEF ThreadPrints, TypeOK, Taken

LEMMA TypeNext == TypeOK /\ [Next]_vars => TypeOK'
<1> SUFFICES ASSUME TypeOK, [Next]_vars PROVE TypeOK'
    OBVIOUS
<1>1. ASSUME NEW r \in Requests, Write(r) PROVE TypeOK'
    <2>1. inbox \in Seq(Requests) /\ sent \in Seq(Requests)
        BY DEF TypeOK
    <2>2. inbox' = Append(inbox, r) /\ sent' = Append(sent, r) /\ Len(sent) < MaxRequests
        BY <1>1 DEF Write
    <2>3. /\ inbox' \in Seq(Requests) /\ sent' \in Seq(Requests)
          /\ Len(inbox') = Len(inbox) + 1 /\ Len(sent') = Len(sent) + 1
          /\ Len(inbox) \in Nat /\ Len(sent) \in Nat
        BY <2>1, <2>2
    <2>4. Len(sent') <= MaxRequests /\ Taken' = Taken
        BY <2>2, <2>3, Bounds DEF Taken
    <2> QED
        BY <1>1, <2>3, <2>4 DEF Write, TypeOK
<1>2. CASE SkipBlank
    <2>1. inbox' \in Seq(Requests) /\ Len(log) <= Taken' /\ phase = "idle"
        BY <1>2, ReadsLine DEF SkipBlank
    <2>2. Len(log) \in Nat
        BY DEF TypeOK
    <2>3. Len(log) + (IF phase = "run" THEN 1 ELSE 0) <= Taken'
        BY <2>1, <2>2
    <2> QED
        BY <1>2, <2>1, <2>3 DEF SkipBlank, TypeOK
<1>5. CASE RejectLine \/ DeclineSource \/ HandleInfo \/ HandleEnv \/ HandleReset
    BY <1>5, Answers, AnswersType
<1>7. CASE DieAtLine
    <2>1. inbox' \in Seq(Requests) /\ Len(log) <= Taken' /\ phase' = "gone"
        BY <1>7, ReadsLine DEF DieAtLine
    <2>2. Len(log) \in Nat
        BY DEF TypeOK
    <2>3. Len(log) + (IF phase' = "run" THEN 1 ELSE 0) <= Taken'
        BY <2>1, <2>2
    <2> QED
        BY <1>7, <2>1, <2>3 DEF DieAtLine, TypeOK
<1>11. CASE StartBatch
    <2>1. /\ inbox' \in Seq(Requests) /\ Len(log) + 1 <= Taken' /\ phase' = "run"
          /\ job' \in Requests /\ job'.kind = "exec" /\ at' = 1
        BY <1>11, ReadsLine DEF StartBatch
    <2>2. Len(log) + (IF phase' = "run" THEN 1 ELSE 0) <= Taken'
        BY <2>1
    <2>3. job'.code \in Seq(Statements)
        BY <2>1, WorkerAssumption
    <2>4. Len(job'.code) \in Nat
        BY <2>3
    <2>5. at' \in 1..(Len(job'.code) + 1) /\ at' \in Nat
        BY <2>1, <2>4
    <2> QED
        BY <1>11, <2>1, <2>2, <2>5 DEF StartBatch, TypeOK
<1>12. CASE RunStatement
    BY <1>12, StatementType
<1>13. CASE EndBatch
    BY <1>13, EndType
<1>14. ASSUME NEW t \in threads, ThreadPrints(t) PROVE TypeOK'
    BY <1>14, ThreadType
<1>22. CASE Die
    BY <1>22 DEF Die, TypeOK, Taken
<1>23. CASE UNCHANGED vars
    BY <1>23 DEF vars, TypeOK, Taken
<1> QED
    BY <1>1, <1>2, <1>5, <1>7, <1>11, <1>12, <1>13, <1>14, <1>22, <1>23
       DEF Next, Handle, Run, RunStatement
-------------------------------------------------------------------------------
(* Each line has its response. *)

\* The lines: read, done, and left.
Counted ==
    /\ Taken \in Nat /\ Done \in Nat /\ Done <= Taken /\ Taken <= Len(sent)
    /\ Len(inbox) \in Nat /\ Len(sent) \in Nat /\ Len(inbox) = Len(sent) - Taken
    /\ Len(log) \in Nat /\ DOMAIN log = 1..Len(log)
    /\ phase = "run" => Done = Taken - 1
    /\ phase # "run" => Done = Taken

LEMMA Counts == TypeOK => Counted
<1> SUFFICES ASSUME TypeOK PROVE Counted
    OBVIOUS
<1>1. /\ inbox \in Seq(Requests) /\ sent \in Seq(Requests) /\ log \in Seq(Responses)
      /\ Len(log) + (IF phase = "run" THEN 1 ELSE 0) <= Taken
    BY DEF TypeOK, Responses
<1>2. Len(inbox) \in Nat /\ Len(sent) \in Nat /\ Len(log) \in Nat /\ DOMAIN log = 1..Len(log)
    BY <1>1
<1> QED
    BY <1>1, <1>2 DEF Taken, Done, Counted

\* What is left in the pipe is the end of what was written.
LEMMA EndOfSeq ==
    ASSUME NEW S, NEW s \in Seq(S), NEW q \in Seq(S), Len(q) <= Len(s)
    PROVE  q = SubSeq(s, Len(s) - Len(q) + 1, Len(s))
           <=> \A i \in 1..Len(q) : q[i] = s[Len(s) - Len(q) + i]
<1> DEFINE d == Len(s) - Len(q)
           e == SubSeq(s, d + 1, Len(s))
<1>1. Len(s) \in Nat /\ Len(q) \in Nat /\ d \in Nat /\ d + Len(q) = Len(s)
    OBVIOUS
<1>2. \A i \in (d + 1)..Len(s) : s[i] \in S
    BY <1>1
<1>3. /\ e \in Seq(S) /\ Len(e) = Len(q)
      /\ \A i \in 1..Len(q) : e[i] = s[d + i]
    <2>1. d + 1 \in Int /\ Len(s) \in Int
        BY <1>1
    <2>2. /\ e \in Seq(S)
          /\ Len(e) = IF d + 1 <= Len(s) THEN Len(s) - (d + 1) + 1 ELSE 0
          /\ \A i \in 1..(Len(s) - (d + 1) + 1) : e[i] = s[d + 1 + i - 1]
        BY <2>1, <1>2, SubSeqProperties
    <2> HIDE DEF d, e
    <2> QED
        BY <1>1, <2>2
<1> HIDE DEF e
<1>4. q = e <=> \A i \in 1..Len(q) : q[i] = e[i]
    BY <1>3, SeqEqual
<1> QED
    BY <1>3, <1>4 DEF e

LEMMA InboxPoints ==
    ASSUME TypeOK
    PROVE  inbox = SubSeq(sent, Taken + 1, Len(sent))
           <=> \A i \in 1..Len(inbox) : inbox[i] = sent[Taken + i]
<1>1. inbox \in Seq(Requests) /\ sent \in Seq(Requests)
    BY DEF TypeOK
<1>2. Len(inbox) <= Len(sent) /\ Len(sent) - Len(inbox) = Taken
    BY Counts DEF Taken, Counted
<1> QED
    BY <1>1, <1>2, EndOfSeq

\* A line is read: it is the first that was not.
LEMMA ReadsNext ==
    ASSUME TypeOK, TypeOK', OneResponseEach, NEW K, Reads(K), sent' = sent
    PROVE  /\ inbox' = SubSeq(sent', Taken' + 1, Len(sent'))
           /\ Head(inbox) = sent[Taken'] /\ Taken' = Taken + 1 /\ phase = "idle"
<1>1. inbox \in Seq(Requests) /\ inbox # <<>> /\ inbox' = Tail(inbox)
    BY DEF TypeOK, Reads
<1>2. Taken' = Taken + 1 /\ phase = "idle"
    BY ReadsLine
<1>3. \A i \in 1..Len(inbox) : inbox[i] = sent[Taken + i]
    BY InboxPoints DEF OneResponseEach
<1>4. /\ Len(inbox') = Len(inbox) - 1 /\ Len(inbox) \in Nat /\ Taken \in Nat
      /\ \A i \in 1..Len(inbox') : inbox'[i] = inbox[i + 1]
    BY <1>1, HeadTailProperties, Counts DEF Counted
<1>5. Head(inbox) = inbox[1] /\ 1 \in 1..Len(inbox)
    BY <1>1, <1>4
<1>6. Head(inbox) = sent[Taken']
    BY <1>2, <1>3, <1>5
<1>7. \A i \in 1..Len(inbox') : inbox'[i] = sent'[Taken' + i]
    <2> SUFFICES ASSUME NEW i \in 1..Len(inbox') PROVE inbox'[i] = sent'[Taken' + i]
        OBVIOUS
    <2>1. i + 1 \in 1..Len(inbox) /\ Taken + (i + 1) = Taken' + i
        BY <1>2, <1>4
    <2> QED
        BY <1>3, <1>4, <2>1
<1>8. inbox' = SubSeq(sent', Taken' + 1, Len(sent'))
    <2>1. Counted'
        BY Counts, PTL
    <2>2. inbox' \in Seq(Requests) /\ sent' \in Seq(Requests)
        BY DEF TypeOK
    <2>3. Len(inbox') <= Len(sent') /\ Len(sent') - Len(inbox') = Taken'
        BY <2>1 DEF Counted
    <2> QED
        BY <1>7, <2>2, <2>3, EndOfSeq
<1> QED
    BY <1>2, <1>6, <1>8

\* No response: the pairing stays what it was.
LEMMA PairsKept ==
    ASSUME TypeOK, TypeOK', OneResponseEach, log' = log, Done <= Done',
           \A k \in 1..Taken : sent'[k] = sent[k],
           \A k \in 1..Taken' : \/ sent'[k].kind = "blank"
                                \/ k \in Unanswered'
                                \/ k \in 1..Taken /\ k \notin Unanswered
    PROVE  \E line \in [DOMAIN log' -> 1..Done'] : Pairs(line)'
<1>1. PICK line \in [DOMAIN log -> 1..Done] : Pairs(line)
    BY DEF OneResponseEach
<1>2. Done \in Nat /\ Done' \in Nat /\ Done <= Taken /\ Taken \in Nat
    <2>1. Counted /\ Counted'
        BY Counts, PTL
    <2> QED
        BY <2>1 DEF Counted
<1>3. 1..Done \subseteq 1..Done' /\ 1..Done \subseteq 1..Taken
    BY <1>2
<1>4. line \in [DOMAIN log' -> 1..Done']
    BY <1>3
<1>5. \A i, j \in DOMAIN log' : i < j => line[i] < line[j]
    BY <1>1 DEF Pairs
<1>6. \A i \in DOMAIN log' : log'[i].to = sent'[line[i]]
    BY <1>1, <1>3 DEF Pairs
<1>7. \A k \in 1..Taken' : sent'[k].kind = "blank" \/ k \in Unanswered'
                           \/ \E i \in DOMAIN log' : line[i] = k
    BY <1>1 DEF Pairs
<1> QED
    BY <1>4, <1>5, <1>6, <1>7 DEF Pairs

\* A response, to the last line that is done then.
LEMMA PairsMore ==
    ASSUME TypeOK, TypeOK', OneResponseEach, NEW STATE r, Responds(r), sent' = sent,
           Done < Done', r = sent[Done'],
           \A k \in 1..Taken' : k = Done' \/ (k \in 1..Taken /\ k \notin Unanswered)
    PROVE  \E line \in [DOMAIN log' -> 1..Done'] : Pairs(line)'
<1>1. PICK line \in [DOMAIN log -> 1..Done] : Pairs(line)
    BY DEF OneResponseEach
<1>2. /\ Done \in Nat /\ Done' \in Nat /\ Done <= Taken /\ Taken \in Nat
      /\ DOMAIN log = 1..Len(log) /\ DOMAIN log' = 1..Len(log') /\ Len(log) \in Nat
    <2>1. Counted /\ Counted'
        BY Counts, PTL
    <2> QED
        BY <2>1 DEF Counted
<1>3. 1..Done \subseteq 1..Done' /\ 1..Done \subseteq 1..Taken /\ Done' \in 1..Done'
    BY <1>2
<1>4. /\ Len(log') = Len(log) + 1 /\ \A i \in 1..Len(log) : log'[i] = log[i]
      /\ log'[Len(log) + 1].to = r
    BY RespondsTypes
<1>5. DOMAIN log' = DOMAIN log \cup {Len(log) + 1} /\ Len(log) + 1 \notin DOMAIN log
    BY <1>2, <1>4
<1> DEFINE longer == [i \in DOMAIN log' |-> IF i \in DOMAIN log THEN line[i] ELSE Done']
<1>6. longer \in [DOMAIN log' -> 1..Done']
    BY <1>3
<1>7. \A i, j \in DOMAIN log' : i < j => longer[i] < longer[j]
    <2> SUFFICES ASSUME NEW i \in DOMAIN log', NEW j \in DOMAIN log', i < j
                 PROVE  longer[i] < longer[j]
        OBVIOUS
    <2>1. i \in DOMAIN log
        BY <1>2, <1>4
    <2>2. line[i] \in 1..Done
        BY <2>1
    <2>3. longer[i] = line[i]
        BY <2>1
    <2>4. CASE j \in DOMAIN log
        BY <1>1, <2>1, <2>3, <2>4 DEF Pairs
    <2>5. CASE j \notin DOMAIN log
        BY <2>2, <2>3, <2>5, <1>2
    <2> QED
        BY <2>4, <2>5
<1>8. \A i \in DOMAIN log' : log'[i].to = sent'[longer[i]]
    BY <1>1, <1>2, <1>4, <1>5 DEF Pairs
<1>9. \A k \in 1..Taken' : sent'[k].kind = "blank" \/ k \in Unanswered'
                           \/ \E i \in DOMAIN log' : longer[i] = k
    <2> SUFFICES ASSUME NEW k \in 1..Taken', sent'[k].kind # "blank"
                 PROVE  \E i \in DOMAIN log' : longer[i] = k
        OBVIOUS
    <2>1. CASE k = Done'
        BY <2>1, <1>5
    <2>2. CASE k \in 1..Taken /\ k \notin Unanswered
        BY <2>2, <1>1, <1>5 DEF Pairs
    <2> QED
        BY <2>1, <2>2
<1> HIDE DEF longer
<1>10. PICK line2 \in [DOMAIN log' -> 1..Done'] : line2 = longer
    BY <1>6
<1>11. /\ \A i, j \in DOMAIN log' : i < j => line2[i] < line2[j]
       /\ \A i \in DOMAIN log' : log'[i].to = sent'[line2[i]]
       /\ \A k \in 1..Taken' : sent'[k].kind = "blank" \/ k \in Unanswered'
                               \/ \E i \in DOMAIN log' : line2[i] = k
    BY <1>7, <1>8, <1>9, <1>10
<1> QED
    BY <1>10, <1>11 DEF Pairs

LEMMA OneResponseInit == Init => OneResponseEach
<1> SUFFICES ASSUME Init PROVE OneResponseEach
    OBVIOUS
<1>1. inbox = <<>> /\ sent = <<>> /\ log = <<>> /\ phase = "idle"
    BY DEF Init
<1>2. Taken = 0
    BY <1>1 DEF Taken
<1>3. SubSeq(sent, Taken + 1, Len(sent)) = <<>>
    BY <1>1, <1>2, SubSeqEmpty
<1>4. DOMAIN log = {} /\ <<>> \in [DOMAIN log -> 1..Done]
    BY <1>1
<1>5. Pairs(<<>>)
    BY <1>2, <1>4 DEF Pairs
<1> QED
    BY <1>1, <1>3, <1>4, <1>5 DEF OneResponseEach

LEMMA OneResponseNext ==
    ASSUME TypeOK, TypeOK', OneResponseEach, [Next]_vars
    PROVE  OneResponseEach'
<1>1. /\ inbox \in Seq(Requests) /\ sent \in Seq(Requests)
      /\ inbox' \in Seq(Requests) /\ sent' \in Seq(Requests)
    BY DEF TypeOK
<1>2. Counted /\ Counted'
    BY Counts, PTL
<1>3. ASSUME NEW r \in Requests, Write(r) PROVE OneResponseEach'
    <2>1. /\ inbox' = Append(inbox, r) /\ sent' = Append(sent, r)
          /\ UNCHANGED <<phase, job, log>>
        BY <1>3 DEF Write
    <2>2. /\ Len(inbox') = Len(inbox) + 1 /\ inbox'[Len(inbox) + 1] = r
          /\ \A i \in 1..Len(inbox) : inbox'[i] = inbox[i]
          /\ Len(sent') = Len(sent) + 1 /\ sent'[Len(sent) + 1] = r
          /\ \A i \in 1..Len(sent) : sent'[i] = sent[i]
        BY <1>1, <2>1, AppendProperties
    <2>3. Taken' = Taken /\ Done' = Done /\ Unanswered' = Unanswered
        <3>1. Len(inbox) \in Nat /\ Len(sent) \in Nat
            BY <1>2 DEF Counted
        <3>2. Taken' = Taken
            BY <2>2, <3>1 DEF Taken
        <3> QED
            BY <2>1, <3>2 DEF Done, Unanswered
    <2>4. \A i \in 1..Len(inbox) : inbox[i] = sent[Taken + i]
        BY InboxPoints DEF OneResponseEach
    <2>5. \A i \in 1..Len(inbox') : inbox'[i] = sent'[Taken' + i]
        <3> SUFFICES ASSUME NEW i \in 1..Len(inbox') PROVE inbox'[i] = sent'[Taken + i]
            BY <2>3
        <3>1. CASE i \in 1..Len(inbox)
            <4>1. Taken + i \in 1..Len(sent)
                BY <1>2, <3>1 DEF Counted
            <4> QED
                BY <2>2, <2>4, <3>1, <4>1
        <3>2. CASE i = Len(inbox) + 1
            <4>1. Taken + i = Len(sent) + 1
                BY <1>2, <3>2 DEF Counted
            <4> QED
                BY <2>2, <3>2, <4>1
        <3>3. i \in 1..Len(inbox) \/ i = Len(inbox) + 1
            <4>1. Len(inbox) \in Nat
                BY <1>2 DEF Counted
            <4>2. i \in 1..(Len(inbox) + 1)
                BY <2>2
            <4> QED
                BY <4>1, <4>2
        <3> QED
            BY <3>1, <3>2, <3>3
    <2>6. inbox' = SubSeq(sent', Taken' + 1, Len(sent'))
        <3>1. Len(inbox') <= Len(sent') /\ Len(sent') - Len(inbox') = Taken'
            BY <1>2 DEF Counted
        <3> QED
            BY <1>1, <2>5, <3>1, EndOfSeq
    <2>7. \A k \in 1..Taken : sent'[k] = sent[k]
        BY <1>2, <2>2 DEF Counted
    <2>8. phase' = "run" => job' = sent'[Taken']
        <3>1. phase' = "run" => Taken \in 1..Taken
            BY <1>2, <2>1 DEF Counted
        <3> QED
            BY <2>1, <2>3, <2>7, <3>1 DEF OneResponseEach
    <2>9. Done <= Done'
        BY <1>2, <2>3 DEF Counted
    <2>10. \E line \in [DOMAIN log' -> 1..Done'] : Pairs(line)'
        BY <2>1, <2>3, <2>7, <2>9, PairsKept
    <2> QED
        BY <2>6, <2>8, <2>10 DEF OneResponseEach
<1>4. CASE SkipBlank
    <2>1. /\ Reads({"blank"}) /\ sent' = sent /\ log' = log
          /\ phase' = phase /\ job' = job
        BY <1>4 DEF SkipBlank
    <2>2. /\ inbox' = SubSeq(sent', Taken' + 1, Len(sent'))
          /\ Head(inbox) = sent[Taken'] /\ Taken' = Taken + 1 /\ phase = "idle"
        BY <2>1, ReadsNext
    <2>3. sent'[Taken'].kind = "blank"
        BY <2>1, <2>2 DEF Reads
    <2>4. Done' = Taken' /\ Done = Taken /\ Done <= Done' /\ 1..Taken' = 1..Taken \cup {Taken'}
        <3>1. Done' = Taken' /\ Done = Taken /\ Taken \in Nat
            BY <1>2, <2>1, <2>2 DEF Counted
        <3> QED
            BY <2>2, <3>1
    <2>5. Unanswered = {}
        BY <2>2 DEF Unanswered
    <2>6. \E line \in [DOMAIN log' -> 1..Done'] : Pairs(line)'
        BY <2>1, <2>3, <2>4, <2>5, PairsKept
    <2> QED
        BY <2>1, <2>2, <2>6 DEF OneResponseEach
<1>5. CASE AnswersLine
    <2>1. /\ Reads({"malformed", "unknown", "incomplete", "invalid", "info", "env", "reset"})
          /\ sent' = sent /\ phase' = phase /\ job' = job /\ Responds(Head(inbox))
        BY <1>5 DEF AnswersLine
    <2>2. /\ inbox' = SubSeq(sent', Taken' + 1, Len(sent'))
          /\ Head(inbox) = sent[Taken'] /\ Taken' = Taken + 1 /\ phase = "idle"
        BY <2>1, ReadsNext
    <2>3. /\ Done' = Taken' /\ Done = Taken /\ Done < Done'
          /\ 1..Taken' = 1..Taken \cup {Taken'}
        <3>1. Done' = Taken' /\ Done = Taken /\ Taken \in Nat
            BY <1>2, <2>1, <2>2 DEF Counted
        <3> QED
            BY <2>2, <3>1
    <2>4. Unanswered = {} /\ Head(inbox) = sent[Done']
        BY <2>2, <2>3 DEF Unanswered
    <2>5. \E line \in [DOMAIN log' -> 1..Done'] : Pairs(line)'
        BY <2>1, <2>3, <2>4, PairsMore
    <2> QED
        BY <2>1, <2>2, <2>5 DEF OneResponseEach
<1>6. CASE DieAtLine \/ StartBatch
    <2>1. /\ Reads({"no object", "too deep"}) \/ Reads({"exec"})
          /\ sent' = sent /\ log' = log
          /\ phase' = "gone" \/ (phase' = "run" /\ job' = Head(inbox))
        BY <1>6 DEF DieAtLine, StartBatch
    <2>2. /\ inbox' = SubSeq(sent', Taken' + 1, Len(sent'))
          /\ Head(inbox) = sent[Taken'] /\ Taken' = Taken + 1 /\ phase = "idle"
        BY <2>1, ReadsNext
    <2>3. Done = Taken /\ Done <= Done' /\ 1..Taken' = 1..Taken \cup {Taken'}
        <3>1. Done = Taken /\ Taken \in Nat
            BY <1>2, <2>2 DEF Counted
        <3>2. Done' = Taken' \/ Done' = Taken' - 1
            BY <1>2, <2>1 DEF Counted
        <3> QED
            BY <2>2, <3>1, <3>2
    <2>4. Unanswered = {} /\ Unanswered' = {Taken'}
        BY <2>1, <2>2 DEF OneResponseEach, Unanswered
    <2>5. \E line \in [DOMAIN log' -> 1..Done'] : Pairs(line)'
        BY <2>1, <2>3, <2>4, PairsKept
    <2> QED
        BY <2>1, <2>2, <2>5 DEF OneResponseEach
<1>7. CASE EndBatch
    <2>1. /\ Responds(job) /\ phase = "run" /\ phase' = "idle"
          /\ UNCHANGED <<inbox, sent>> /\ Taken' = Taken
        BY <1>7, EndResponds
    <2>2. Done = Taken - 1 /\ Done' = Taken /\ Done < Done' /\ Taken \in Nat
        BY <1>2, <2>1 DEF Counted
    <2>3. Unanswered = {Taken} /\ job = sent[Done']
        BY <2>1, <2>2 DEF OneResponseEach, Unanswered
    <2>4. \E line \in [DOMAIN log' -> 1..Done'] : Pairs(line)'
        BY <2>1, <2>2, <2>3, PairsMore
    <2> QED
        BY <2>1, <2>4 DEF OneResponseEach
<1>8. ASSUME UNCHANGED <<inbox, sent, phase, job, log>> PROVE OneResponseEach'
    BY <1>8 DEF OneResponseEach, Pairs, Done, Taken, Unanswered
<1>9. CASE Die
    <2>1. /\ UNCHANGED <<inbox, sent, log>> /\ phase' = "gone" /\ phase # "gone"
        BY <1>9 DEF Die
    <2>2. Taken' = Taken /\ Done <= Done' /\ Unanswered' = {Taken}
        BY <1>2, <2>1 DEF Counted, Taken, Unanswered
    <2>3. Unanswered \subseteq {Taken}
        BY DEF Unanswered
    <2>4. \E line \in [DOMAIN log' -> 1..Done'] : Pairs(line)'
        BY <2>1, <2>2, <2>3, PairsKept
    <2> QED
        BY <2>1, <2>2, <2>4 DEF OneResponseEach
<1>10. CASE RunStatement
    BY <1>8, <1>10, RunsOneStatement DEF RunsOne
<1>11. ASSUME NEW t \in threads, ThreadPrints(t) PROVE OneResponseEach'
    BY <1>8, <1>11 DEF ThreadPrints
<1>12. CASE UNCHANGED vars
    BY <1>8, <1>12 DEF vars
<1>13. CASE RejectLine \/ DeclineSource \/ HandleInfo \/ HandleEnv \/ HandleReset
    BY <1>5, <1>13, Answers
<1> QED
    BY <1>3, <1>4, <1>6, <1>7, <1>9, <1>10, <1>11, <1>12, <1>13
       DEF Next, Handle, Run, RunStatement

-------------------------------------------------------------------------------
(* Every text is in one place. *)

\* A page with nothing on it.
LEMMA EmptyPage ==
    ASSUME NEW T, NEW n \in Nat, NEW texts,
           NEW old, DOMAIN old = 0..n, InOnePlace(texts, old),
           NEW new, DOMAIN new = 0..(n + 1),
           \A i \in 0..n : new[i] = old[i], new[n + 1] = <<>>
    PROVE  InOnePlace(texts, new)
<1>1. 0..(n + 1) = 0..n \cup {n + 1} /\ n + 1 \notin 0..n
    OBVIOUS
<1>2. DOMAIN new[n + 1] = {}
    OBVIOUS
<1>3. \A i \in DOMAIN new : \A k \in DOMAIN new[i] : i \in DOMAIN old /\ new[i] = old[i]
    BY <1>1, <1>2
<1> QED
    BY <1>1, <1>3 DEF InOnePlace

\* A text that is new is written on page p.
LEMMA OneMore ==
    ASSUME NEW T, NEW t, NEW texts, t \notin texts,
           NEW old, NEW p \in DOMAIN old, old[p] \in Seq(T), t \in T,
           InOnePlace(texts, old),
           NEW new, DOMAIN new = DOMAIN old,
           new[p] = Append(old[p], t), \A i \in DOMAIN old : i # p => new[i] = old[i]
    PROVE  InOnePlace(texts \cup {t}, new)
<1> DEFINE m == Len(old[p]) + 1
<1>1. /\ DOMAIN new[p] = DOMAIN old[p] \cup {m} /\ m \notin DOMAIN old[p]
      /\ new[p][m] = t /\ \A k \in DOMAIN old[p] : new[p][k] = old[p][k]
    <2>1. DOMAIN old[p] = 1..Len(old[p]) /\ Len(old[p]) \in Nat
        OBVIOUS
    <2>2. /\ new[p] \in Seq(T) /\ Len(new[p]) = m /\ new[p][m] = t
          /\ \A k \in 1..Len(old[p]) : new[p][k] = old[p][k]
        BY AppendProperties
    <2>3. DOMAIN new[p] = 1..m
        BY <2>2
    <2> QED
        BY <2>1, <2>2, <2>3
<1> HIDE DEF m
<1>2. \A i \in DOMAIN new : \A k \in DOMAIN new[i] :
        \/ i = p /\ k = m /\ new[i][k] = t
        \/ k \in DOMAIN old[i] /\ new[i][k] = old[i][k] /\ ~(i = p /\ k = m)
    BY <1>1
<1>3. \A i \in DOMAIN old : \A k \in DOMAIN old[i] : k \in DOMAIN new[i] /\ new[i][k] = old[i][k]
    BY <1>1
<1>4. \A i \in DOMAIN old : \A k \in DOMAIN old[i] : old[i][k] # t
    BY DEF InOnePlace
<1>5. \A i \in DOMAIN new : \A k \in DOMAIN new[i] : new[i][k] \in texts \cup {t}
    BY <1>2 DEF InOnePlace
<1>6. \A u \in texts \cup {t} : \E i \in DOMAIN new : \E k \in DOMAIN new[i] : new[i][k] = u
    <2>1. \A u \in texts : \E i \in DOMAIN new : \E k \in DOMAIN new[i] : new[i][k] = u
        BY <1>3 DEF InOnePlace
    <2>2. \E i \in DOMAIN new : \E k \in DOMAIN new[i] : new[i][k] = t
        BY <1>1
    <2> QED
        BY <2>1, <2>2
<1>7. ASSUME NEW i \in DOMAIN new, NEW j \in DOMAIN new,
             NEW k \in DOMAIN new[i], NEW l \in DOMAIN new[j], new[i][k] = new[j][l]
      PROVE  i = j /\ k = l
    <2>1. CASE k \in DOMAIN old[i] /\ new[i][k] = old[i][k]
        <3>1. new[i][k] # t
            BY <2>1, <1>4
        <3>2. l \in DOMAIN old[j] /\ new[j][l] = old[j][l]
            BY <1>2, <1>7, <3>1
        <3> QED
            BY <2>1, <3>2, <1>7 DEF InOnePlace
    <2>2. CASE i = p /\ k = m /\ new[i][k] = t
        <3>1. ~(l \in DOMAIN old[j] /\ new[j][l] = old[j][l])
            BY <1>4, <1>7, <2>2
        <3>2. j = p /\ l = m
            BY <1>2, <3>1
        <3> QED
            BY <2>2, <3>2
    <2> QED
        BY <1>2, <2>1, <2>2
<1> QED
    BY <1>5, <1>6, <1>7 DEF InOnePlace

\* The pages there are.
PagesListed ==
    /\ DOMAIN Pages = 0..(Len(log) + 1) /\ DOMAIN shown = 1..Len(log)
    /\ Pages[0] = strays /\ Pages[Len(log) + 1] = out
    /\ \A i \in 1..Len(log) : Pages[i] = shown[i]

LEMMA PagesAre == TypeOK => PagesListed
<1> SUFFICES ASSUME TypeOK PROVE PagesListed
    OBVIOUS
<1>1. Len(log) \in Nat /\ Len(shown) = Len(log) /\ DOMAIN shown = 1..Len(log)
    BY DEF TypeOK
<1> QED
    BY <1>1 DEF Pages, PagesListed

\* A new text is in none of the places.
LEMMA NewText ==
    ASSUME TypeOK, TextInv, phase = "run", NEW how \in {"print", "thread", "echo"}
    PROVE  /\ Text(how) \notin printed /\ Text(how) \notin threads /\ Text(how) \in Texts
           /\ Text(how).by = Len(log) + 1 /\ Text(how).at = at /\ Text(how).how = how
           /\ MayShow(Text(how), Len(log) + 1)
<1>1. Text(how).by = Len(log) + 1 /\ Text(how).at = at /\ Text(how).how = how
    BY DEF Text
<1>2. \A t \in printed \cup threads : Old(t)
    BY DEF TextInv
<1>3. Len(log) \in Nat /\ at \in Nat
    BY DEF TypeOK
<1>4. ~Old(Text(how))
    <2>1. ~(Text(how).by <= Len(log)) /\ ~(Text(how).at < at)
        BY <1>1, <1>3
    <2> QED
        BY <2>1 DEF Old
<1>5. Text(how).by <= Len(log) + 1
    BY <1>1, <1>3
<1>6. MayShow(Text(how), Len(log) + 1)
    BY <1>1, <1>5 DEF MayShow
<1> QED
    BY <1>1, <1>2, <1>4, <1>6, Statement

\* What is old stays old: while a batch runs, at its end, and from then on.
LEMMA OldRuns ==
    ASSUME TypeOK, RunsOne, NEW t \in Texts, t.by <= Len(log) + 1,
           Old(t) \/ (t.by = Len(log) + 1 /\ t.at = at)
    PROVE  Old(t)'
<1>1. phase' = "run" /\ log' = log /\ at <= Len(job.code) /\ phase = "run"
    BY DEF RunsOne
<1>2. at' > at
    BY <1>1, Statement DEF RunsOne, Go, Abort
<1>3. t.by <= Len(log) \/ (t.by = Len(log) + 1 /\ (t.at < at \/ t.at = at))
    BY DEF Old
<1>4. at \in Nat /\ at' \in Nat /\ t.at \in Nat
    BY <1>1, Statement DEF RunsOne, Go, Abort, Texts
<1>5. t.by <= Len(log) \/ (t.by = Len(log) + 1 /\ t.at < at')
    BY <1>2, <1>3, <1>4
<1> QED
    BY <1>1, <1>5 DEF Old

LEMMA OldResponds ==
    ASSUME TypeOK, NEW STATE r, Responds(r), NEW t \in Texts, Old(t)
    PROVE  Old(t)'
<1>1. Len(log') = Len(log) + 1 /\ Len(log) \in Nat
    BY RespondsTypes
<1>2. t.by <= Len(log) \/ t.by = Len(log) + 1
    BY DEF Old
<1>3. t.by \in Nat
    BY Bounds DEF Texts
<1>4. t.by <= Len(log')
    BY <1>1, <1>2, <1>3
<1> QED
    BY <1>4 DEF Old

LEMMA OldBy ==
    ASSUME TypeOK, NEW t \in Texts, Old(t)
    PROVE  t.by <= Len(log) + 1
<1>1. Len(log) \in Nat /\ t.by \in Nat
    BY Bounds DEF TypeOK, Texts
<1>2. t.by <= Len(log) \/ t.by = Len(log) + 1
    BY DEF Old
<1> QED
    BY <1>1, <1>2

LEMMA TextInit == Init => OutputAccounted /\ TextInv
<1> SUFFICES ASSUME Init PROVE OutputAccounted /\ TextInv
    OBVIOUS
<1>1. /\ shown = <<>> /\ strays = <<>> /\ out = <<>> /\ printed = {} /\ threads = {}
    BY DEF Init
<1>2. DOMAIN shown = {} /\ DOMAIN strays = {} /\ DOMAIN out = {}
    BY <1>1
<1>3. \A i \in DOMAIN Pages : DOMAIN Pages[i] = {}
    BY <1>1, <1>2 DEF Pages
<1>4. InOnePlace(printed, Pages)
    BY <1>1, <1>3 DEF InOnePlace
<1> QED
    BY <1>1, <1>2, <1>4 DEF OutputAccounted, TextInv

\* A response: the page that was written becomes its page.
LEMMA TextResponds ==
    ASSUME TypeOK, TypeOK', OutputAccounted, TextInv, NEW STATE r, Responds(r),
           phase # "gone", phase' = "idle", UNCHANGED <<strays, threads, printed>>
    PROVE  OutputAccounted' /\ TextInv'
<1>1. /\ Len(log') = Len(log) + 1 /\ Len(log) \in Nat /\ Len(shown') = Len(log) + 1
      /\ \A i \in 1..Len(log) : shown'[i] = shown[i]
      /\ shown'[Len(log) + 1] = out /\ out' = <<>>
    BY RespondsTypes DEF Responds
<1>2. /\ DOMAIN Pages = 0..(Len(log) + 1) /\ DOMAIN shown = 1..Len(log)
      /\ Pages[0] = strays /\ Pages[Len(log) + 1] = out
      /\ \A i \in 1..Len(log) : Pages[i] = shown[i]
    BY PagesAre DEF PagesListed
<1>3. /\ DOMAIN Pages' = 0..(Len(log') + 1) /\ DOMAIN shown' = 1..Len(log')
      /\ Pages'[0] = strays' /\ Pages'[Len(log') + 1] = out'
      /\ \A i \in 1..Len(log') : Pages'[i] = shown'[i]
    <2>1. PagesListed'
        BY PagesAre, PTL
    <2> QED
        BY <2>1 DEF PagesListed
<1>4. DOMAIN shown' = DOMAIN shown \cup {Len(log) + 1}
    BY <1>1, <1>2, <1>3
<1>5. InOnePlace(printed', Pages')
    <2> DEFINE n == Len(log) + 1
    <2>1. n \in Nat /\ DOMAIN Pages = 0..n /\ DOMAIN Pages' = 0..(n + 1)
        BY <1>1, <1>2, <1>3
    <2>2. Pages'[n + 1] = <<>>
        BY <1>1, <1>3
    <2>3. \A i \in 0..n : Pages'[i] = Pages[i]
        <3>1. 0..n = {0} \cup 1..Len(log) \cup {n}
            BY <1>1
        <3>2. n \in 1..Len(log') /\ 1..Len(log) \subseteq 1..Len(log')
            BY <1>1
        <3> HIDE DEF n
        <3>3. Pages'[n] = Pages[n]
            BY <1>1, <1>2, <1>3, <3>2 DEF n
        <3> QED
            BY <1>1, <1>2, <1>3, <3>1, <3>2, <3>3
    <2>4. InOnePlace(printed, Pages) /\ printed' = printed
        BY DEF OutputAccounted
    <2> HIDE DEF n
    <2> QED
        BY <2>1, <2>2, <2>3, <2>4, EmptyPage
<1>6. \A i \in DOMAIN shown' : \A k \in DOMAIN shown'[i] : MayShow(shown'[i][k], i)
    <2>1. \A i \in DOMAIN shown : \A k \in DOMAIN shown'[i] : MayShow(shown'[i][k], i)
        BY <1>1, <1>2 DEF OutputAccounted
    <2>2. \A k \in DOMAIN out : MayShow(out[k], Len(log) + 1)
        BY DEF TextInv
    <2> QED
        BY <1>1, <1>4, <2>1, <2>2
<1>7. OutputAccounted'
    BY <1>5, <1>6 DEF OutputAccounted
<1>8. \A t \in printed' \cup threads' : Old(t)'
    <2>1. \A t \in printed \cup threads : Old(t) /\ t \in Texts
        BY DEF TextInv, TypeOK
    <2> QED
        BY <2>1, OldResponds
<1>9. DOMAIN out' = {}
    BY <1>1
<1>10. TextInv'
    BY <1>1, <1>8, <1>9 DEF TextInv
<1> QED
    BY <1>7, <1>10

\* A text is written on a page that is still open: the batch's, or that of what
\* is beside the responses.
LEMMA TextWritten ==
    ASSUME TypeOK, TypeOK', OutputAccounted, phase # "gone", UNCHANGED <<log, shown>>,
           NEW t \in Texts, t \notin printed, printed' = printed \cup {t},
           \/ out' = Append(out, t) /\ strays' = strays
           \/ strays' = Append(strays, t) /\ out' = out
    PROVE  InOnePlace(printed', Pages')
<1>1. /\ PagesListed /\ PagesListed' /\ Len(log) \in Nat
    <2>1. PagesListed /\ PagesListed'
        BY PagesAre, PTL
    <2> QED
        BY <2>1 DEF TypeOK
<1>2. InOnePlace(printed, Pages)
    BY DEF OutputAccounted
<1>3. out \in Seq(Texts) /\ strays \in Seq(Texts)
    BY DEF TypeOK
<1>4. DOMAIN Pages' = DOMAIN Pages
    BY <1>1 DEF PagesListed
<1>5. 0..(Len(log) + 1) = {0} \cup 1..Len(log) \cup {Len(log) + 1} /\ 0 # Len(log) + 1
      /\ 0 \notin 1..Len(log) /\ Len(log) + 1 \notin 1..Len(log)
    BY <1>1
<1>6. CASE out' = Append(out, t) /\ strays' = strays
    <2> DEFINE p == Len(log) + 1
    <2>1. p \in DOMAIN Pages /\ Pages[p] = out /\ Pages'[p] = Append(Pages[p], t)
        BY <1>1, <1>5, <1>6 DEF PagesListed
    <2>2. \A i \in DOMAIN Pages : i # p => Pages'[i] = Pages[i]
        BY <1>1, <1>5, <1>6 DEF PagesListed
    <2> HIDE DEF p
    <2> QED
        BY <1>2, <1>3, <1>4, <2>1, <2>2, OneMore
<1>7. CASE strays' = Append(strays, t) /\ out' = out
    <2>1. 0 \in DOMAIN Pages /\ Pages[0] = strays /\ Pages'[0] = Append(Pages[0], t)
        BY <1>1, <1>5, <1>7 DEF PagesListed
    <2>2. \A i \in DOMAIN Pages : i # 0 => Pages'[i] = Pages[i]
        BY <1>1, <1>5, <1>7 DEF PagesListed
    <2> QED
        BY <1>2, <1>3, <1>4, <2>1, <2>2, OneMore
<1> QED
    BY <1>6, <1>7

\* What is on the open page after a text is.
LEMMA OpenPage ==
    ASSUME TypeOK, TextInv, NEW t \in Texts, out' = Append(out, t), log' = log,
           MayShow(t, Len(log) + 1)
    PROVE  \A k \in DOMAIN out' : MayShow(out'[k], Len(log') + 1)
<1>1. out \in Seq(Texts)
    BY DEF TypeOK
<1>2. /\ Len(out') = Len(out) + 1 /\ DOMAIN out = 1..Len(out) /\ Len(out) \in Nat
      /\ DOMAIN out' = 1..Len(out') /\ out'[Len(out) + 1] = t
      /\ \A k \in 1..Len(out) : out'[k] = out[k]
    BY <1>1, AppendProperties
<1>3. \A k \in DOMAIN out' : k \in DOMAIN out \/ k = Len(out) + 1
    BY <1>2
<1>4. \A k \in DOMAIN out : MayShow(out[k], Len(log) + 1)
    BY DEF TextInv
<1> QED
    BY <1>2, <1>3, <1>4

LEMMA TextRuns ==
    ASSUME TypeOK, TypeOK', OutputAccounted, TextInv, RunsOne
    PROVE  OutputAccounted' /\ TextInv'
<1>1. /\ phase = "run" /\ phase' = "run" /\ UNCHANGED <<log, shown, strays>>
    BY DEF RunsOne
<1>2. \A t \in Texts : Old(t) => Old(t)'
    BY OldRuns, OldBy
<1>3. /\ \A t \in printed \cup threads : Old(t) /\ t \in Texts
      /\ printed \cap threads = {}
      /\ \A t \in threads : t.how = "thread"
      /\ \A k \in DOMAIN out : MayShow(out[k], Len(log) + 1)
    BY <1>1 DEF TextInv, TypeOK
<1>4. \A t \in printed \cup threads : Old(t)'
    BY <1>2, <1>3
<1>5. CASE UNCHANGED <<out, printed, threads>>
    <2>1. Pages' = Pages
        BY <1>1, <1>5 DEF Pages
    <2>2. OutputAccounted'
        BY <1>1, <1>5, <2>1 DEF OutputAccounted
    <2>3. TextInv'
        BY <1>1, <1>3, <1>4, <1>5 DEF TextInv
    <2> QED
        BY <2>2, <2>3
<1>6. ASSUME NEW how \in {"print", "thread", "echo"}, NEW t \in Texts, t = Text(how)
      PROVE  Old(t)'
    <2>1. t.by = Len(log) + 1 /\ t.at = at
        BY <1>1, <1>6, NewText
    <2>2. t.by <= Len(log) + 1
        <3>1. Len(log) \in Nat
            BY DEF TypeOK
        <3> QED
            BY <2>1, <3>1
    <2> QED
        BY <2>1, <2>2, OldRuns
<1>7. CASE (Say("print") \/ Say("echo")) /\ UNCHANGED threads
    <2>1. PICK how \in {"print", "echo"} : Say(how)
        BY <1>7
    <2>2. PICK t \in Texts : t = Text(how)
        BY <1>1, NewText
    <2>3. /\ t \notin printed /\ t \notin threads /\ MayShow(t, Len(log) + 1)
        BY <1>1, <2>2, NewText
    <2>4. Old(t)'
        BY <1>6, <2>2
    <2>5. out' = Append(out, t) /\ printed' = printed \cup {t}
        BY <2>1, <2>2 DEF Say
    <2>6. InOnePlace(printed', Pages')
        BY <1>1, <2>3, <2>5, TextWritten
    <2>7. OutputAccounted'
        BY <1>1, <2>6 DEF OutputAccounted
    <2>8. \A k \in DOMAIN out' : MayShow(out'[k], Len(log') + 1)
        BY <1>1, <2>3, <2>5, OpenPage
    <2>9. TextInv'
        BY <1>1, <1>3, <1>4, <1>7, <2>3, <2>4, <2>5, <2>8 DEF TextInv
    <2> QED
        BY <2>7, <2>9
<1>8. CASE threads' = threads \cup {Text("thread")} /\ UNCHANGED <<out, printed>>
    <2>1. PICK t \in Texts : t = Text("thread")
        BY <1>1, NewText
    <2>2. t \notin printed /\ t.how = "thread"
        BY <1>1, <2>1, NewText
    <2>3. Old(t)'
        BY <1>6, <2>1
    <2>4. threads' = threads \cup {t}
        BY <1>8, <2>1
    <2>5. OutputAccounted'
        BY <1>1, <1>8 DEF OutputAccounted, Pages
    <2>6. TextInv'
        BY <1>1, <1>3, <1>4, <1>8, <2>2, <2>3, <2>4 DEF TextInv
    <2> QED
        BY <2>5, <2>6
<1> QED
    BY <1>5, <1>7, <1>8 DEF RunsOne

\* A thread prints: into the batch that runs, or beside the responses.
LEMMA TextThread ==
    ASSUME TypeOK, TypeOK', OutputAccounted, TextInv, NEW t \in threads, ThreadPrints(t)
    PROVE  OutputAccounted' /\ TextInv'
<1>1. /\ phase # "gone" /\ UNCHANGED <<phase, log, shown, at>>
      /\ threads' = threads \ {t} /\ printed' = printed \cup {t}
    BY DEF ThreadPrints
<1>2. /\ t \in Texts /\ t \notin printed /\ t.how = "thread" /\ Old(t)
      /\ \A u \in printed \cup threads : Old(u)
      /\ printed \cap threads = {}
      /\ \A u \in threads : u.how = "thread"
    BY <1>1 DEF TextInv, TypeOK
<1>3. MayShow(t, Len(log) + 1)
    BY <1>2, OldBy DEF MayShow
<1>4. InOnePlace(printed', Pages')
    BY <1>1, <1>2, TextWritten DEF ThreadPrints
<1>5. \A u \in printed' \cup threads' : Old(u)'
    BY <1>1, <1>2 DEF Old
<1>6. \A k \in DOMAIN strays' : strays'[k].how = "thread"
    <2>1. strays \in Seq(Texts) /\ \A k \in DOMAIN strays : strays[k].how = "thread"
        BY DEF TypeOK, OutputAccounted
    <2>2. strays' = strays \/ strays' = Append(strays, t)
        BY DEF ThreadPrints
    <2>3. CASE strays' = Append(strays, t)
        <3>1. /\ \A k \in 1..Len(strays) : strays'[k] = strays[k]
              /\ strays'[Len(strays) + 1] = t
              /\ DOMAIN strays = 1..Len(strays) /\ Len(strays) \in Nat
              /\ DOMAIN strays' = 1..(Len(strays) + 1)
            BY <1>2, <2>1, <2>3, AppendProperties
        <3>2. \A k \in DOMAIN strays' : k \in DOMAIN strays \/ k = Len(strays) + 1
            BY <3>1
        <3> QED
            BY <1>2, <2>1, <3>1, <3>2
    <2> QED
        BY <2>1, <2>2, <2>3
<1>7. OutputAccounted'
    BY <1>1, <1>4, <1>6 DEF OutputAccounted
<1>8. \A k \in DOMAIN out' : MayShow(out'[k], Len(log') + 1)
    <2>1. CASE out' = out
        BY <1>1, <2>1 DEF TextInv
    <2>2. CASE out' = Append(out, t)
        BY <1>1, <1>2, <1>3, <2>2, OpenPage
    <2> QED
        BY <2>1, <2>2 DEF ThreadPrints
<1>9. phase' = "idle" => out' = <<>>
    BY <1>1 DEF ThreadPrints, TextInv
<1>10. TextInv'
    BY <1>1, <1>2, <1>5, <1>8, <1>9 DEF TextInv
<1> QED
    BY <1>7, <1>10

LEMMA TextNext ==
    ASSUME TypeOK, TypeOK', OutputAccounted, TextInv, [Next]_vars
    PROVE  OutputAccounted' /\ TextInv'
<1>1. ASSUME UNCHANGED <<shown, strays, out, printed, threads, log>>,
             \/ phase' = phase /\ at' = at
             \/ phase = "idle" /\ phase' = "run"
             \/ phase' = "gone"
      PROVE  OutputAccounted' /\ TextInv'
    <2>1. Pages' = Pages
        BY <1>1 DEF Pages
    <2>2. OutputAccounted'
        BY <1>1, <2>1 DEF OutputAccounted
    <2>3. phase' # "gone" => \A t \in printed' \cup threads' : Old(t)'
        BY <1>1 DEF TextInv, Old
    <2>4. TextInv'
        BY <1>1, <2>3 DEF TextInv
    <2> QED
        BY <2>2, <2>4
<1>2. ASSUME NEW r \in Requests, Write(r) PROVE OutputAccounted' /\ TextInv'
    BY <1>1, <1>2 DEF Write
<1>3. CASE SkipBlank
    BY <1>1, <1>3 DEF SkipBlank
<1>4. CASE DieAtLine
    BY <1>1, <1>4 DEF DieAtLine
<1>5. CASE StartBatch
    BY <1>1, <1>5 DEF StartBatch, Reads
<1>6. CASE Die
    BY <1>1, <1>6 DEF Die
<1>7. CASE UNCHANGED vars
    BY <1>1, <1>7 DEF vars
<1>8. CASE RejectLine \/ DeclineSource \/ HandleInfo \/ HandleEnv \/ HandleReset
    <2>1. AnswersLine
        BY <1>8, Answers
    <2>2. /\ Responds(Head(inbox)) /\ phase = "idle" /\ phase' = "idle"
          /\ UNCHANGED <<strays, threads, printed>>
        BY <2>1 DEF AnswersLine, Reads
    <2> QED
        BY <2>2, TextResponds
<1>9. CASE EndBatch
    <2>1. /\ Responds(job) /\ phase = "run" /\ phase' = "idle"
          /\ UNCHANGED <<strays, threads, printed>>
        BY <1>9, EndResponds
    <2> QED
        BY <2>1, TextResponds
<1>10. CASE RunStatement
    BY <1>10, RunsOneStatement, TextRuns
<1>11. ASSUME NEW t \in threads, ThreadPrints(t) PROVE OutputAccounted' /\ TextInv'
    BY <1>11, TextThread
<1> QED
    BY <1>2, <1>3, <1>4, <1>5, <1>6, <1>7, <1>8, <1>9, <1>10, <1>11
       DEF Next, Handle, Run, RunStatement

-------------------------------------------------------------------------------
(* A batch, statement by statement, comes to what the whole batch does. *)

Rebind(names, x, value) == [names EXCEPT ![x] = value]

\* How far a batch gets is where it first fails, or past its end.
LEMMA StopIs ==
    ASSUME NEW code \in Seq(Statements), NEW ns, NEW i \in 1..(Len(code) + 1),
           i <= Len(code) => Session!Fails(code, ns, i),
           \A j \in 1..(i - 1) : ~Session!Fails(code, ns, j)
    PROVE  Session!Stop(code, ns) = i
<1> DEFINE First(k) == /\ k <= Len(code) => Session!Fails(code, ns, k)
                       /\ \A j \in 1..(k - 1) : ~Session!Fails(code, ns, j)
<1>1. First(i)
    OBVIOUS
<1>2. Len(code) \in Nat
    OBVIOUS
<1>3. ASSUME NEW k \in 1..(Len(code) + 1), First(k) PROVE k = i
    <2>1. ~(k < i)
        <3> SUFFICES ASSUME k < i PROVE FALSE
            OBVIOUS
        <3>1. k <= Len(code) /\ k \in 1..(i - 1)
            BY <1>2
        <3> QED
            BY <1>1, <1>3, <3>1
    <2>2. ~(i < k)
        <3> SUFFICES ASSUME i < k PROVE FALSE
            OBVIOUS
        <3>1. i <= Len(code) /\ i \in 1..(k - 1)
            BY <1>2
        <3> QED
            BY <1>1, <1>3, <3>1
    <2>3. i \in Int /\ k \in Int
        BY <1>2
    <2> QED
        BY <2>1, <2>2, <2>3
<1>4. Session!Stop(code, ns) = CHOOSE k \in 1..(Len(code) + 1) : First(k)
    BY DEF Session!Stop
<1> HIDE DEF First
<1> QED
    BY <1>1, <1>3, <1>4

\* One statement more.
LEMMA UpToNext ==
    ASSUME NEW code, NEW ns, NEW n, NEW i \in Nat \ {0}
    PROVE  /\ UpTo(code, ns, n, i) = [x \in Names |-> UpTo(code, ns, n, i)[x]]
           /\ \A x \in Names : UpTo(code, ns, n, i + 1)[x] =
                IF Session!Binds(code[i], x) THEN n ELSE UpTo(code, ns, n, i)[x]
<1>1. 1..(i + 1 - 1) = 1..(i - 1) \cup {i}
    OBVIOUS
<1> HIDE DEF Session!Binds
<1> QED
    BY <1>1 DEF UpTo

LEMMA UpToSame ==
    ASSUME NEW code, NEW ns, NEW n, NEW i \in Nat \ {0}, code[i].op # "bind"
    PROVE  UpTo(code, ns, n, i + 1) = UpTo(code, ns, n, i)
<1>1. \A x \in Names : ~Session!Binds(code[i], x)
    BY DEF Session!Binds
<1> DEFINE f == UpTo(code, ns, n, i)
           g == UpTo(code, ns, n, i + 1)
<1>2. \A x \in Names : g[x] = IF Session!Binds(code[i], x) THEN n ELSE f[x]
    BY UpToNext
<1>3. f = [x \in Names |-> f[x]] /\ g = [x \in Names |-> g[x]]
    BY DEF UpTo
<1> HIDE DEF f, g
<1>4. \A x \in Names : g[x] = f[x]
    BY <1>1, <1>2
<1> QED
    BY <1>3, <1>4 DEF f, g

LEMMA UpToBinds ==
    ASSUME NEW code, NEW ns, NEW n, NEW i \in Nat \ {0}, code[i].op = "bind"
    PROVE  UpTo(code, ns, n, i + 1) = Rebind(UpTo(code, ns, n, i), code[i].name, n)
<1>1. \A x \in Names : Session!Binds(code[i], x) <=> x = code[i].name
    BY DEF Session!Binds
<1> DEFINE f == UpTo(code, ns, n, i)
           g == UpTo(code, ns, n, i + 1)
<1>2. \A x \in Names : g[x] = IF Session!Binds(code[i], x) THEN n ELSE f[x]
    BY UpToNext
<1>3. f = [x \in Names |-> f[x]] /\ g = [x \in Names |-> g[x]]
    BY DEF UpTo
<1> HIDE DEF f, g
<1>4. \A x \in Names : g[x] = IF x = code[i].name THEN n ELSE f[x]
    BY <1>1, <1>2
<1>5. g = Rebind(f, code[i].name, n)
    BY <1>3, <1>4 DEF Rebind
<1> QED
    BY <1>5 DEF f, g

\* A name that is used is bound, or it fails.
LEMMA UseFails ==
    ASSUME NEW code, NEW ns, NEW n, n # 0, NEW i, code[i].op = "use", code[i].name \in Names
    PROVE  Session!Fails(code, ns, i) <=> UpTo(code, ns, n, i)[code[i].name] = 0
BY DEF Session!Fails, UpTo

\* The end of a batch that fails at i.
LEMMA FailedAt ==
    ASSUME NEW code \in Seq(Statements), NEW ns, NEW n, NEW i \in 1..Len(code),
           Session!Fails(code, ns, i), \A j \in 1..(i - 1) : ~Session!Fails(code, ns, j)
    PROVE  /\ Session!After(code, ns, n) = UpTo(code, ns, n, i)
           /\ Session!Error(code, ns) = IF code[i].op = "exit" THEN "SystemExit" ELSE "traceback"
<1>1. i \in 1..(Len(code) + 1) /\ i <= Len(code)
    OBVIOUS
<1>2. Session!Stop(code, ns) = i
    BY <1>1, StopIs
<1>3. Session!After(code, ns, n) = UpTo(code, ns, n, i)
    BY <1>1, <1>2 DEF Session!After, UpTo
<1>4. Session!Error(code, ns) = IF code[i].op = "exit" THEN "SystemExit" ELSE "traceback"
    BY <1>1, <1>2 DEF Session!Error
<1> QED
    BY <1>3, <1>4

\* The end of a batch in which nothing fails: what its last statement leaves.
LEMMA RanThrough ==
    ASSUME NEW code \in Seq(Statements), NEW ns, NEW n \in Nat \ {0},
           \A j \in 1..Len(code) : ~Session!Fails(code, ns, j)
    PROVE  LET m == Len(code)
               end == UpTo(code, ns, n, m + 1)
           IN  /\ m = 0 \/ code[m].op \notin {"use", "unprintable"} =>
                    Session!After(code, ns, n) = end /\ Session!Error(code, ns) = "none"
               /\ m # 0 /\ code[m].op = "use" /\ code[m].name \in Names =>
                    /\ Session!After(code, ns, n) = Rebind(end, "_", end[code[m].name])
                    /\ Session!Error(code, ns) = "none"
               /\ m # 0 /\ code[m].op = "unprintable" =>
                    /\ Session!After(code, ns, n) = Rebind(end, "_", n)
                    /\ Session!Error(code, ns) = "traceback"
<1> DEFINE m == Len(code)
           end == UpTo(code, ns, n, m + 1)
           bound(x) == IF \E j \in 1..(m + 1 - 1) : Session!Binds(code[j], x) THEN n ELSE ns[x]
           echo == IF code = <<>> THEN 0
                   ELSE IF code[m].op = "use" THEN bound(code[m].name)
                   ELSE IF code[m].op = "unprintable" THEN n ELSE 0
<1>1. m \in Nat /\ m + 1 \in 1..(Len(code) + 1) /\ ~(m + 1 <= m) /\ 1..(m + 1 - 1) = 1..Len(code)
      /\ (m = 0 <=> code = <<>>) /\ n # 0
    OBVIOUS
<1>2. Session!Stop(code, ns) = m + 1
    BY <1>1, StopIs
<1>3. end = [x \in Names |-> bound(x)]
    BY DEF UpTo
<1>4. Session!After(code, ns, n) = [x \in Names |-> IF x = "_" /\ echo # 0 THEN echo ELSE bound(x)]
    <2> DEFINE last == IF code = <<>> \/ m + 1 <= Len(code) THEN 0
                       ELSE IF code[Len(code)].op = "use" THEN bound(code[Len(code)].name)
                       ELSE IF code[Len(code)].op = "unprintable" THEN n ELSE 0
    <2>1. Session!After(code, ns, n) = [x \in Names |-> IF x = "_" /\ last # 0 THEN last ELSE bound(x)]
        BY <1>2 DEF Session!After
    <2>2. last = echo
        BY <1>1
    <2> HIDE DEF last, echo, bound
    <2> QED
        BY <2>1, <2>2
<1>5. Session!Error(code, ns) =
            IF code # <<>> /\ code[m].op = "unprintable" THEN "traceback" ELSE "none"
    BY <1>1, <1>2 DEF Session!Error
<1>6. m # 0 /\ code[m].op = "use" /\ code[m].name \in Names => bound(code[m].name) # 0
    <2> SUFFICES ASSUME m # 0, code[m].op = "use", code[m].name \in Names
                 PROVE  bound(code[m].name) # 0
        OBVIOUS
    <2>1. m \in 1..Len(code)
        BY <1>1
    <2>2. UpTo(code, ns, n, m)[code[m].name] # 0
        BY <1>1, <2>1, UseFails
    <2>3. end = UpTo(code, ns, n, m)
        <3>1. m \in Nat \ {0}
            BY <1>1
        <3>2. code[m].op # "bind"
            OBVIOUS
        <3> HIDE DEF m
        <3> QED
            BY <3>1, <3>2, UpToSame
    <2> HIDE DEF end, bound, m
    <2> QED
        BY <1>3, <2>2, <2>3
<1>7. "_" \in Names
    BY WorkerAssumption
<1> HIDE DEF m, end, bound
<1>8. m = 0 \/ code[m].op \notin {"use", "unprintable"} =>
        Session!After(code, ns, n) = end /\ Session!Error(code, ns) = "none"
    BY <1>1, <1>3, <1>4, <1>5
<1>9. m # 0 /\ code[m].op = "use" /\ code[m].name \in Names =>
        /\ Session!After(code, ns, n) = Rebind(end, "_", end[code[m].name])
        /\ Session!Error(code, ns) = "none"
    BY <1>1, <1>3, <1>4, <1>5, <1>6, <1>7 DEF Rebind
<1>10. m # 0 /\ code[m].op = "unprintable" =>
        /\ Session!After(code, ns, n) = Rebind(end, "_", n)
        /\ Session!Error(code, ns) = "traceback"
    BY <1>1, <1>3, <1>4, <1>5, <1>7 DEF Rebind
<1> QED
    BY <1>8, <1>9, <1>10 DEF m, end

\* A statement that does not fail leads to the next, or to the end.
LEMMA GoesOn ==
    ASSUME NEW code \in Seq(Statements), NEW ns, NEW n \in Nat \ {0}, NEW i \in 1..Len(code),
           NEW err, NEW names, InStep(code, ns, n, i, err, names),
           ~Session!Fails(code, ns, i)
    PROVE  /\ err = "none" /\ names = UpTo(code, ns, n, i)
           /\ i < Len(code) => InStep(code, ns, n, i + 1, err, UpTo(code, ns, n, i + 1))
           /\ i = Len(code) => \A j \in 1..Len(code) : ~Session!Fails(code, ns, j)
<1>1. /\ err = "none" /\ names = UpTo(code, ns, n, i)
      /\ \A j \in 1..(i - 1) : ~Session!Fails(code, ns, j)
    BY DEF InStep
<1>2. \A j \in 1..i : ~Session!Fails(code, ns, j)
    <2>1. 1..i = 1..(i - 1) \cup {i}
        OBVIOUS
    <2> QED
        BY <1>1, <2>1
<1>3. i < Len(code) => i + 1 <= Len(code) /\ 1..(i + 1 - 1) = 1..i
    OBVIOUS
<1> QED
    BY <1>1, <1>2, <1>3 DEF InStep

\* One that fails ends the batch.
LEMMA GivesUp ==
    ASSUME NEW code \in Seq(Statements), NEW ns, NEW n \in Nat \ {0}, NEW i \in 1..Len(code),
           NEW err, NEW names, InStep(code, ns, n, i, err, names),
           Session!Fails(code, ns, i)
    PROVE  InStep(code, ns, n, Len(code) + 1,
                  IF code[i].op = "exit" THEN "SystemExit" ELSE "traceback", names)
<1>1. /\ names = UpTo(code, ns, n, i)
      /\ \A j \in 1..(i - 1) : ~Session!Fails(code, ns, j)
    BY DEF InStep
<1>2. ~(Len(code) + 1 <= Len(code))
    OBVIOUS
<1>3. /\ Session!After(code, ns, n) = UpTo(code, ns, n, i)
      /\ Session!Error(code, ns) = IF code[i].op = "exit" THEN "SystemExit" ELSE "traceback"
    BY <1>1, FailedAt
<1> QED
    BY <1>1, <1>2, <1>3 DEF InStep

\* A statement that leaves the namespace alone.
LEMMA StepPlain ==
    ASSUME NEW code \in Seq(Statements), NEW ns, NEW n \in Nat \ {0}, NEW i \in 1..Len(code),
           NEW err, NEW names, InStep(code, ns, n, i, err, names),
           ~Session!Fails(code, ns, i), code[i].op # "bind",
           i = Len(code) => code[i].op \notin {"use", "unprintable"}
    PROVE  InStep(code, ns, n, i + 1, err, names)
<1>1. err = "none" /\ names = UpTo(code, ns, n, i + 1)
    BY GoesOn, UpToSame
<1>2. i < Len(code) \/ (i = Len(code) /\ ~(i + 1 <= Len(code)) /\ Len(code) # 0)
    OBVIOUS
<1>3. CASE i < Len(code)
    BY <1>1, <1>3, GoesOn
<1>4. CASE i = Len(code) /\ ~(i + 1 <= Len(code)) /\ Len(code) # 0
    <2>1. \A j \in 1..Len(code) : ~Session!Fails(code, ns, j)
        BY <1>4, GoesOn
    <2>2. /\ Session!After(code, ns, n) = UpTo(code, ns, n, Len(code) + 1)
          /\ Session!Error(code, ns) = "none"
        BY <1>4, <2>1, RanThrough
    <2> QED
        BY <1>1, <1>4, <2>2 DEF InStep
<1> QED
    BY <1>2, <1>3, <1>4

LEMMA StepBind ==
    ASSUME NEW code \in Seq(Statements), NEW ns, NEW n \in Nat \ {0}, NEW i \in 1..Len(code),
           NEW err, NEW names, InStep(code, ns, n, i, err, names), code[i].op = "bind"
    PROVE  InStep(code, ns, n, i + 1, err, Rebind(names, code[i].name, n))
<1>1. ~Session!Fails(code, ns, i)
    BY DEF Session!Fails
<1>2. err = "none" /\ Rebind(names, code[i].name, n) = UpTo(code, ns, n, i + 1)
    <2>1. err = "none" /\ names = UpTo(code, ns, n, i)
        BY <1>1, GoesOn
    <2>2. UpTo(code, ns, n, i + 1) = Rebind(UpTo(code, ns, n, i), code[i].name, n)
        <3>1. i \in Nat \ {0}
            OBVIOUS
        <3> QED
            BY <3>1, UpToBinds
    <2> QED
        BY <2>1, <2>2
<1>3. i < Len(code) \/ (i = Len(code) /\ ~(i + 1 <= Len(code)) /\ Len(code) # 0)
    OBVIOUS
<1>4. CASE i < Len(code)
    BY <1>1, <1>2, <1>4, GoesOn
<1>5. CASE i = Len(code) /\ ~(i + 1 <= Len(code)) /\ Len(code) # 0
    <2>1. \A j \in 1..Len(code) : ~Session!Fails(code, ns, j)
        BY <1>1, <1>5, GoesOn
    <2>2. code[Len(code)].op \notin {"use", "unprintable"}
        BY <1>5
    <2>3. /\ Session!After(code, ns, n) = UpTo(code, ns, n, Len(code) + 1)
          /\ Session!Error(code, ns) = "none"
        BY <1>5, <2>1, <2>2, RanThrough
    <2> QED
        BY <1>2, <1>5, <2>3 DEF InStep
<1> QED
    BY <1>3, <1>4, <1>5

\* A trailing expression: its value, if it has one, is bound to "_".
LEMMA StepUse ==
    ASSUME NEW code \in Seq(Statements), NEW ns, NEW n \in Nat \ {0}, NEW i \in 1..Len(code),
           NEW err, NEW names, InStep(code, ns, n, i, err, names),
           code[i].op = "use", code[i].name \in Names, names[code[i].name] # 0, i = Len(code)
    PROVE  InStep(code, ns, n, i + 1, err, Rebind(names, "_", names[code[i].name]))
<1>1. ~Session!Fails(code, ns, i)
    <2>1. i <= Len(code) /\ n # 0
        OBVIOUS
    <2>2. UpTo(code, ns, n, i)[code[i].name] # 0
        BY <2>1 DEF InStep
    <2> QED
        BY <2>1, <2>2, UseFails
<1>2. err = "none" /\ names = UpTo(code, ns, n, i + 1)
    <2>1. err = "none" /\ names = UpTo(code, ns, n, i)
        BY <1>1, GoesOn
    <2>2. i \in Nat \ {0} /\ code[i].op # "bind"
        OBVIOUS
    <2> QED
        BY <2>1, <2>2, UpToSame
<1>3. \A j \in 1..Len(code) : ~Session!Fails(code, ns, j)
    BY <1>1, GoesOn
<1>4. ~(i + 1 <= Len(code)) /\ Len(code) # 0
    OBVIOUS
<1>5. /\ Session!After(code, ns, n) = Rebind(names, "_", names[code[i].name])
      /\ Session!Error(code, ns) = "none"
    BY <1>2, <1>3, <1>4, RanThrough
<1> QED
    BY <1>2, <1>4, <1>5 DEF InStep

LEMMA StepUnprintable ==
    ASSUME NEW code \in Seq(Statements), NEW ns, NEW n \in Nat \ {0}, NEW i \in 1..Len(code),
           NEW err, NEW names, InStep(code, ns, n, i, err, names),
           code[i].op = "unprintable", i = Len(code)
    PROVE  InStep(code, ns, n, Len(code) + 1, "traceback", Rebind(names, "_", n))
<1>1. ~Session!Fails(code, ns, i)
    BY DEF Session!Fails
<1>2. err = "none" /\ names = UpTo(code, ns, n, i + 1)
    <2>1. err = "none" /\ names = UpTo(code, ns, n, i)
        BY <1>1, GoesOn
    <2>2. i \in Nat \ {0} /\ code[i].op # "bind"
        OBVIOUS
    <2> QED
        BY <2>1, <2>2, UpToSame
<1>3. \A j \in 1..Len(code) : ~Session!Fails(code, ns, j)
    BY <1>1, GoesOn
<1>4. ~(i + 1 <= Len(code)) /\ Len(code) # 0
    OBVIOUS
<1>5. /\ Session!After(code, ns, n) = Rebind(names, "_", n)
      /\ Session!Error(code, ns) = "traceback"
    BY <1>2, <1>3, <1>4, RanThrough
<1> QED
    BY <1>4, <1>5 DEF InStep

LEMMA BatchInit == Init => BatchInv
BY DEF Init, BatchInv

\* One statement of the batch.
LEMMA BatchRuns ==
    ASSUME TypeOK, BatchInv, RunStatement
    PROVE  BatchInv'
<1>1. /\ phase = "run" /\ at <= Len(job.code)
      /\ UNCHANGED <<phase, job, settled, log>>
    BY RunsOneStatement DEF RunsOne
<1> DEFINE code == job.code
           n == Len(log) + 1
<1>2. /\ code \in Seq(Statements) /\ n \in Nat \ {0} /\ at \in 1..Len(code)
      /\ code[at] \in Statements
    BY <1>1, Statement
<1>3. InStep(code, settled, n, at, error, namespace)
    BY <1>1 DEF BatchInv
<1>4. SUFFICES InStep(code, settled, n, at', error', namespace')
    BY <1>1 DEF BatchInv
<1>5. Go => at' = at + 1 /\ error' = error
    BY DEF Go
<1>6. \A err : Abort(err) => at' = Len(code) + 1 /\ error' = err
    BY DEF Abort
<1>7. CASE RunBind
    <2>1. /\ code[at].op = "bind"
          /\ namespace' = Rebind(namespace, code[at].name, n)
          /\ at' = at + 1 /\ error' = error
        BY <1>5, <1>7 DEF RunBind, Runs, Rebind
    <2> HIDE DEF code, n
    <2> QED
        BY <1>2, <1>3, <2>1, StepBind
<1>8. CASE RunUse
    <2>1. /\ code[at].op = "use" /\ at' = at + 1 /\ error' = error
          /\ namespace[code[at].name] # 0
          /\ IF at = Len(code)
             THEN namespace' = Rebind(namespace, "_", namespace[code[at].name])
             ELSE namespace' = namespace
        BY <1>5, <1>8 DEF RunUse, Runs, Trailing, Rebind
    <2>2. code[at].name \in Names
        BY <1>2, <2>1 DEF Statements
    <2> HIDE DEF code, n
    <2>3. CASE at = Len(code)
        BY <1>2, <1>3, <2>1, <2>2, <2>3, StepUse
    <2>4. CASE at # Len(code)
        <3>1. ~Session!Fails(code, settled, at)
            <4>1. at <= Len(code) /\ n # 0
                BY <1>2
            <4>2. UpTo(code, settled, n, at)[code[at].name] # 0
                BY <1>3, <2>1, <4>1 DEF InStep
            <4>3. code[at].op = "use"
                BY <2>1
            <4> QED
                BY <2>2, <4>1, <4>2, <4>3, UseFails
        <3> QED
            BY <1>2, <1>3, <2>1, <2>4, <3>1, StepPlain
    <2> QED
        BY <2>3, <2>4
<1>9. CASE RunUnprintable
    <2>1. /\ code[at].op = "unprintable"
          /\ IF at = Len(code)
             THEN /\ at' = Len(code) + 1 /\ error' = "traceback"
                  /\ namespace' = Rebind(namespace, "_", n)
             ELSE at' = at + 1 /\ error' = error /\ namespace' = namespace
        BY <1>5, <1>6, <1>9 DEF RunUnprintable, Runs, Trailing, Rebind
    <2>2. ~Session!Fails(code, settled, at)
        BY <2>1 DEF Session!Fails
    <2> HIDE DEF code, n
    <2>3. CASE at = Len(code)
        BY <1>2, <1>3, <2>1, <2>3, StepUnprintable
    <2>4. CASE at # Len(code)
        BY <1>2, <1>3, <2>1, <2>2, <2>4, StepPlain
    <2> QED
        BY <2>3, <2>4
<1>10. CASE RunFails
    <2>1. /\ code[at].op = "raise" \/ (code[at].op = "use" /\ namespace[code[at].name] = 0)
          /\ at' = Len(code) + 1 /\ error' = "traceback" /\ namespace' = namespace
        BY <1>6, <1>10 DEF RunFails, Runs
    <2>2. code[at].op = "use" => code[at].name \in Names
        BY <1>2 DEF Statements
    <2> HIDE DEF code, n
    <2>3. Session!Fails(code, settled, at)
        <3>1. CASE code[at].op = "raise"
            BY <3>1 DEF Session!Fails
        <3>2. CASE code[at].op = "use" /\ namespace[code[at].name] = 0
            BY <1>2, <1>3, <2>2, <3>2, UseFails DEF InStep
        <3> QED
            BY <2>1, <3>1, <3>2
    <2>4. InStep(code, settled, n, Len(code) + 1,
                 IF code[at].op = "exit" THEN "SystemExit" ELSE "traceback", namespace)
        BY <1>2, <1>3, <2>3, GivesUp
    <2>5. (IF code[at].op = "exit" THEN "SystemExit" ELSE "traceback") = "traceback"
        BY <2>1
    <2> QED
        BY <2>1, <2>4, <2>5
<1>11. CASE RunInput
    <2>1. /\ code[at].op = "input"
          /\ at' = Len(code) + 1 /\ error' = "traceback" /\ namespace' = namespace
        BY <1>6, <1>11 DEF RunInput, Runs
    <2>2. Session!Fails(code, settled, at)
        BY <2>1 DEF Session!Fails
    <2> HIDE DEF code, n
    <2>3. InStep(code, settled, n, Len(code) + 1,
                 IF code[at].op = "exit" THEN "SystemExit" ELSE "traceback", namespace)
        BY <1>2, <1>3, <2>2, GivesUp
    <2> QED
        BY <2>1, <2>3
<1>12. CASE RunExit
    <2>1. /\ code[at].op = "exit"
          /\ at' = Len(code) + 1 /\ error' = "SystemExit" /\ namespace' = namespace
        BY <1>6, <1>12 DEF RunExit, Runs
    <2>2. Session!Fails(code, settled, at)
        BY <2>1 DEF Session!Fails
    <2> HIDE DEF code, n
    <2>3. InStep(code, settled, n, Len(code) + 1,
                 IF code[at].op = "exit" THEN "SystemExit" ELSE "traceback", namespace)
        BY <1>2, <1>3, <2>2, GivesUp
    <2> QED
        BY <2>1, <2>3
<1>13. CASE RunPrint \/ RunThread
    <2>1. /\ code[at].op \in {"print", "thread"}
          /\ at' = at + 1 /\ error' = error /\ namespace' = namespace
        BY <1>5, <1>13 DEF RunPrint, RunThread, Runs
    <2>2. ~Session!Fails(code, settled, at)
        BY <2>1 DEF Session!Fails
    <2> HIDE DEF code, n
    <2> QED
        BY <1>2, <1>3, <2>1, <2>2, StepPlain
<1> QED
    BY <1>7, <1>8, <1>9, <1>10, <1>11, <1>12, <1>13 DEF RunStatement

\* The first step of a batch: nothing has run.
LEMMA BatchStarts ==
    ASSUME NEW code \in Seq(Statements), NEW ns \in [Names -> 0..MaxRequests], NEW n \in Nat \ {0}
    PROVE  InStep(code, ns, n, 1, "none", ns)
<1>1. 1..(1 - 1) = {}
    OBVIOUS
<1>2. UpTo(code, ns, n, 1) = ns
    BY <1>1 DEF UpTo
<1>3. CASE code # <<>>
    <2>1. 1 <= Len(code)
        BY <1>3
    <2> QED
        BY <1>1, <1>2, <2>1 DEF InStep
<1>4. CASE code = <<>>
    <2>1. Len(code) = 0 /\ ~(1 <= Len(code)) /\ UpTo(code, ns, n, Len(code) + 1) = ns
        BY <1>2, <1>4
    <2>2. \A j \in 1..Len(code) : ~Session!Fails(code, ns, j)
        BY <2>1
    <2>3. Session!After(code, ns, n) = ns /\ Session!Error(code, ns) = "none"
        BY <2>1, <2>2, RanThrough
    <2> QED
        BY <2>1, <2>3 DEF InStep
<1> QED
    BY <1>3, <1>4

LEMMA BatchNext ==
    ASSUME TypeOK, BatchInv, [Next]_vars
    PROVE  BatchInv'
<1>1. ASSUME UNCHANGED <<job, at, namespace, settled, error, log>>,
             phase' = phase \/ phase' = "gone"
      PROVE  BatchInv'
    BY <1>1 DEF BatchInv
<1>3. ASSUME NEW r \in Requests, Write(r) PROVE BatchInv'
    BY <1>1, <1>3 DEF Write
<1>4. CASE SkipBlank \/ DieAtLine
    BY <1>1, <1>4 DEF SkipBlank, DieAtLine
<1>5. CASE RejectLine \/ DeclineSource \/ HandleInfo \/ HandleEnv \/ HandleReset
    <2>1. AnswersLine
        BY <1>5, Answers
    <2>2. Responds(Head(inbox)) /\ phase' = "idle"
        BY <2>1 DEF AnswersLine, Reads
    <2> QED
        BY <2>2 DEF Responds, BatchInv
<1>6. CASE StartBatch
    <2>1. /\ Reads({"exec"}) /\ phase' = "run" /\ job' = Head(inbox) /\ at' = 1
          /\ UNCHANGED <<sent, namespace, settled, log, error>>
        BY <1>6 DEF StartBatch
    <2>2. /\ Head(inbox) \in Requests /\ Head(inbox).kind \in {"exec"} /\ phase = "idle"
          /\ Len(log) + 1 \in 1..MaxRequests
        BY <2>1, ReadsLine
    <2>3. job'.code \in Seq(Statements)
        BY <2>1, <2>2, WorkerAssumption
    <2>4. namespace = settled /\ error = "none" /\ settled \in [Names -> 0..MaxRequests]
        BY <2>2 DEF BatchInv, TypeOK
    <2>5. Len(log) + 1 \in Nat \ {0}
        BY <2>2, Bounds
    <2>6. InStep(job'.code, settled, Len(log) + 1, 1, "none", settled)
        BY <2>3, <2>4, <2>5, BatchStarts
    <2> QED
        BY <2>1, <2>4, <2>6 DEF BatchInv
<1>7. CASE RunStatement
    BY <1>7, BatchRuns
<1>8. CASE EndBatch
    <2>1. Responds(job) /\ phase' = "idle"
        BY <1>8, EndResponds
    <2> QED
        BY <2>1 DEF Responds, BatchInv
<1>9. ASSUME NEW t \in threads, ThreadPrints(t) PROVE BatchInv'
    BY <1>1, <1>9 DEF ThreadPrints
<1>10. CASE Die
    BY <1>1, <1>10 DEF Die
<1>11. CASE UNCHANGED vars
    BY <1>1, <1>11 DEF vars
<1> QED
    BY <1>3, <1>4, <1>5, <1>6, <1>7, <1>8, <1>9, <1>10, <1>11
       DEF Next, Handle, Run, RunStatement

-------------------------------------------------------------------------------
(* The theorems. *)

LEMMA WorkerInvInit == Init => WorkerInv
BY TypeInit, OneResponseInit, TextInit, BatchInit DEF WorkerInv

LEMMA WorkerInvNext == WorkerInv /\ [Next]_vars => WorkerInv'
<1> SUFFICES ASSUME WorkerInv, [Next]_vars PROVE WorkerInv'
    OBVIOUS
<1>1. TypeOK /\ OneResponseEach /\ OutputAccounted /\ TextInv /\ BatchInv
    BY DEF WorkerInv
<1>2. TypeOK'
    BY <1>1, TypeNext
<1> QED
    BY <1>1, <1>2, OneResponseNext, TextNext, BatchNext DEF WorkerInv

\* The worker's invariant: its types, its responses, its output, and that a batch
\* gets statement by statement to what it does as a whole (wrapper.py).
THEOREM WorkerInvariant == Spec => []WorkerInv
BY WorkerInvInit, WorkerInvNext, PTL DEF Spec

\* The state of the worker process is well-formed; there is never more than one
\* response to a line that was read (wrapper.py, main).
THEOREM WorkerTypes == Spec => []TypeOK
<1>1. WorkerInv => TypeOK
    BY DEF WorkerInv
<1> QED
    BY <1>1, WorkerInvariant, PTL

\* Each line but the blank ones gets exactly one response, in the order the lines
\* were written, whatever its code does, up to the one at which the worker dies
\* (wrapper.py, main and _respond).
THEOREM WorkerAnswersEach == Spec => []OneResponseEach
<1>1. WorkerInv => OneResponseEach
    BY DEF WorkerInv
<1> QED
    BY <1>1, WorkerInvariant, PTL

\* Every text printed is in one place: the response of its own request, or for a
\* thread's text that of a later one or beside the responses (wrapper.py,
\* handle_exec).
THEOREM WorkerAccountsOutput == Spec => []OutputAccounted
<1>1. WorkerInv => OutputAccounted
    BY DEF WorkerInv
<1> QED
    BY <1>1, WorkerInvariant, PTL

\* A line that is answered at once is a step of the session.
LEMMA AnswersStep ==
    ASSUME WorkerInv,
           RejectLine \/ DeclineSource \/ HandleInfo \/ HandleEnv \/ HandleReset
    PROVE  Session!Next
<1>1. TypeOK /\ BatchInv
    BY DEF WorkerInv
<1>2. AnswersLine
    BY <1>1, Answers
<1>3. Head(inbox) \in Requests /\ phase = "idle"
    BY <1>1, <1>2, ReadsLine DEF AnswersLine
<1>4. namespace = settled /\ settled' = namespace'
    BY <1>1, <1>2, <1>3 DEF BatchInv, AnswersLine, Responds
<1>5. CASE RejectLine
    <2>1. /\ Head(inbox).kind \in {"malformed", "unknown"} /\ namespace' = namespace
          /\ Session!Answer(Head(inbox), FALSE, "not ok", {})
        BY <1>5 DEF RejectLine, Reads, Respond
    <2>2. Session!Decline(Head(inbox))
        BY <1>4, <2>1 DEF Session!Decline, Session!Answer
    <2> QED
        BY <1>3, <2>2 DEF Session!Next
<1>6. CASE DeclineSource
    <2>1. /\ Head(inbox).kind \in {"incomplete", "invalid"} /\ namespace' = namespace
          /\ Session!Answer(Head(inbox), Head(inbox).kind = "incomplete",
                            IF Head(inbox).kind = "invalid" THEN "traceback" ELSE "none", {})
        BY <1>6 DEF DeclineSource, Reads, Respond
    <2>2. Session!Decline(Head(inbox))
        BY <1>4, <2>1 DEF Session!Decline, Session!Answer
    <2> QED
        BY <1>3, <2>2 DEF Session!Next
<1>7. CASE HandleInfo
    <2>1. /\ Head(inbox).kind = "info" /\ namespace' = namespace
          /\ Session!Answer(Head(inbox), FALSE, "none", Bound)
        BY <1>7 DEF HandleInfo, Reads, Respond
    <2>2. Bound = {x \in Names : settled[x] # 0}
        BY <1>4 DEF Bound
    <2>3. Session!Info(Head(inbox))
        BY <1>4, <2>1, <2>2 DEF Session!Info, Session!Answer
    <2> QED
        BY <1>3, <2>3 DEF Session!Next
<1>8. CASE HandleEnv
    <2>1. /\ Head(inbox).kind = "env" /\ namespace' = namespace
          /\ Session!Answer(Head(inbox), FALSE, "none", {})
        BY <1>8 DEF HandleEnv, Reads, Respond
    <2>2. Session!Env(Head(inbox))
        BY <1>4, <2>1 DEF Session!Env
    <2> QED
        BY <1>3, <2>2 DEF Session!Next
<1>9. CASE HandleReset
    <2>1. /\ Head(inbox).kind = "reset" /\ namespace' = Session!Fresh
          /\ Session!Answer(Head(inbox), FALSE, "none", {})
        BY <1>9 DEF HandleReset, Reads, Respond
    <2>2. Session!Reset(Head(inbox))
        BY <1>4, <2>1 DEF Session!Reset
    <2> QED
        BY <1>3, <2>2 DEF Session!Next
<1> QED
    BY <1>5, <1>6, <1>7, <1>8, <1>9

\* So is the end of a batch: all of its statements at once.
LEMMA EndStep ==
    ASSUME WorkerInv, EndBatch
    PROVE  Session!Next
<1>1. TypeOK /\ BatchInv
    BY DEF WorkerInv
<1>2. /\ phase = "run" /\ at > Len(job.code) /\ namespace' = namespace
      /\ settled' = namespace' /\ Session!Answer(job, FALSE, error, {})
    BY DEF EndBatch, Respond
<1>3. job \in Requests /\ job.kind = "exec" /\ Len(job.code) \in Nat /\ at \in Nat
    BY <1>1, <1>2, Statement
<1>4. ~(at <= Len(job.code))
    BY <1>2, <1>3
<1>5. /\ error = Session!Error(job.code, settled)
      /\ namespace = Session!After(job.code, settled, Len(log) + 1)
    BY <1>1, <1>2, <1>4 DEF BatchInv, InStep
<1>6. Session!Exec(job)
    BY <1>2, <1>3, <1>5 DEF Session!Exec
<1> QED
    BY <1>3, <1>6 DEF Session!Next

LEMMA SessionStep == WorkerInv /\ [Next]_vars => [Session!Next]_<<settled, log>>
<1> SUFFICES ASSUME WorkerInv, [Next]_vars PROVE [Session!Next]_<<settled, log>>
    OBVIOUS
<1>1. ASSUME NEW r \in Requests, Write(r) PROVE UNCHANGED <<settled, log>>
    BY <1>1 DEF Write
<1>2. CASE SkipBlank \/ DieAtLine \/ StartBatch \/ Die
    BY <1>2 DEF SkipBlank, DieAtLine, StartBatch, Die
<1>3. CASE RunStatement
    BY <1>3, RunsOneStatement DEF RunsOne
<1>4. ASSUME NEW t \in threads, ThreadPrints(t) PROVE UNCHANGED <<settled, log>>
    BY <1>4 DEF ThreadPrints
<1>5. CASE UNCHANGED vars
    BY <1>5 DEF vars
<1>6. CASE RejectLine \/ DeclineSource \/ HandleInfo \/ HandleEnv \/ HandleReset
    BY <1>6, AnswersStep
<1>7. CASE EndBatch
    BY <1>7, EndStep
<1> QED
    BY <1>1, <1>2, <1>3, <1>4, <1>5, <1>6, <1>7 DEF Next, Handle, Run, RunStatement

\* The worker implements ReplSession: a batch of any statements is one step on the
\* namespace, up to its first failure, although it runs one statement after the
\* other with threads of earlier batches beside it (wrapper.py, handle_exec).
THEOREM WorkerImplementsSession == Spec => SessionSpec
<1>1. Init => Session!Init
    BY DEF Init, Session!Init
<1> QED
    BY <1>1, WorkerInvariant, SessionStep, PTL DEF Spec, SessionSpec, Session!Spec

===============================================================================
