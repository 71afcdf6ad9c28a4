------------------------------ MODULE ReplWorker ------------------------------
(***************************************************************************)
(* The worker process (src/sandbox/wrapper.py): its request loop and the   *)
(* execution of a batch, statement by statement, in one namespace; threads *)
(* that user code has left running print whenever they like.               *)
(* WorkerPipe has the same process seen from the pipes.                    *)
(***************************************************************************)
EXTENDS Naturals, Sequences

CONSTANTS
    Names,       \* variables of user code
    Requests,    \* the lines the server may write
    MaxRequests  \* bound: lines in one behaviour

Statements == [op : {"bind", "use"}, name : Names]
    \cup [op : {"raise", "exit", "input", "print", "thread", "loop", "unprintable"}]

ASSUME WorkerAssumption ==
    /\ "_" \in Names
    /\ MaxRequests \in Nat
    /\ \A r \in Requests :
          IF r.kind = "exec" THEN r.code \in Seq(Statements)
          ELSE r.kind \in {"blank", "malformed", "no object", "unknown", "incomplete", "invalid",
                           "too deep", "info", "env", "reset"}

VARIABLES
    inbox,      \* _protocol_stdin: lines not read yet
    sent,       \* history: the lines that were written
    phase,      \* "idle" in readline, "run" in handle_exec, "gone"
    job,        \* the request of handle_exec
    at,         \* its next statement
    namespace,  \* _globals
    settled,    \* history: namespace at the last response
    out,        \* stdout_buf
    error,      \* what is in stderr_buf
    log,        \* _protocol_stdout: the responses ...
    shown,      \* ... the stdout field of each of them, ...
    strays,     \* ... and what reached the stream beside them
    threads,    \* threads that have not printed yet
    printed     \* history: everything printed so far

vars == <<inbox, sent, phase, job, at, namespace, settled, out, error, log, shown,
          strays, threads, printed>>

Session == INSTANCE ReplSession WITH namespace <- settled

Idle == [kind |-> "none"]

Errors == {"none", "SystemExit", "traceback", "not ok"}

\* A text is named by the request and the statement that print it.
Texts == [by : 1..MaxRequests, at : Nat, how : {"print", "thread", "echo"}]
Text(how) == [by |-> Len(log) + 1, at |-> at, how |-> how]

\* The lines that have been read.
Taken == Len(sent) - Len(inbox)

TypeOK ==
    /\ inbox \in Seq(Requests) /\ sent \in Seq(Requests) /\ Len(sent) <= MaxRequests
    /\ Len(log) + (IF phase = "run" THEN 1 ELSE 0) <= Taken
    /\ phase \in {"idle", "run", "gone"}
    /\ job \in Requests \cup {Idle}
    /\ phase = "run" => job.kind = "exec" /\ at \in 1..(Len(job.code) + 1)
    /\ at \in Nat
    /\ namespace \in [Names -> 0..MaxRequests] /\ settled \in [Names -> 0..MaxRequests]
    /\ out \in Seq(Texts) /\ strays \in Seq(Texts)
    /\ log \in Seq([to : Requests, more : BOOLEAN, error : Errors, vars : SUBSET Names])
    /\ shown \in Seq(Seq(Texts)) /\ Len(shown) = Len(log)
    /\ threads \subseteq Texts /\ printed \subseteq Texts
    /\ error \in Errors

Init ==
    /\ inbox = <<>> /\ sent = <<>>
    /\ phase = "idle" /\ job = Idle /\ at = 1
    /\ namespace = Session!Fresh /\ settled = Session!Fresh
    /\ out = <<>> /\ error = "none"
    /\ log = <<>> /\ shown = <<>> /\ strays = <<>>
    /\ threads = {} /\ printed = {}

-------------------------------------------------------------------------------
\* The server writes a line.  It waits for the response to one before it writes
\* the next, except when it has given up on a call.
Write(r) ==
    /\ phase # "gone"
    /\ Len(sent) < MaxRequests
    /\ inbox' = Append(inbox, r) /\ sent' = Append(sent, r)
    /\ UNCHANGED <<phase, job, at, namespace, settled, out, error, log, shown, strays,
                   threads, printed>>

\* readline, strip: a line is taken off the pipe.
Reads(kinds) ==
    /\ phase = "idle" /\ inbox # <<>>
    /\ Head(inbox).kind \in kinds
    /\ inbox' = Tail(inbox)

\* _respond: the namespace is what the next request will find.
Respond(r, more, err, names) ==
    /\ Session!Answer(r, more, err, names)
    /\ shown' = Append(shown, out)
    /\ settled' = namespace'
    /\ out' = <<>> /\ error' = "none"

SkipBlank ==
    /\ Reads({"blank"})
    /\ UNCHANGED <<sent, phase, job, at, namespace, settled, out, error, log, shown, strays,
                   threads, printed>>

\* Mutant of RejectLine: no `continue` after the first answer.
RejectLineTwice ==
    /\ Reads({"malformed", "unknown"})
    /\ LET no == [to |-> Head(inbox), more |-> FALSE, error |-> "not ok", vars |-> {}]
       IN  log' = log \o <<no, no>>
    /\ shown' = shown \o <<out, out>> /\ settled' = namespace
    /\ out' = <<>> /\ error' = "none"
    /\ UNCHANGED <<sent, phase, job, at, namespace, strays, threads, printed>>

\* json.loads or HANDLERS.get fails.
RejectLine ==
    /\ Reads({"malformed", "unknown"})
    /\ UNCHANGED <<sent, phase, job, at, namespace, strays, threads, printed>>
    /\ Respond(Head(inbox), FALSE, "not ok", {})

\* Mutant of DeclineSource: incomplete input is kept for the next request.
DeclineSourceKept ==
    /\ Reads({"incomplete", "invalid"})
    /\ namespace' = [namespace EXCEPT !["_"] = Len(log) + 1]
    /\ Respond(Head(inbox), Head(inbox).kind = "incomplete",
               IF Head(inbox).kind = "invalid" THEN "traceback" ELSE "none", {})
    /\ UNCHANGED <<sent, phase, job, at, strays, threads, printed>>

\* handle_exec returns before it runs anything: more input is needed, or a
\* SyntaxError.
DeclineSource ==
    /\ Reads({"incomplete", "invalid"})
    /\ UNCHANGED <<sent, phase, job, at, namespace, strays, threads, printed>>
    /\ Respond(Head(inbox), Head(inbox).kind = "incomplete",
               IF Head(inbox).kind = "invalid" THEN "traceback" ELSE "none", {})

\* An exception that nothing catches: JSON that is no object has no get(), and
\* ast.parse may raise more than handle_exec expects.
DieAtLine ==
    /\ Reads({"no object", "too deep"})
    /\ phase' = "gone"
    /\ UNCHANGED <<sent, job, at, namespace, settled, out, error, log, shown, strays,
                   threads, printed>>

Bound == {x \in Names : namespace[x] # 0}

HandleInfo ==
    /\ Reads({"info"})
    /\ UNCHANGED <<sent, phase, job, at, namespace, strays, threads, printed>>
    /\ Respond(Head(inbox), FALSE, "none", Bound)

HandleEnv ==
    /\ Reads({"env"})
    /\ UNCHANGED <<sent, phase, job, at, namespace, strays, threads, printed>>
    /\ Respond(Head(inbox), FALSE, "none", {})

HandleReset ==
    /\ Reads({"reset"})
    /\ namespace' = Session!Fresh
    /\ Respond(Head(inbox), FALSE, "none", {})
    /\ UNCHANGED <<sent, phase, job, at, strays, threads, printed>>

\* The batch compiles: redirect_stdout, redirect_stderr, exec.
StartBatch ==
    /\ Reads({"exec"})
    /\ phase' = "run" /\ job' = Head(inbox) /\ at' = 1
    /\ UNCHANGED <<sent, namespace, settled, out, error, log, shown, strays, threads, printed>>

-------------------------------------------------------------------------------
(* One statement. *)

Runs(ops) == phase = "run" /\ at <= Len(job.code) /\ job.code[at].op \in ops
Trailing == at = Len(job.code)
Go == at' = at + 1 /\ UNCHANGED error
\* The rest of the batch is skipped.
Abort(err) == error' = err /\ at' = Len(job.code) + 1
Say(how) == out' = Append(out, Text(how)) /\ printed' = printed \cup {Text(how)}

RunBind ==
    /\ Runs({"bind"})
    /\ namespace' = [namespace EXCEPT ![job.code[at].name] = Len(log) + 1]
    /\ Go
    /\ UNCHANGED <<inbox, sent, phase, job, settled, out, log, shown, strays, threads, printed>>

\* Mutant of RunUse: "_" is bound by every expression, not by the last only.
RunUseBindsEach ==
    /\ Runs({"use"})
    /\ namespace[job.code[at].name] # 0
    /\ namespace' = [namespace EXCEPT !["_"] = namespace[job.code[at].name]]
    /\ IF Trailing THEN Say("echo") ELSE UNCHANGED <<out, printed>>
    /\ Go
    /\ UNCHANGED <<inbox, sent, phase, job, settled, log, shown, strays, threads>>

\* An expression: in the last place its value is bound to "_" and echoed.
RunUse ==
    /\ Runs({"use"})
    /\ LET value == namespace[job.code[at].name]
       IN  /\ value # 0
           /\ IF Trailing
                THEN Say("echo") /\ namespace' = [namespace EXCEPT !["_"] = value]
                ELSE UNCHANGED <<out, printed, namespace>>
    /\ Go
    /\ UNCHANGED <<inbox, sent, phase, job, settled, log, shown, strays, threads>>

\* One whose value has a __repr__ that raises: "_" is bound before.
RunUnprintable ==
    /\ Runs({"unprintable"})
    /\ IF Trailing
         THEN Abort("traceback") /\ namespace' = [namespace EXCEPT !["_"] = Len(log) + 1]
         ELSE Go /\ UNCHANGED namespace
    /\ UNCHANGED <<inbox, sent, phase, job, settled, out, log, shown, strays, threads, printed>>

\* A name that is not bound, and whatever else raises.
RunFails ==
    /\ \/ Runs({"raise"})
       \/ Runs({"use"}) /\ namespace[job.code[at].name] = 0
    /\ Abort("traceback")
    /\ UNCHANGED <<inbox, sent, phase, job, namespace, settled, out, log, shown, strays,
                   threads, printed>>

\* Mutant of RunInput: sys.stdin is the protocol stream.
RunInputReads ==
    /\ Runs({"input"})
    /\ IF inbox = <<>> THEN Abort("traceback") /\ UNCHANGED inbox
                       ELSE Go /\ inbox' = Tail(inbox)
    /\ UNCHANGED <<sent, phase, job, namespace, settled, out, log, shown, strays, threads, printed>>

\* sys.stdin is an empty StringIO: EOFError.
RunInput ==
    /\ Runs({"input"})
    /\ Abort("traceback")
    /\ UNCHANGED <<inbox, sent, phase, job, namespace, settled, out, log, shown, strays,
                   threads, printed>>

RunExit ==
    /\ Runs({"exit"})
    /\ Abort("SystemExit")
    /\ UNCHANGED <<inbox, sent, phase, job, namespace, settled, out, log, shown, strays,
                   threads, printed>>

RunPrint ==
    /\ Runs({"print"})
    /\ Say("print")
    /\ Go
    /\ UNCHANGED <<inbox, sent, phase, job, namespace, settled, log, shown, strays, threads>>

RunThread ==
    /\ Runs({"thread"})
    /\ threads' = threads \cup {Text("thread")}
    /\ Go
    /\ UNCHANGED <<inbox, sent, phase, job, namespace, settled, out, log, shown, strays, printed>>

\* Mutant of EndBatch: a failed batch answers without the output it has made.
EndBatchDropsOutput ==
    /\ phase = "run" /\ at > Len(job.code)
    /\ phase' = "idle" /\ job' = Idle
    /\ Session!Answer(job, FALSE, error, {})
    /\ shown' = Append(shown, IF error = "none" THEN out ELSE <<>>)
    /\ settled' = namespace
    /\ out' = <<>> /\ error' = "none"
    /\ UNCHANGED <<inbox, sent, at, namespace, strays, threads, printed>>

EndBatch ==
    /\ phase = "run" /\ at > Len(job.code)
    /\ phase' = "idle" /\ job' = Idle
    /\ UNCHANGED <<inbox, sent, at, namespace, strays, threads, printed>>
    /\ Respond(job, FALSE, error, {})

\* print looks sys.stdout up when it is called: a thread's text is in the
\* response of whichever batch runs then, or beside the responses.
ThreadPrints(t) ==
    /\ phase # "gone" /\ t \in threads
    /\ threads' = threads \ {t} /\ printed' = printed \cup {t}
    /\ IF phase = "run" THEN out' = Append(out, t) /\ UNCHANGED strays
                        ELSE strays' = Append(strays, t) /\ UNCHANGED out
    /\ UNCHANGED <<inbox, sent, phase, job, at, namespace, settled, error, log, shown>>

\* Killed by the server (a batch may never end), by an rlimit, or at EOF.
Die ==
    /\ phase # "gone"
    /\ phase' = "gone"
    /\ UNCHANGED <<inbox, sent, job, at, namespace, settled, out, error, log, shown, strays,
                   threads, printed>>

Handle ==
    \/ SkipBlank \/ RejectLine \/ DeclineSource \/ DieAtLine
    \/ HandleInfo \/ HandleEnv \/ HandleReset \/ StartBatch

Run ==
    \/ RunBind \/ RunUse \/ RunUnprintable \/ RunFails \/ RunInput \/ RunExit
    \/ RunPrint \/ RunThread \/ EndBatch

Next ==
    \/ \E r \in Requests : Write(r)
    \/ Handle \/ Run
    \/ \E t \in threads : ThreadPrints(t)
    \/ Die

Spec == Init /\ [][Next]_vars

-------------------------------------------------------------------------------
(* Properties. *)

\* "Every request must get exactly one response, or the Rust side's read pairs
\* up with the wrong command from here on" (wrapper.py, main): the responses are
\* to the lines that were written, in their order, and none is left out but the
\* blank ones and the one that is being executed, or at which the worker died,
\* whatever the code of each of them does.
Done == Taken - (IF phase = "run" THEN 1 ELSE 0)
Unanswered == IF phase = "idle" THEN {} ELSE {Taken}
Pairs(line) ==
    /\ \A i, j \in DOMAIN log : i < j => line[i] < line[j]
    /\ \A i \in DOMAIN log : log[i].to = sent[line[i]]
    /\ \A k \in 1..Taken : sent[k].kind = "blank" \/ k \in Unanswered
                          \/ \E i \in DOMAIN log : line[i] = k
OneResponseEach ==
    /\ inbox = SubSeq(sent, Taken + 1, Len(sent))
    /\ phase = "run" => job = sent[Taken]
    /\ \E line \in [DOMAIN log -> 1..Done] : Pairs(line)

\* Nothing printed is lost or shown twice while the worker lives: it is in the
\* response of its own request, also when the batch fails after it, and only a
\* thread's text can be in a later response or beside the responses.
Pages == [i \in 0..(Len(shown) + 1) |->
            IF i = 0 THEN strays ELSE IF i <= Len(shown) THEN shown[i] ELSE out]
InOnePlace(texts, pages) ==
    /\ \A i \in DOMAIN pages : \A k \in DOMAIN pages[i] : pages[i][k] \in texts
    /\ \A t \in texts : \E i \in DOMAIN pages : \E k \in DOMAIN pages[i] : pages[i][k] = t
    /\ \A i, j \in DOMAIN pages : \A k \in DOMAIN pages[i], l \in DOMAIN pages[j] :
          pages[i][k] = pages[j][l] => i = j /\ k = l
\* Text t is in the response number i.
MayShow(t, i) == IF t.how = "thread" THEN t.by <= i ELSE t.by = i
OutputAccounted ==
    /\ phase # "gone" => InOnePlace(printed, Pages)
    /\ \A i \in DOMAIN shown : \A k \in DOMAIN shown[i] : MayShow(shown[i][k], i)
    /\ \A k \in DOMAIN strays : strays[k].how = "thread"

\* The worker implements ReplSession: a batch is one step on the namespace, up
\* to its first failure; exit() and errors keep the session; input that is
\* incomplete or invalid changes nothing.
SessionSpec == Session!Spec

-------------------------------------------------------------------------------
(* The invariant behind them. *)

\* The texts so far are older than the next one.
Old(t) == t.by <= Len(log) \/ (phase = "run" /\ t.by = Len(log) + 1 /\ t.at < at)
TextInv ==
    /\ phase # "gone" =>
          /\ \A t \in printed \cup threads : Old(t)
          /\ printed \cap threads = {}
    /\ \A t \in threads : t.how = "thread"
    /\ phase = "idle" => out = <<>>
    /\ \A k \in DOMAIN out : MayShow(out[k], Len(log) + 1)

\* A batch has come to its statement `at` in the way the whole batch is defined
\* to come there, and to its end with what the whole batch is defined to do.
UpTo(code, ns, n, i) ==
    [x \in Names |-> IF \E j \in 1..(i - 1) : Session!Binds(code[j], x) THEN n ELSE ns[x]]
InStep(code, ns, n, i, err, names) ==
    IF i <= Len(code)
    THEN /\ err = "none"
         /\ \A j \in 1..(i - 1) : ~Session!Fails(code, ns, j)
         /\ names = UpTo(code, ns, n, i)
    ELSE /\ err = Session!Error(code, ns)
         /\ names = Session!After(code, ns, n)
BatchInv ==
    /\ phase = "idle" => namespace = settled /\ error = "none"
    /\ phase = "run" => InStep(job.code, settled, Len(log) + 1, at, error, namespace)

WorkerInv == TypeOK /\ OneResponseEach /\ OutputAccounted /\ TextInv /\ BatchInv
===============================================================================
