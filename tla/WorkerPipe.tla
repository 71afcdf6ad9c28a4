------------------------------ MODULE WorkerPipe ------------------------------
(***************************************************************************)
(* One REPL session as src/src/sandbox.rs and src/sandbox/wrapper.py make  *)
(* it: a Session object on the Rust side, a python3 worker on the other,   *)
(* and two pipes between them that carry one JSON line per request and     *)
(* one per response.  The module holds the state of every Session object   *)
(* ever created and the steps that touch one; SessionServer decides who    *)
(* may take them, and when an object is dropped.                           *)
(*                                                                         *)
(* A request is named by the call that wrote it.  Its code is arbitrary    *)
(* Python: it may never finish, kill its worker, or let text reach the     *)
(* worker's file descriptor 1 that is not a response.                      *)
(***************************************************************************)
EXTENDS Naturals, Sequences

CONSTANTS
    Calls,       \* tool calls; a call creates at most one Session object
    NoCall,      \* no call, no object
    StrayKinds,  \* how the stray lines of user code parse, of {"json", "junk"}
    MaxStray     \* bound: stray lines in one behaviour

ASSUME PipeAssumption ==
    /\ NoCall \notin Calls
    /\ StrayKinds \subseteq {"json", "junk"}
    /\ MaxStray \in Nat

\* A Session object is named by the call whose `acquire` created it.
Objs == Calls

VARIABLES
    life,      \* life[o]: "none", "open", "killed" (pipes are None), "dropped"
    worker,    \* worker[o]: "none", "alive", "dead"
    job,       \* job[o]: the request the worker is executing
    inbox,     \* inbox[o]: requests in the stdin pipe
    outbox,    \* outbox[o]: lines in the stdout pipe
    ran,       \* objects whose worker has started to run user code
    strays,    \* stray lines so far
    workdirs   \* objects whose temporary work directory is on disk

pipeVars == <<life, worker, job, inbox, outbox, ran, strays, workdirs>>

\* What read_line finds in one line: the response to a request, or text of
\* user code that serde_json accepts ("json", e.g. 42) or rejects ("junk").
Line == [kind : {"response", "json", "junk"}, by : Calls \cup {NoCall}]
Response(c) == [kind |-> "response", by |-> c]
Stray(k)    == [kind |-> k, by |-> NoCall]

PipeTypeOK ==
    /\ life \in [Objs -> {"none", "open", "killed", "dropped"}]
    /\ worker \in [Objs -> {"none", "alive", "dead"}]
    /\ job \in [Objs -> Calls \cup {NoCall}]
    /\ inbox \in [Objs -> Seq(Calls)]
    /\ outbox \in [Objs -> Seq(Line)]
    /\ ran \subseteq Objs
    /\ strays \in Nat
    /\ workdirs \subseteq Objs

PipeInit ==
    /\ life = [o \in Objs |-> "none"]
    /\ worker = [o \in Objs |-> "none"]
    /\ job = [o \in Objs |-> NoCall]
    /\ inbox = [o \in Objs |-> <<>>]
    /\ outbox = [o \in Objs |-> <<>>]
    /\ ran = {}
    /\ strays = 0
    /\ workdirs = {}

-------------------------------------------------------------------------------
(* The Rust side: steps the holder of the object takes. *)

\* Session::new: temporary directory, then the child with piped stdin/stdout.
Spawn(o) ==
    /\ life' = [life EXCEPT ![o] = "open"]
    /\ worker' = [worker EXCEPT ![o] = "alive"]
    /\ workdirs' = workdirs \cup {o}
    /\ UNCHANGED <<job, inbox, outbox, ran, strays>>

\* First half of `exchange`: write_all and flush.  What is written to a dead
\* worker's pipe before the error shows is read by nobody.
WriteRequest(o, c) ==
    /\ life[o] = "open"
    /\ inbox' = [inbox EXCEPT ![o] = IF worker[o] = "alive" THEN Append(@, c) ELSE @]
    /\ UNCHANGED <<life, worker, job, outbox, ran, strays, workdirs>>

\* The write is refused: stdin is None, or the worker is gone (EPIPE).
WriteFails(o) == life[o] # "open" \/ worker[o] = "dead"

\* Second half of `exchange`: read_line returns the oldest line.
ReadLine(o) ==
    /\ outbox[o] # <<>>
    /\ outbox' = [outbox EXCEPT ![o] = Tail(@)]
    /\ UNCHANGED <<life, worker, job, inbox, ran, strays, workdirs>>

\* read_line returns the empty string: the worker is gone and drained.
AtEof(o) == worker[o] = "dead" /\ outbox[o] = <<>>

\* Session::kill on every object of S: both pipes closed, SIGKILL sent.
Sever(S, how) ==
    /\ life' = [o \in Objs |-> IF o \in S THEN how ELSE life[o]]
    /\ worker' = [o \in Objs |-> IF o \in S THEN "dead" ELSE worker[o]]
    /\ job' = [o \in Objs |-> IF o \in S THEN NoCall ELSE job[o]]
    /\ inbox' = [o \in Objs |-> IF o \in S THEN <<>> ELSE inbox[o]]
    /\ outbox' = [o \in Objs |-> IF o \in S THEN <<>> ELSE outbox[o]]
    /\ UNCHANGED <<ran, strays>>

Kill(o) == Sever({o}, "killed") /\ UNCHANGED workdirs

\* Mutants of Drop: the worker is left to itself; the directory is.
DropLeavesWorker(S) ==
    /\ life' = [o \in Objs |-> IF o \in S THEN "dropped" ELSE life[o]]
    /\ workdirs' = workdirs \ S
    /\ UNCHANGED <<worker, job, inbox, outbox, ran, strays>>
DropLeavesDirectory(S) == Sever(S, "dropped") /\ UNCHANGED workdirs

\* Drop for Session: kill, then the TempDir field removes the directory.
Drop(S) == Sever(S, "dropped") /\ workdirs' = workdirs \ S

-------------------------------------------------------------------------------
(* The worker process. *)

\* main(): readline, parse, look up the handler; handle_exec starts.
WorkerReads(o) ==
    /\ worker[o] = "alive" /\ job[o] = NoCall /\ inbox[o] # <<>>
    /\ job' = [job EXCEPT ![o] = Head(inbox[o])]
    /\ inbox' = [inbox EXCEPT ![o] = Tail(@)]
    /\ ran' = ran \cup {o}
    /\ UNCHANGED <<life, worker, outbox, strays, workdirs>>

Emit(o, line) == outbox' = [outbox EXCEPT ![o] = Append(@, line)]

\* handle_exec returned, whatever the code did short of ending the process:
\* a value, a traceback or more_input_needed are all one response.
WorkerResponds(o) ==
    /\ job[o] # NoCall
    /\ Emit(o, Response(job[o]))
    /\ job' = [job EXCEPT ![o] = NoCall]
    /\ UNCHANGED <<life, worker, inbox, ran, strays, workdirs>>

\* redirect_stdout replaces sys.stdout for the time of one exec, nothing else.
\* A subprocess of user code inherits descriptor 1, and a thread that outlives
\* its exec prints to the real sys.stdout: both write to the protocol stream,
\* the subprocess even after its worker.
WorkerStray(o, k) ==
    /\ life[o] = "open" /\ o \in ran
    /\ strays < MaxStray
    /\ Emit(o, Stray(k))
    /\ strays' = strays + 1
    /\ UNCHANGED <<life, worker, job, inbox, ran, workdirs>>

\* The same with no newline at its end swallows the response behind it.  So
\* does a lone surrogate in the output: json.dumps escapes it, serde_json
\* rejects the escape.
WorkerGarbles(o) ==
    /\ job[o] # NoCall
    /\ "junk" \in StrayKinds /\ strays < MaxStray
    /\ Emit(o, Stray("junk"))
    /\ job' = [job EXCEPT ![o] = NoCall]
    /\ strays' = strays + 1
    /\ UNCHANGED <<life, worker, inbox, ran, workdirs>>

\* os._exit, an rlimit signal, the OOM killer, a MemoryError or RecursionError
\* out of ast.parse, which handle_exec does not catch.
WorkerDies(o) ==
    /\ worker[o] = "alive"
    /\ worker' = [worker EXCEPT ![o] = "dead"]
    /\ job' = [job EXCEPT ![o] = NoCall]
    /\ inbox' = [inbox EXCEPT ![o] = <<>>]
    /\ UNCHANGED <<life, outbox, ran, strays, workdirs>>

WorkerStep(o) ==
    \/ WorkerReads(o)
    \/ WorkerResponds(o)
    \/ \E k \in StrayKinds : WorkerStray(o, k)
    \/ WorkerGarbles(o)
    \/ WorkerDies(o)
===============================================================================
