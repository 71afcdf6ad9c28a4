----------------------------- MODULE ReplSession -----------------------------
(***************************************************************************)
(* What a session promises: a batch of statements is one step on the       *)
(* namespace.  It takes effect up to the first statement that fails, and a *)
(* request that is no complete batch changes nothing.  ReplWorker, which   *)
(* runs one statement after the other, implements it.                      *)
(***************************************************************************)
EXTENDS Naturals, Sequences

CONSTANTS Names, Requests

\* The value a name is bound to is the number of the request that bound it; 0
\* when it is not bound.
VARIABLES
    namespace,  \* namespace[x]: what x is bound to
    log         \* the responses: [to, more, error, vars]

Fresh == [x \in Names |-> 0]

Init ==
    /\ namespace = Fresh
    /\ log = <<>>

-------------------------------------------------------------------------------
Binds(s, x) == s.op = "bind" /\ s.name = x

\* Statement i fails in a batch that starts in namespace ns.
Fails(code, ns, i) ==
    \/ code[i].op \in {"raise", "exit", "input"}
    \/ /\ code[i].op = "use"
       /\ ns[code[i].name] = 0
       /\ \A j \in 1..(i - 1) : ~Binds(code[j], code[i].name)

\* How far the batch gets: the first that fails, or past the end.
Stop(code, ns) ==
    CHOOSE i \in 1..(Len(code) + 1) :
        /\ i <= Len(code) => Fails(code, ns, i)
        /\ \A j \in 1..(i - 1) : ~Fails(code, ns, j)

\* The namespace after request number n.  A trailing expression with a value
\* binds "_" to it, whether or not it can be printed.
After(code, ns, n) ==
    LET stop == Stop(code, ns)
        bound(x) == IF \E j \in 1..(stop - 1) : Binds(code[j], x) THEN n ELSE ns[x]
        last == code[Len(code)]
        echo == IF code = <<>> \/ stop <= Len(code) THEN 0
                ELSE IF last.op = "use" THEN bound(last.name)
                ELSE IF last.op = "unprintable" THEN n ELSE 0
    IN  [x \in Names |-> IF x = "_" /\ echo # 0 THEN echo ELSE bound(x)]

Error(code, ns) ==
    LET stop == Stop(code, ns)
    IN  IF stop <= Len(code)
        THEN IF code[stop].op = "exit" THEN "SystemExit" ELSE "traceback"
        ELSE IF code # <<>> /\ code[Len(code)].op = "unprintable" THEN "traceback" ELSE "none"

Answer(r, more, error, vars) ==
    log' = Append(log, [to |-> r, more |-> more, error |-> error, vars |-> vars])

\* handle_exec, for a batch that ends.
Exec(r) ==
    /\ r.kind = "exec"
    /\ namespace' = After(r.code, namespace, Len(log) + 1)
    /\ Answer(r, FALSE, Error(r.code, namespace), {})

\* Input that is not (yet) a batch, lines that are no request.
Decline(r) ==
    /\ r.kind \in {"incomplete", "invalid", "malformed", "unknown"}
    /\ Answer(r, r.kind = "incomplete",
              CASE r.kind = "incomplete" -> "none"
                [] r.kind = "invalid" -> "traceback"
                [] OTHER -> "not ok", {})
    /\ UNCHANGED namespace

\* handle_info, handle_env and handle_reset.
Info(r) ==
    /\ r.kind = "info"
    /\ Answer(r, FALSE, "none", {x \in Names : namespace[x] # 0})
    /\ UNCHANGED namespace

Env(r) ==
    /\ r.kind = "env"
    /\ Answer(r, FALSE, "none", {})
    /\ UNCHANGED namespace

Reset(r) ==
    /\ r.kind = "reset"
    /\ Answer(r, FALSE, "none", {})
    /\ namespace' = Fresh

Next == \E r \in Requests : Exec(r) \/ Decline(r) \/ Info(r) \/ Env(r) \/ Reset(r)

Spec == Init /\ [][Next]_<<namespace, log>>
===============================================================================
