----------------------------- MODULE MCReplWorker -----------------------------
EXTENDS ReplWorker, TLC

Bind(x) == [op |-> "bind", name |-> x]
Use(x) == [op |-> "use", name |-> x]
Do(op) == [op |-> op]
Exec(code) == [kind |-> "exec", code |-> code]

\* Batches that fail at their start, in their middle and at their end, with and
\* without a trailing expression, and the lines that are no batch.
Lines ==
    {[kind |-> k] : k \in {"blank", "malformed", "no object", "unknown", "incomplete",
                           "invalid", "too deep", "info", "env", "reset"}}
    \cup {Exec(<<>>),
          Exec(<<Bind("a"), Use("a")>>),
          Exec(<<Do("print"), Bind("b"), Do("raise"), Bind("a")>>),
          Exec(<<Use("b"), Bind("a"), Use("_")>>),
          Exec(<<Bind("a"), Do("exit"), Do("print")>>),
          Exec(<<Do("input"), Bind("b")>>),
          Exec(<<Do("thread"), Do("print")>>),
          Exec(<<Bind("b"), Do("loop"), Bind("a")>>),
          Exec(<<Do("unprintable"), Do("print"), Do("unprintable")>>)}
===============================================================================
