--------------------------- MODULE MCSessionServer ---------------------------
EXTENDS SessionInvariant, TLC

Symmetry == Permutations(Calls) \cup Permutations(Sids)

\* For the Sharing run: states are told apart only by what a later step or one of
\* its properties can read.  Of a call that is over those are an output or the end
\* of pip, and the session of whoever has written a request; neither its id nor
\* another result, nor the age of a session that has left the map.
UsesId(c) == pc[c] \in (ExecutePcs \ {"return"}) \cup EntryPcs
Told(c) == result[c] \in {"none", "output", "installed", "pipfailed"}
Open == {o \in Objs : life[o] = "open"}
View ==
    <<life, worker, job, inbox, outbox, ran \cap Open, strays, workdirs,
      sessions, mapLock, sessLock, pc, snapshot, expired \cap Mapped, answer,
      [c \in Calls |-> IF UsesId(c) THEN sid[c] ELSE NoCall],
      [c \in Calls |-> IF result[c] \in {"reset", "absent"} THEN NoCall ELSE handle[c]],
      [c \in Calls |-> IF Told(c) THEN result[c] ELSE "told"]>>
===============================================================================
