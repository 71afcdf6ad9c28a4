--------------------------- MODULE SessionDirectory ---------------------------
(***************************************************************************)
(* The session registry as its clients see it: ids that name sessions, and *)
(* executions that use a session one at a time.  No pipes, no workers, no  *)
(* map lock, no queues, no Arcs: SessionServer implements it.              *)
(***************************************************************************)
EXTENDS Naturals, FiniteSets

CONSTANTS Calls, NoCall, Sids, MaxSessions

VARIABLES
    names,    \* names[s]: the session that id s names, or NoCall
    uses,     \* uses[c]: the session that execution c has been given
    inside,   \* inside[o]: the execution that runs in session o
    born,     \* the sessions opened so far, each named by its opener
    outcome   \* outcome[c]: what call c has reported

vars == <<names, uses, inside, born, outcome>>

Named == {s \in Sids : names[s] # NoCall}

Init ==
    /\ names = [s \in Sids |-> NoCall]
    /\ uses = [c \in Calls |-> NoCall]
    /\ inside = [o \in Calls |-> NoCall]
    /\ born = {}
    /\ outcome = [c \in Calls |-> "none"]

Running(c) == outcome[c] = "none"
IsInside(c) == uses[c] # NoCall /\ inside[uses[c]] = c
Vacate(c) == inside' = [o \in Calls |-> IF inside[o] = c THEN NoCall ELSE inside[o]]
Report(c, r) ==
    /\ outcome' = [outcome EXCEPT ![c] = r]
    /\ uses' = [uses EXCEPT ![c] = NoCall]

-------------------------------------------------------------------------------
\* An unknown id: a session is opened and takes the id, while there is room.
Opens(c, s) ==
    /\ Running(c) /\ c \notin born
    /\ names[s] = NoCall
    /\ Cardinality(Named) < MaxSessions
    /\ names' = [names EXCEPT ![s] = c]
    /\ uses' = [uses EXCEPT ![c] = c]
    /\ born' = born \cup {c}
    /\ UNCHANGED <<inside, outcome>>

\* A known id: the execution is given the session it names.
Joins(c, s) ==
    /\ Running(c) /\ uses[c] = NoCall
    /\ names[s] # NoCall
    /\ uses' = [uses EXCEPT ![c] = names[s]]
    /\ UNCHANGED <<names, inside, born, outcome>>

\* One at a time.
Enters(c) ==
    /\ uses[c] \in born /\ inside[uses[c]] = NoCall
    /\ inside' = [inside EXCEPT ![uses[c]] = c]
    /\ UNCHANGED <<names, uses, born, outcome>>

\* The code has run in the session.
Answers(c) ==
    /\ Running(c) /\ IsInside(c)
    /\ Vacate(c)
    /\ Report(c, "output")
    /\ UNCHANGED <<names, born>>

\* The execution has failed, or has timed out, ...
GivesUp(c) ==
    /\ Running(c) /\ IsInside(c)
    /\ Vacate(c)
    /\ UNCHANGED <<names, uses, born, outcome>>

\* ... and reports it once no id names its session.
Fails(c, s) ==
    /\ Running(c) /\ uses[c] # NoCall /\ ~IsInside(c)
    /\ names' = [names EXCEPT ![s] = NoCall]
    /\ \A t \in Sids : names'[t] # uses[c]
    /\ Report(c, "failed")
    /\ UNCHANGED <<inside, born>>

\* The limit is reached.
Refuses(c) ==
    /\ Running(c)
    /\ Cardinality(Named) >= MaxSessions
    /\ Report(c, "refused")
    /\ UNCHANGED <<names, inside, born>>

\* A reset takes the id from whichever session has it.
Deletes(c, s) ==
    /\ Running(c)
    /\ names' = [names EXCEPT ![s] = NoCall]
    /\ Report(c, IF names[s] # NoCall THEN "reset" ELSE "absent")
    /\ UNCHANGED <<inside, born>>

\* Calls that change nothing for the others, and calls that are given up.
Quietly == {"unspawned", "listed", "installed", "nosession", "pipfailed", "cancelled"}

Ends(c) ==
    /\ Running(c)
    /\ Vacate(c)
    /\ \E r \in Quietly : Report(c, r)
    /\ UNCHANGED <<names, born>>

\* Sessions nobody is inside of are forgotten.
Forgets(S) ==
    /\ \A s \in S : names[s] # NoCall /\ inside[names[s]] = NoCall
    /\ names' = [s \in Sids |-> IF s \in S THEN NoCall ELSE names[s]]
    /\ UNCHANGED <<uses, inside, born, outcome>>

Next ==
    \/ \E c \in Calls :
          \/ Enters(c) \/ Answers(c) \/ GivesUp(c) \/ Refuses(c) \/ Ends(c)
          \/ \E s \in Sids : Opens(c, s) \/ Joins(c, s) \/ Fails(c, s) \/ Deletes(c, s)
    \/ \E S \in SUBSET Sids : Forgets(S)

Spec == Init /\ [][Next]_vars

-------------------------------------------------------------------------------
\* A session that has lost its id never has one again: nothing brings back a
\* namespace that a reset, a retirement or a sweep has taken out of the map.
NeverNamedAgain ==
    [][\A o \in born : (\E s \in Sids : names'[s] = o) => \E s \in Sids : names[s] = o]_vars
===============================================================================
