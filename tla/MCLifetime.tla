------------------------------ MODULE MCLifetime ------------------------------
EXTENDS Startup, IdleClock, TLC

Plain == [enabled |-> "unset", required |-> "unset", numbers |-> [n \in Numbers |-> "unset"],
          roots |-> <<>>, bind |-> "unset", wrapper |-> "found", user |-> "root"]

Settings == {"unset", "blank", "not unicode", "on", "off", "junk"}

\* Every combination of the settings of the sandbox, and every value of each of
\* the others in turn.
Found ==
    {[Plain EXCEPT !.enabled = e, !.required = r, !.user = u] :
        e \in Settings, r \in Settings, u \in {"root", "other"}}
    \cup {[Plain EXCEPT !.numbers[n] = v] : n \in Numbers, v \in {"blank", "positive", "zero", "junk"}}
    \cup {[Plain EXCEPT !.roots = r] :
            r \in {<<"">>, <<"", "">>, <<"rooted", "">>, <<"rooted", "relative">>, <<"rooted", "rooted">>}}
    \cup {[Plain EXCEPT !.bind = b] : b \in {"blank", "address", "junk"}}
    \cup {[Plain EXCEPT !.wrapper = w] : w \in {"blank", "missing"}}

\* The two share no state: a behaviour is about how sessions begin, or about when
\* one is reaped.
VARIABLE about

LifetimeInit ==
    /\ Init /\ ClockInit
    /\ about \in {"begin", "end"}
    /\ about = "end" => env = Plain /\ nsjail = "there"

Begins == about = "begin" /\ Next /\ UNCHANGED <<clockVars, about>>
Ends == about = "end" /\ ClockNext /\ UNCHANGED <<vars, about>>

LifetimeSpec == LifetimeInit /\ [][Begins \/ Ends]_<<vars, clockVars, about>>
===============================================================================
