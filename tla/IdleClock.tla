------------------------------ MODULE IdleClock ------------------------------
(***************************************************************************)
(* The clock of one session id: last_used, the limit of one execution, and *)
(* the reaper's interval (src/src/sandbox.rs, src/src/server.rs).          *)
(* SessionServer says which steps may follow each other and only that      *)
(* "enough time" has gone by; this module says how much.  Timers fire on   *)
(* time; a sweep may have to wait for the map lock.                        *)
(***************************************************************************)
EXTENDS Naturals

CONSTANTS
    Idle,     \* SESSION_IDLE_SECONDS
    Period,   \* CLEANUP_INTERVAL_SECS
    Timeout,  \* Config::exec_timeout_secs
    Hold,     \* the longest wait for the map lock
    MaxTime   \* bound: length of a behaviour

ASSUME ClockAssumption ==
    /\ Idle \in Nat \ {0} /\ Period \in Nat \ {0} /\ Timeout \in Nat \ {0}
    /\ Hold \in Nat /\ MaxTime \in Nat

VARIABLES
    now,
    session,   \* "none" yet; in the map "free" or "busy"; "reaped" by a sweep, "dropped" otherwise
    lastUsed,  \* Session::last_used: the start of the last execution
    ended,     \* history: its end
    due,       \* the interval's next tick
    reaper,    \* "asleep", or "sweeping": in cleanup_expired
    began,     \* history: when the last tick fired
    missed     \* history: time granted for sweeps that found the lock taken

timerVars == <<now, due, reaper, began>>
sessionVars == <<session, lastUsed, ended, missed>>
clockVars == <<timerVars, sessionVars>>

ClockTypes ==
    /\ now \in Nat /\ lastUsed \in Nat /\ ended \in Nat
    /\ due \in Nat /\ began \in Nat /\ missed \in Nat
    /\ session \in {"none", "free", "busy", "reaped", "dropped"}
    /\ reaper \in {"asleep", "sweeping"}

\* spawn_reaper: the first tick, which fires at once, is skipped.
ClockInit ==
    /\ now = 0 /\ began = 0 /\ due = Period /\ reaper = "asleep"
    /\ session = "none" /\ lastUsed = 0 /\ ended = 0 /\ missed = 0

-------------------------------------------------------------------------------
(* The session. *)

Mapped == session \in {"free", "busy"}

\* Session::new.
Create ==
    /\ ~Mapped
    /\ session' = "free"
    /\ lastUsed' = now /\ ended' = now /\ missed' = 0
    /\ UNCHANGED timerVars

\* Mutant of Start: last_used is set by Session::new only.
StartKeepsTime ==
    /\ session = "free"
    /\ session' = "busy"
    /\ UNCHANGED <<timerVars, lastUsed, ended, missed>>

\* Session::execute.
Start ==
    /\ session = "free"
    /\ session' = "busy" /\ lastUsed' = now
    /\ UNCHANGED <<timerVars, ended, missed>>

\* The exchange is over in time.
Finish ==
    /\ session = "busy"
    /\ session' = "free" /\ ended' = now /\ missed' = 0
    /\ UNCHANGED <<timerVars, lastUsed>>

\* It fails or times out, or the session is reset: out of the map.
Leave ==
    /\ Mapped
    /\ session' = "dropped"
    /\ UNCHANGED <<timerVars, lastUsed, ended, missed>>

-------------------------------------------------------------------------------
(* The sweeps. *)

IdleSeconds == now - lastUsed
\* Two ticks are never further apart than this: an interval that is late fires at once.
Gap == IF Period < Hold THEN Hold ELSE Period

\* What retain keeps of the sessions.
Retained == session = "busy" \/ IdleSeconds < Idle

CleanupExpired ==
    /\ session' = IF Mapped /\ ~Retained THEN "reaped" ELSE session
    /\ UNCHANGED <<lastUsed, ended, missed>>

\* try_lock finds the lock with a listing, for a moment.
CleanupMisses ==
    /\ Mapped /\ ~Retained
    /\ missed' = missed + Gap
    /\ UNCHANGED <<session, lastUsed, ended>>

\* Any execute_python, on whatever session, begins with a sweep.
SweepOfCall == CleanupExpired /\ UNCHANGED timerVars

Tick ==
    /\ reaper = "asleep" /\ due <= now
    /\ reaper' = "sweeping" /\ began' = now /\ due' = due + Period
    /\ UNCHANGED <<now, sessionVars>>

\* Mutant of Sweep: the task sleeps for a period after each sweep.
SweepThenSleep ==
    /\ reaper = "sweeping"
    /\ reaper' = "asleep"
    /\ due' = now + Period
    /\ CleanupExpired \/ CleanupMisses
    /\ UNCHANGED <<now, began>>

\* The map lock has come free.
Sweep ==
    /\ reaper = "sweeping"
    /\ reaper' = "asleep"
    /\ CleanupExpired \/ CleanupMisses
    /\ UNCHANGED <<now, due, began>>

-------------------------------------------------------------------------------
\* No timer is late: the timeout of an execution, the tick, the wait for the lock.
TimePasses ==
    /\ now < MaxTime
    /\ session = "busy" => now < lastUsed + Timeout
    /\ IF reaper = "sweeping" THEN now < began + Hold ELSE now < due
    /\ now' = now + 1
    /\ UNCHANGED <<due, reaper, began, sessionVars>>

ClockNext ==
    \/ Create \/ Start \/ Finish \/ Leave
    \/ SweepOfCall \/ Tick \/ Sweep
    \/ TimePasses

ClockSpec == ClockInit /\ [][ClockNext]_clockVars

-------------------------------------------------------------------------------
(* Properties. *)

\* A sweep takes only a session on which nothing runs.  The time since last_used
\* includes the execution, so it may have answered as little as Idle - Timeout
\* seconds ago, and not less: with the default of 120 s for an execution, 28 of
\* the 30 minutes of the README are sure.
ReapedIdle ==
    [][session # "reaped" /\ session' = "reaped" =>
          session = "free" /\ now + Timeout >= ended + Idle]_clockVars

\* An abandoned session goes in time: one that is free was used, or was answered,
\* no longer ago than the limit, a period of the reaper and a wait for the map
\* lock, and a period more for each sweep that found its lock taken.
ReapedInTime ==
    session = "free" => now <= ended + Idle + missed + Gap + Hold

\* With what it takes to be inductive: where the last tick stands, and what the
\* sweep it began has left in the map.
Expiry == IF ended < lastUsed + Idle THEN lastUsed + Idle ELSE ended
ClockInv ==
    /\ ClockTypes
    /\ Mapped => lastUsed <= now /\ ended <= now
    /\ session = "busy" => now <= lastUsed + Timeout
    /\ session = "free" => lastUsed <= ended /\ ended <= lastUsed + Timeout
    /\ began <= now /\ due <= began + Period
    /\ reaper = "sweeping" => now <= began + Hold
    /\ reaper = "asleep" => now <= began + Gap
    /\ session = "free" =>
          began <= Expiry + missed + (IF reaper = "sweeping" THEN Gap ELSE 0)
===============================================================================
