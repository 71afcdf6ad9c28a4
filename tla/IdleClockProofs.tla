--------------------------- MODULE IdleClockProofs ---------------------------
(***************************************************************************)
(* The two bounds of IdleClock for every idle limit, period, time limit    *)
(* and wait for the map lock, the combinations Timeout > Idle and          *)
(* Hold > Period included.                                                 *)
(***************************************************************************)
EXTENDS IdleClock, TLAPS

LEMMA GapType == Gap \in Nat /\ Period <= Gap /\ Hold <= Gap
BY ClockAssumption DEF Gap

LEMMA InvInit == ClockInit => ClockInv
BY ClockAssumption, GapType DEF ClockInit, ClockInv, ClockTypes, Mapped, Expiry

LEMMA InvNext == ClockInv /\ [ClockNext]_clockVars => ClockInv'
<1> SUFFICES ASSUME ClockInv, [ClockNext]_clockVars PROVE ClockInv'
    OBVIOUS
<1> USE ClockAssumption, GapType DEF ClockInv, ClockTypes, Mapped, timerVars, sessionVars
<1>0. Gap' = Gap
    BY DEF Gap
<1>1. CASE Create
    BY <1>0, <1>1 DEF Create, Expiry
<1>2. CASE Start
    BY <1>0, <1>2 DEF Start, Expiry
<1>3. CASE Finish
    BY <1>0, <1>3 DEF Finish, Expiry
<1>4. CASE Leave
    BY <1>0, <1>4 DEF Leave, Expiry
<1>5. CASE SweepOfCall
    BY <1>0, <1>5 DEF SweepOfCall, CleanupExpired, Retained, IdleSeconds, Expiry
<1>6. CASE Tick
    BY <1>0, <1>6 DEF Tick, Expiry
\* The session is busy, or used so lately that the sweep began before its
\* expiry, or the sweep has missed it: what is left in the map is paid for.
<1>7. CASE Sweep
    <2>1. CASE CleanupExpired
        BY <1>0, <1>7, <2>1 DEF Sweep, CleanupExpired, Retained, IdleSeconds, Expiry
    <2>2. CASE CleanupMisses
        BY <1>0, <1>7, <2>2 DEF Sweep, CleanupMisses, Retained, IdleSeconds, Expiry
    <2> QED
        BY <1>7, <2>1, <2>2 DEF Sweep
<1>8. CASE TimePasses
    BY <1>0, <1>8 DEF TimePasses, Expiry
<1>9. CASE UNCHANGED clockVars
    BY <1>0, <1>9 DEF clockVars, Expiry
<1> QED
    BY <1>1, <1>2, <1>3, <1>4, <1>5, <1>6, <1>7, <1>8, <1>9 DEF ClockNext

\* The clocks of a session and of the reaper: when an idle session was last used,
\* how long a sweep and the pause after it last, and what a sweep has left behind
\* (sandbox.rs, execute; server.rs, spawn_reaper).
THEOREM ClockInvHolds == ClockSpec => []ClockInv
BY InvInit, InvNext, PTL DEF ClockSpec

\* Abandoned sessions go in time: the limit, a period, a wait for the lock, and
\* a period more for each sweep that finds the session's lock taken.
THEOREM AbandonedReaped == ClockSpec => []ReapedInTime
<1>1. ClockInv => ReapedInTime
    BY ClockAssumption, GapType DEF ClockInv, ClockTypes, ReapedInTime, Expiry
<1> QED
    BY <1>1, ClockInvHolds, PTL

\* No session goes early: a sweep takes none on which an execution runs, and none
\* that has answered within the last Idle - Timeout seconds.
THEOREM InUseStay == ClockSpec => ReapedIdle
<1> DEFINE Step ==
        session # "reaped" /\ session' = "reaped" => session = "free" /\ now + Timeout >= ended + Idle
<1>1. ClockInv /\ [ClockNext]_clockVars => [Step]_clockVars
    <2> SUFFICES ASSUME ClockInv, [ClockNext]_clockVars, session # "reaped", session' = "reaped"
                 PROVE  session = "free" /\ now + Timeout >= ended + Idle
        OBVIOUS
    <2> USE ClockAssumption DEF ClockInv, ClockTypes, timerVars, sessionVars
    <2>1. ~(Create \/ Start \/ Finish \/ Leave \/ Tick \/ TimePasses \/ UNCHANGED clockVars)
        BY DEF Create, Start, Finish, Leave, Tick, TimePasses, clockVars
    <2>2. CleanupExpired
        BY <2>1 DEF ClockNext, SweepOfCall, Sweep, CleanupMisses
    <2> QED
        BY <2>2 DEF CleanupExpired, Retained, IdleSeconds, Mapped
<1> QED
    BY <1>1, ClockInvHolds, PTL DEF ClockSpec, ReapedIdle
===============================================================================
