------------------------------ MODULE Provider ------------------------------
(***************************************************************************)
(* The provider of cyclic data: pf_ppm.c with the software driver          *)
(* pf_ppm_driver_sw.c.  Its timer callback sends a frame and schedules     *)
(* itself for the next one, relative to a deadline that advances by the    *)
(* control interval whether or not the stack was called in time.           *)
(*                                                                         *)
(* The clock is that of the scheduler, in microseconds modulo ClockMod.    *)
(* The stack is called (pnet_handle_periodic) every TickTime, or late.     *)
(***************************************************************************)
EXTENDS CycleCounter

CONSTANTS
    ClockMod,     \* the clock wraps here (2^32)
    MaxDelay,     \* PF_SCHEDULER_MAX_DELAY_US
    TickTime,     \* scheduler_tick_interval, the stack cycle time
    Interval,     \* control_interval
    Step,         \* send_clock_factor * reduction_ratio; at most 32704 is accepted
                  \* (pf_cmdev.c:3294)
    MaxBehind     \* bound: how far the provider may be behind its deadline

ASSUME ProviderAssumption ==
    /\ ClockMod \in Nat /\ MaxDelay \in Nat /\ MaxBehind \in Nat
    /\ TickTime \in Nat \ {0} /\ Interval \in Nat \ {0} /\ Step \in 1 .. Window
    /\ Interval + TickTime <= MaxDelay
    /\ 2 * MaxDelay < ClockMod /\ 2 * (MaxBehind + TickTime) < ClockMod

VARIABLES
    ppm,      \* pf_ppm_t
    timer,    \* when the scheduled pf_ppm_drv_sw_send is due
    now,      \* os_get_current_time_us
    counter,  \* history: the cycle counter of the last frame, -1 before it
    failed    \* history: has sending a frame failed?

pvars == <<ppm, timer, now, counter, failed>>

PpmOff == [state |-> "W_START", running |-> FALSE, next_exec |-> 0, cycle |-> 0]

ProviderInit ==
    /\ ppm = PpmOff /\ timer = {} /\ now \in {0, ClockMod - 1}
    /\ counter = -1 /\ failed = FALSE

Clock(t) == t % ClockMod
\* The difference of two times, as int32_t.
Signed(d) == IF 2 * (d % ClockMod) < ClockMod THEN d % ClockMod ELSE (d % ClockMod) - ClockMod

\* A mistake: a deadline that was missed is taken for one that is far away.
Mut_Sanitized(delay) ==
    IF 2 * delay > 3 * TickTime
    THEN ((delay + TickTime \div 2) \div TickTime) * TickTime - TickTime \div 2
    ELSE TickTime - TickTime \div 2

\* pf_scheduler_sanitize_delay, as pf_scheduler_add calls it: whole ticks, at
\* least one, less half a tick.  A delay that is too long is a deadline missed.
Sanitized(delay) ==
    LET wanted == IF delay > MaxDelay THEN 0 ELSE delay
        ticks == IF wanted > TickTime + TickTime \div 2
                 THEN (wanted + TickTime \div 2) \div TickTime ELSE 1
    IN  ticks * TickTime - TickTime \div 2

\* pf_ppm_finish_buffer: the counter of the next frame; its data are copied
\* under ppm_buf_lock.
Finished(p) == [p EXCEPT !.cycle = NextCycle(@, Step)]

Closed ==
    /\ ppm' = PpmOff /\ timer' = {} /\ counter' = -1 /\ failed' = FALSE

\* pf_ppm_create and pf_ppm_activate_req (a controller sends PrmEnd).  When
\* the timer cannot be started, the AR is aborted.
Activate_PPM(full) ==
    /\ ppm.state = "W_START"
    /\ IF full THEN Closed
       ELSE /\ ppm' = Finished([state |-> "RUN", running |-> TRUE,
                                next_exec |-> Clock(now + Interval), cycle |-> 0])
            /\ timer' = {Clock(now + Sanitized(Interval))}
            /\ counter' = -1 /\ failed' = FALSE
    /\ UNCHANGED now

\* pf_ppm_close_req, by whatever ends the AR.
Close_PPM == ppm.state = "RUN" /\ Closed /\ UNCHANGED now

Due == \E t \in timer : Signed(now' - t) >= 0

\* The next deadline, and when the callback is scheduled for it.
NextDeadline(p) == Clock(p.next_exec + Interval)
NextDue(p) == Clock(now' + Sanitized(Clock(NextDeadline(p) - now')))

\* pf_ppm_drv_sw_send in pf_scheduler_tick.
SendFrame(result) ==
    LET p == Finished(ppm)
    IN  CASE result = "sent" ->
               /\ ppm' = [p EXCEPT !.next_exec = NextDeadline(p)]
               /\ timer' = {NextDue(p)} /\ counter' = p.cycle /\ UNCHANGED failed
          [] result = "not_sent" ->
               ppm' = p /\ timer' = {} /\ failed' = TRUE /\ UNCHANGED counter
          [] result = "full" -> Closed

\* The stack is called after d microseconds.
Periodic(d, result) ==
    /\ now' = Clock(now + d)
    /\ ppm.running => Signed(now - ppm.next_exec) + d <= MaxBehind
    /\ IF Due THEN SendFrame(result) ELSE UNCHANGED <<ppm, timer, counter, failed>>

Results == {"sent", "not_sent", "full"}

ProviderNext ==
    \/ \E full \in BOOLEAN : Activate_PPM(full)
    \/ Close_PPM
    \/ \E d \in 1 .. TickTime + MaxBehind, result \in Results : Periodic(d, result)

ProviderSpec == ProviderInit /\ [][ProviderNext]_pvars

-----------------------------------------------------------------------------
\* The next frame of a provider that runs is always scheduled, once, until
\* sending a frame fails; nothing is scheduled for one that was closed.
\* However late the stack is called, the time is that of the deadline, less at
\* most one tick, or the next tick, and is never past: a deadline that was
\* missed, or a clock that wraps, makes the provider neither wait nor send a
\* burst of frames.
NextFrameScheduled ==
    /\ timer # {} <=> ppm.running /\ ~failed
    /\ \A t \in timer :
         /\ Signed(t - now) > 0
         /\ \/ Signed(t - ppm.next_exec) \in -TickTime .. 0
            \/ Signed(t - ppm.next_exec) >= 0 /\ Signed(t - now) <= TickTime

\* The controller takes every frame for a newer one (pf_cpm_check_cycle is
\* its check), the wraparound of the cycle counter included.
CountersAdvance ==
    [][counter # -1 /\ ppm'.next_exec # ppm.next_exec /\ ppm'.running
         => CheckCycle(counter, counter')]_pvars
=============================================================================
