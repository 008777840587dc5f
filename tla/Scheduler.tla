----------------------------- MODULE Scheduler -----------------------------
(***************************************************************************)
(* The timer pool of pf_scheduler.c.  A fixed array of timeout slots lives *)
(* in two doubly linked lists, the free list and the busy list (ordered by *)
(* expiry).  The list operations run under one mutex, but                  *)
(* pf_scheduler_add releases it between taking a slot from the free list   *)
(* and linking it into the busy list, fills the slot in between, and       *)
(* writes the caller's handle after the second unlock; pf_scheduler_tick   *)
(* frees a slot before it calls the callback, without the mutex.           *)
(*                                                                         *)
(* Each region the code runs under the mutex is one step; each unlocked    *)
(* group of assignments is a step of its own.  The lists are sequences of  *)
(* slots.  A slot number stands for timer_index (slot + 1 in the code) and *)
(* Stopped for UINT32_MAX.                                                 *)
(***************************************************************************)
EXTENDS Integers, Sequences, SequencesExt

CONSTANTS
    N,           \* PF_MAX_TIMEOUTS, the number of slots
    Threads,     \* the threads that call the scheduler
    Main,        \* the one that runs pf_scheduler_tick
    Handles,     \* the pf_scheduler_handle_t objects
    Name,        \* Name[h]: the string handle h was initialised with
    Owner,       \* Owner[h]: the thread that adds and removes h
    AddOnly,     \* the handles no thread ever removes
    M,           \* 2^32, the modulus of the microsecond clock
    MaxDelay,    \* PF_SCHEDULER_MAX_DELAY_US, in units of half a tick
    MaxLate,     \* how late the tick may run (see Advance)
    Boot,        \* the clock reading at start-up, which is arbitrary
    MaxTime,     \* bound on the absolute time explored
    None         \* no handle

ASSUME SchedulerAssumption ==
    /\ N \in Nat \ {0}
    /\ Main \in Threads
    /\ Owner \in [Handles -> Threads]
    /\ Handles = DOMAIN Name
    /\ AddOnly \subseteq Handles
    /\ None \notin Handles

\* The 32-bit clock is wide enough for the delays and the jitter.
ASSUME ClockAssumption ==
    /\ M \in Nat \ {0} /\ MaxDelay \in Nat \ {0} /\ MaxLate \in Nat
    /\ Boot \in Nat /\ MaxTime \in Nat
    /\ 2 * (MaxDelay + MaxLate) < M

Slots == 1 .. N
Stopped == 0

VARIABLES
    clock,       \* absolute time; the code reads it modulo M
    free,        \* scheduler_timeout_free
    busy,        \* scheduler_timeout_first
    slot,        \* scheduler_timeouts[]
    handle,      \* handle[h].timer_index
    ctx,         \* where each thread is inside pf_scheduler_add
    tick,        \* the running pf_scheduler_tick, with the time it read
    call         \* the callback taken off the busy list, not yet entered

vars == <<clock, free, busy, slot, handle, ctx, tick, call>>

\* A slot: `due' is the absolute expiry time, `when' in the code is due % M.
Slot == [in_use : BOOLEAN, name : {Name[h] : h \in Handles} \cup {"<free>"},
         arg : Handles \cup {None}, due : Nat]

Idle == [at |-> "idle", h |-> None, ix |-> Stopped, due |-> 0]

\* Where a thread is: the handle it adds, the slot it took, its expiry time.
Context == [at : {"idle", "called", "timed", "taken", "flagged", "filled", "linked"},
            h : Handles \cup {None}, ix : Slots \cup {Stopped}, due : Nat]

Busy(t) == ctx[t].at # "idle"

Mut_Signed(d) == d

\* (int32_t)(a - b) of two clock readings: the sign survives a wraparound.
Signed(d) == LET r == d % M IN IF 2 * r >= M THEN r - M ELSE r
Diff(a, b) == Signed((a % M) - (b % M))

\* pf_scheduler_unlink and pf_scheduler_link_before at the head: unlinking an
\* entry that is not in the list, or linking one that is, only logs an error.
Unlink(list, ix) ==
    IF ix \in Range(list)
    THEN RemoveAt(list, CHOOSE k \in 1 .. Len(list) : list[k] = ix)
    ELSE list
LinkFirst(list, ix) == IF ix \in Range(list) THEN list ELSE <<ix>> \o list

Init ==
    /\ clock = Boot
    /\ free = [i \in Slots |-> i]
    /\ busy = << >>
    /\ slot = [i \in Slots |->
                 [in_use |-> FALSE, name |-> "<free>", arg |-> None, due |-> 0]]
    /\ handle = [h \in Handles |-> Stopped]
    /\ ctx = [t \in Threads |-> Idle]
    /\ tick = [on |-> FALSE, now |-> 0]
    /\ call = None

\* Calls begin while the timer can still expire by MaxTime; the clock passes
\* MaxTime only to let the timers already started expire.
InBound(time) == time + MaxDelay <= MaxTime

\* A thread may start a call when it is not inside one; the thread of the
\* tick must also have entered the callback it has taken off the list.
Ready(t) == ~Busy(t) /\ (t = Main => call = None)

(***************************************************************************)
(* pf_scheduler_add, in the steps that the mutex separates.                *)
(***************************************************************************)
\* The caller owns h.  The stack's own callers add a stopped handle;
\* the handles nobody removes are added without looking.
AddCall(t, h) ==
    /\ Ready(t) /\ Owner[h] = t /\ InBound(clock)
    /\ handle[h] = Stopped \/ h \in AddOnly
    /\ ctx' = [ctx EXCEPT ![t] = [Idle EXCEPT !.at = "called", !.h = h]]
    /\ UNCHANGED <<clock, free, busy, slot, handle, tick, call>>

\* now = os_get_current_time_us(), before the lock; the delay is sanitised.
AddNow(t, d) ==
    /\ ctx[t].at = "called"
    /\ ctx' = [ctx EXCEPT ![t].at = "timed", ![t].due = clock + d]
    /\ UNCHANGED <<clock, free, busy, slot, handle, tick, call>>

\* First locked region: take the head of the free list, or give up.
AddTake(t) ==
    /\ ctx[t].at = "timed"
    /\ \/ /\ free # << >>
          /\ free' = Tail(free)
          /\ ctx' = [ctx EXCEPT ![t].at = "taken", ![t].ix = Head(free)]
          /\ UNCHANGED handle
       \/ /\ free = << >>
          /\ handle' = [handle EXCEPT ![ctx[t].h] = Stopped]
          /\ ctx' = [ctx EXCEPT ![t] = Idle]
          /\ UNCHANGED free
    /\ UNCHANGED <<clock, busy, slot, tick, call>>

\* Unlocked: in_use is written before the name, which is still the old one.
AddFlag(t) ==
    /\ ctx[t].at = "taken"
    /\ slot' = [slot EXCEPT ![ctx[t].ix].in_use = TRUE]
    /\ ctx' = [ctx EXCEPT ![t].at = "flagged"]
    /\ UNCHANGED <<clock, free, busy, handle, tick, call>>

Mut_AddFill(t) ==
    /\ ctx[t].at = "flagged"
    /\ slot' = [slot EXCEPT ![ctx[t].ix] =
                  [in_use |-> @.in_use, name |-> @.name,
                   arg |-> ctx[t].h, due |-> ctx[t].due]]
    /\ ctx' = [ctx EXCEPT ![t].at = "filled"]
    /\ UNCHANGED <<clock, free, busy, handle, tick, call>>

AddFill(t) ==
    /\ ctx[t].at = "flagged"
    /\ slot' = [slot EXCEPT ![ctx[t].ix] =
                  [in_use |-> @.in_use, name |-> Name[ctx[t].h],
                   arg |-> ctx[t].h, due |-> ctx[t].due]]
    /\ ctx' = [ctx EXCEPT ![t].at = "filled"]
    /\ UNCHANGED <<clock, free, busy, handle, tick, call>>

Mut_InsertPos(ix) == Len(busy) + 1

\* Where the busy list takes ix: before the first entry that does not expire
\* earlier.
InsertPos(ix) ==
    LET later == {k \in 1 .. Len(busy) : Diff(slot[ix].due, slot[busy[k]].due) <= 0}
    IN  IF later = {} THEN Len(busy) + 1
        ELSE CHOOSE k \in later : \A j \in later : k <= j

\* Second locked region: link the slot in expiry order.
AddLink(t) ==
    /\ ctx[t].at = "filled"
    /\ busy' = InsertAt(busy, InsertPos(ctx[t].ix), ctx[t].ix)
    /\ ctx' = [ctx EXCEPT ![t].at = "linked"]
    /\ UNCHANGED <<clock, free, slot, handle, tick, call>>

\* The handle is written after the unlock.
AddReturn(t) ==
    /\ ctx[t].at = "linked"
    /\ handle' = [handle EXCEPT ![ctx[t].h] = ctx[t].ix]
    /\ ctx' = [ctx EXCEPT ![t] = Idle]
    /\ UNCHANGED <<clock, free, busy, slot, tick, call>>

(***************************************************************************)
(* pf_scheduler_remove_if_running and pf_scheduler_restart.                *)
(***************************************************************************)
\* What removes the slot of a handle: the names agree and it is in use.
Removable(h) ==
    /\ handle[h] # Stopped
    /\ slot[handle[h]].name = Name[h]
    /\ slot[handle[h]].in_use

\* The locked region of pf_scheduler_remove.
DoRemove(h) ==
    IF Removable(h)
    THEN /\ busy' = Unlink(busy, handle[h])
         /\ slot' = [slot EXCEPT ![handle[h]].in_use = FALSE]
         /\ free' = LinkFirst(free, handle[h])
         /\ handle' = [handle EXCEPT ![h] = Stopped]
    ELSE UNCHANGED <<busy, slot, free, handle>>

\* pf_scheduler_remove_if_running
RemoveIfRunning(t, h) ==
    /\ Ready(t) /\ Owner[h] = t /\ h \notin AddOnly
    /\ handle[h] # Stopped
    /\ DoRemove(h)
    /\ UNCHANGED <<clock, ctx, tick, call>>

\* pf_scheduler_restart: remove if running, then add, whatever was removed.
Restart(t, h) ==
    /\ Ready(t) /\ Owner[h] = t /\ h \notin AddOnly /\ InBound(clock)
    /\ handle[h] # Stopped
    /\ DoRemove(h)
    /\ ctx' = [ctx EXCEPT ![t] = [Idle EXCEPT !.at = "called", !.h = h]]
    /\ UNCHANGED <<clock, tick, call>>

(***************************************************************************)
(* pf_scheduler_tick, on the main thread.                                  *)
(***************************************************************************)
TickStart ==
    /\ Ready(Main) /\ ~tick.on
    /\ tick' = [on |-> TRUE, now |-> clock]
    /\ UNCHANGED <<clock, free, busy, slot, handle, ctx, call>>

Expired == busy # << >> /\ Diff(tick.now, slot[Head(busy)].due) >= 0

Mut_TickPop ==
    /\ Ready(Main) /\ tick.on /\ Expired
    /\ busy' = Tail(busy)
    /\ slot' = slot
    /\ free' = LinkFirst(free, Head(busy))
    /\ call' = slot[Head(busy)].arg
    /\ UNCHANGED <<clock, handle, ctx, tick>>

\* Take the first expired entry off the list and free its slot; the mutex is
\* released before the callback runs.
TickPop ==
    /\ Ready(Main) /\ tick.on /\ Expired
    /\ busy' = Tail(busy)
    /\ slot' = [slot EXCEPT ![Head(busy)].in_use = FALSE]
    /\ free' = LinkFirst(free, Head(busy))
    /\ call' = slot[Head(busy)].arg
    /\ UNCHANGED <<clock, handle, ctx, tick>>

Mut_Callback ==
    /\ call # None
    /\ call' = None
    /\ UNCHANGED <<clock, free, busy, slot, handle, ctx, tick>>

\* A callback begins with pf_scheduler_reset_handle; what else it does is any
\* sequence of calls of the main thread before the tick goes on.
Callback ==
    /\ call # None
    /\ handle' = [handle EXCEPT ![call] = Stopped]
    /\ call' = None
    /\ UNCHANGED <<clock, free, busy, slot, ctx, tick>>

TickEnd ==
    /\ Ready(Main) /\ tick.on /\ ~Expired
    /\ tick' = [tick EXCEPT !.on = FALSE]
    /\ UNCHANGED <<clock, free, busy, slot, handle, ctx, call>>

\* Time passes.  The stack is run often enough that nothing is overdue by
\* more than MaxLate: without that the signed comparison has no meaning.
Advance ==
    /\ \/ clock < MaxTime
       \/ busy # << >>
       \/ \E t \in Threads : ctx[t].at \notin {"idle", "called"}
    /\ \A k \in 1 .. Len(busy) : clock + 1 - slot[busy[k]].due <= MaxLate
    /\ \A t \in Threads : ctx[t].at \notin {"idle", "called"} =>
                             clock + 1 - ctx[t].due <= MaxLate
    /\ tick.on => clock + 1 - tick.now <= MaxLate
    /\ clock' = clock + 1
    /\ UNCHANGED <<free, busy, slot, handle, ctx, tick, call>>

ThreadStep(t) ==
    \/ \E h \in Handles : AddCall(t, h) \/ Restart(t, h) \/ RemoveIfRunning(t, h)
    \/ \E d \in 1 .. MaxDelay : AddNow(t, d)
    \/ AddTake(t) \/ AddFlag(t) \/ AddFill(t) \/ AddLink(t) \/ AddReturn(t)

TickStep == TickStart \/ TickPop \/ Callback \/ TickEnd

Next == (\E t \in Threads : ThreadStep(t)) \/ TickStep \/ Advance

Spec == Init /\ [][Next]_vars

-----------------------------------------------------------------------------
TypeOK ==
    /\ clock \in Nat
    /\ free \in Seq(Slots) /\ busy \in Seq(Slots)
    /\ slot \in [Slots -> Slot]
    /\ handle \in [Handles -> Slots \cup {Stopped}]
    /\ ctx \in [Threads -> Context]
    /\ tick \in [on : BOOLEAN, now : Nat]
    /\ call \in Handles \cup {None}

\* The threads that have taken a slot from the free list and not linked it.
Holding == {t \in Threads : ctx[t].at \in {"taken", "flagged", "filled"}}
HeldSlots == {ctx[t].ix : t \in Holding}

\* The handles h of the stack are either used by the thread of the tick alone,
\* or added by another thread that never stops them.
Discipline == \A h \in Handles : Owner[h] = Main \/ h \in AddOnly

\* No slot is lost, shared or linked twice: at every moment a slot is in the
\* free list, in the busy list or in the hands of exactly one thread inside
\* pf_scheduler_add, and in_use tells the first from the second.
\* (pf_scheduler.c: pf_scheduler_add, pf_scheduler_remove, pf_scheduler_tick.)
SlotPartition ==
    /\ IsInjective(free) /\ IsInjective(busy)
    /\ Range(free) \cap Range(busy) = {}
    /\ HeldSlots \cap (Range(free) \cup Range(busy)) = {}
    /\ \A t, u \in Holding : ctx[t].ix = ctx[u].ix => t = u
    /\ Slots = Range(free) \cup Range(busy) \cup HeldSlots
    /\ \A i \in Range(free) : ~slot[i].in_use
    /\ \A i \in Range(busy) : slot[i].in_use

\* A handle of the main thread names the one slot scheduled for it, and a
\* handle that is stopped has none, but for the moments in which its add has
\* linked the slot and not returned, or its callback was taken off the list
\* and not entered.  (pf_scheduler_is_running and pf_scheduler_remove rely on
\* it: a stale handle may stop the timer of somebody else with the same name.)
TellsTruth(h) ==
    /\ handle[h] # Stopped =>
         \/ call = h
         \/ handle[h] \in Range(busy) /\ slot[handle[h]].arg = h
    /\ \A i \in Range(busy) : slot[i].arg = h =>
         \/ handle[h] = i
         \/ ctx[Main].at = "linked" /\ ctx[Main].h = h /\ ctx[Main].ix = i
    /\ call = h => \A i \in Range(busy) : slot[i].arg # h
HandleTruth ==
    \A h \in Handles : Owner[h] = Main /\ h \notin AddOnly => TellsTruth(h)

\* What a thread inside pf_scheduler_add may rely on: the slot it fills is its
\* own, every linked slot still carries the name of the handle it was filled
\* for, and a main-thread timer being added has no other slot.
AddsOwnSlot ==
    /\ \A t \in Threads : ctx[t].at # "idle" =>
         ctx[t].h \in Handles /\ Owner[ctx[t].h] = t
    /\ \A t \in Threads : ctx[t].at \in {"taken", "flagged", "filled", "linked"} =>
         ctx[t].ix \in Slots
    /\ \A t \in Holding :
         /\ ctx[t].at \in {"flagged", "filled"} => slot[ctx[t].ix].in_use
         /\ ctx[t].at = "filled" => /\ slot[ctx[t].ix].arg = ctx[t].h
                                    /\ slot[ctx[t].ix].name = Name[ctx[t].h]
    /\ \A i \in Range(busy) :
         slot[i].arg \in Handles /\ slot[i].name = Name[slot[i].arg]
    /\ call # None => ctx[Main].at = "idle"
    /\ ctx[Main].at # "idle" /\ ctx[Main].h \notin AddOnly =>
         /\ handle[ctx[Main].h] = Stopped
         /\ \A i \in Range(busy) : slot[i].arg = ctx[Main].h =>
              ctx[Main].at = "linked" /\ i = ctx[Main].ix
         /\ ctx[Main].at = "linked" =>
              ctx[Main].ix \in Range(busy) /\ slot[ctx[Main].ix].arg = ctx[Main].h

\* The inductive invariant: what TLAPS proves for every number of slots,
\* threads and timers.
IInv == TypeOK /\ SlotPartition /\ HandleTruth /\ AddsOwnSlot

\* The busy list is in expiry order although the entries hold only the low
\* bits of the expiry time (pf_scheduler_add compares them as int32_t).
BusySorted ==
    \A j, k \in 1 .. Len(busy) : j < k => slot[busy[j]].due <= slot[busy[k]].due

\* The times the code compares are close to the clock, so that the signed
\* difference of their low bits is their difference.
Recent(due) == due \in clock - MaxLate .. clock + MaxDelay
Timely ==
    /\ \A k \in 1 .. Len(busy) : Recent(slot[busy[k]].due)
    /\ \A t \in Threads : ctx[t].at \notin {"idle", "called"} => Recent(ctx[t].due)
    /\ \A t \in Threads : ctx[t].at = "filled" => slot[ctx[t].ix].due = ctx[t].due
    /\ tick.on => tick.now \in clock - MaxLate .. clock

\* The inductive invariant about expiry: with IInv, BusySorted is inductive.
OrderInv == BusySorted /\ Timely

\* A callback is never called before its delay has passed, never while an
\* entry that expires earlier stays in the list, and the tick does not end
\* with an expired entry left (pf_scheduler_tick).
FiresInTime ==
    [][ /\ call = None /\ call' # None =>
             /\ slot[Head(busy)].due <= tick.now
             /\ \A i \in Range(busy) : slot[Head(busy)].due <= slot[i].due
        /\ tick.on /\ ~tick'.on => \A i \in Range(busy) : slot[i].due > tick.now ]_vars

\* A thread finishes the call it is in; callers are not obliged to call.  Time
\* passes and pnet_handle_periodic runs the tick once in every cycle whatever
\* else the threads do in between: strong fairness, since calls in progress
\* disable both for a moment.
Fairness ==
    /\ \A t \in Threads :
         WF_vars((\E d \in 1 .. MaxDelay : AddNow(t, d)) \/ AddTake(t) \/ AddFlag(t) \/ AddFill(t)
                 \/ AddLink(t) \/ AddReturn(t))
    /\ SF_vars(TickStep) /\ SF_vars(Advance)

FairSpec == Spec /\ Fairness

\* A linked timer does not stay scheduled for ever: it fires or is removed.
TimersExpire ==
    \A i \in Slots : i \in Range(busy) ~> i \notin Range(busy)
=============================================================================
