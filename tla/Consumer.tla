------------------------------ MODULE Consumer ------------------------------
(***************************************************************************)
(* One consumer of cyclic data: pf_cpm.c with the software driver          *)
(* pf_cpm_driver_sw.c.                                                     *)
(*                                                                         *)
(* Two threads use it.  The Ethernet thread handles the frames of the      *)
(* controller, one at a time (pf_cpm_c_data_ind); the main thread starts   *)
(* and closes the consumer, runs its timer, and reads the data for the     *)
(* application.  Only the exchange of the buffers is under cpm_buf_lock:   *)
(* what a handler does between two accesses to shared fields is a step.    *)
(*                                                                         *)
(* A frame is known by its number n in the order of sending; its cycle     *)
(* counter is n modulo CycleMod.  Frames are lost, repeated, and late by   *)
(* up to MaxLate.  Where the payload starts depends on whether the frame   *)
(* still has its VLAN tag.                                                 *)
(***************************************************************************)
EXTENDS CycleCounter, FiniteSets

CONSTANTS
    Bufs,      \* the Ethernet frame buffers (pnal_buf_alloc)
    DataHold,  \* data_hold_factor
    MaxLate,   \* bound: the most frames that overtake a frame
    MaxSent,   \* bound: the number of frames explored
    None       \* no buffer, no frame

ASSUME ConsumerAssumption ==
    /\ MaxLate \in Nat /\ MaxLate < CycleMod - Window
    /\ DataHold \in Nat \ {0} /\ MaxSent \in Nat
    /\ IsFiniteSet(Bufs) /\ None \notin Bufs /\ None \notin Int

VARIABLES
    cpm,      \* pf_cpm_t
    mapped,   \* is the frame id in eth_id_map?
    free,     \* the buffers nobody has
    content,  \* content[b]: the frame in buffer b
    rx,       \* the Ethernet thread: where it is, the frame, the buffer it has
    main,     \* the main thread: where it is, and the dht it has loaded
    sent,     \* the number of frames the controller has sent
    last,     \* history: the last frame accepted for this connection
    got,      \* history: the frame the application has read last, and was it
              \* read at the place where its payload starts?
    starved,  \* history: timer intervals since a frame was accepted
    crossed,  \* history: has the timer overwritten a reset of dht?
    raced     \* history: was the consumer closed inside the frame handler?

vars == <<cpm, mapped, free, content, rx, main, sent, last, got, starved, crossed, raced>>

Offsets == {"plain", "tagged"}
NoFrame == [n |-> None, offset |-> "plain", good |-> FALSE]
NothingRead == [n |-> None, inside |-> TRUE]
Waiting == [at |-> "idle", buf |-> None, f |-> NoFrame]

\* The record after memset.
Cleared == [state |-> "W_START", running |-> FALSE, dht |-> 0, cycle |-> 0,
            new_buf |-> FALSE, buf_cpm |-> None, buf_app |-> None, pos |-> None]

Init ==
    /\ cpm = Cleared /\ mapped = FALSE
    /\ free = Bufs /\ content = [b \in Bufs |-> NoFrame]
    /\ rx = Waiting /\ main = [at |-> "idle", dht |-> 0]
    /\ sent = 0 /\ last = None /\ got = NothingRead
    /\ starved = 0 /\ crossed = FALSE /\ raced = FALSE

Held(b) == IF b = None THEN {} ELSE {b}
\* pnal_buf_free; what the buffers held is forgotten.
Release(bs) ==
    /\ free' = free \cup bs
    /\ content' = [b \in Bufs |-> IF b \in bs THEN NoFrame ELSE content[b]]

(***************************************************************************)
(* The controller and the Ethernet thread.                                 *)
(***************************************************************************)
Send ==
    /\ sent < MaxSent /\ sent' = sent + 1
    /\ UNCHANGED <<cpm, mapped, free, content, rx, main, last, got, starved, crossed, raced>>

\* A frame arrives and its handler is found in the map.  "good" stands for
\* the checks a frame passes whatever the state: the source address, the
\* length, the transfer status and data_valid.
Arrive(b, n, o, good) ==
    LET f == [n |-> n, offset |-> o, good |-> good]
    IN  /\ ~raced /\ rx.at = "idle" /\ mapped
        /\ b \in free /\ n \in (sent - MaxLate) .. sent /\ n > 0
        /\ free' = free \ {b}
        /\ content' = [content EXCEPT ![b] = f]
        /\ rx' = [at |-> "found", buf |-> b, f |-> f]
        /\ UNCHANGED <<cpm, mapped, main, sent, last, got, starved, crossed, raced>>

\* pf_cpm_c_data_ind looks at the state and at the frame: both are checked
\* before anything is changed.
Enter ==
    /\ ~raced /\ rx.at = "found"
    /\ IF cpm.state # "W_START" /\ rx.f.good /\ CheckCycle(cpm.cycle, rx.f.n % CycleMod)
       THEN rx' = [rx EXCEPT !.at = "put"] /\ UNCHANGED <<free, content>>
       ELSE rx' = Waiting /\ Release({rx.buf})
    /\ UNCHANGED <<cpm, mapped, main, sent, last, got, starved, crossed, raced>>

\* A mistake: the buffer that comes back is not the one that was replaced.
Mut_PutBuf ==
    /\ ~raced /\ rx.at = "put"
    /\ cpm' = [cpm EXCEPT !.buf_cpm = rx.buf, !.new_buf = TRUE]
    /\ rx' = [rx EXCEPT !.at = "pos", !.buf = cpm.buf_app]
    /\ last' = rx.f.n
    /\ UNCHANGED <<mapped, free, content, main, sent, got, starved, crossed, raced>>

\* pf_cpm_put_buf: the frame for the application is exchanged, under the lock.
PutBuf ==
    /\ ~raced /\ rx.at = "put"
    /\ cpm' = [cpm EXCEPT !.buf_cpm = rx.buf, !.new_buf = TRUE]
    /\ rx' = [rx EXCEPT !.at = "pos", !.buf = cpm.buf_cpm]
    /\ last' = rx.f.n
    /\ UNCHANGED <<mapped, free, content, main, sent, got, starved, crossed, raced>>

\* frame_id_pos and buffer_pos: where the payload starts in this frame.
SetPos ==
    /\ ~raced /\ rx.at = "pos"
    /\ cpm' = [cpm EXCEPT !.pos = rx.f.offset]
    /\ rx' = [rx EXCEPT !.at = "update"]
    /\ UNCHANGED <<mapped, free, content, main, sent, last, got, starved, crossed, raced>>

\* A mistake: the cycle counter is not kept.
Mut_Updated == [cpm EXCEPT !.dht = 0, !.state = "RUN"]

\* The fields the handler writes last.
Updated == [cpm EXCEPT !.dht = 0, !.cycle = rx.f.n % CycleMod, !.state = "RUN"]

\* The rest of the handler; the buffer that came back is freed.
Update ==
    /\ ~raced /\ rx.at = "update"
    /\ cpm' = Updated
    /\ starved' = 0 /\ crossed' = (crossed \/ main.at = "loaded")
    /\ Release(Held(rx.buf))
    /\ rx' = Waiting
    /\ UNCHANGED <<mapped, main, sent, last, got, raced>>

(***************************************************************************)
(* The main thread.                                                        *)
(***************************************************************************)
\* pf_cpm_create, pf_cpm_activate_req, pf_cpm_driver_sw_activate_req: the
\* record is filled before the state leaves W_START; until then frames are
\* dropped.
Activate ==
    /\ ~raced /\ main.at = "idle" /\ ~mapped
    /\ cpm' = [cpm EXCEPT !.state = "FRUN", !.running = TRUE, !.dht = 0,
                          !.cycle = -1, !.pos = "plain"]
    /\ mapped' = TRUE
    /\ last' = None /\ got' = NothingRead /\ starved' = 0 /\ crossed' = FALSE
    /\ UNCHANGED <<free, content, rx, main, sent, raced>>

\* Two mistakes: one interval too early, one too late.
Mut_Starved(d) == d + 1 >= DataHold
Mut2_Starved(d) == d > DataHold

\* The test for the data hold time.
Starved(d) == d >= DataHold

\* pf_cpm_control_interval_expired.  dht++ is not atomic: it is loaded, ...
TimerLoad ==
    /\ ~raced /\ main.at = "idle" /\ cpm.running /\ cpm.state = "RUN"
    /\ ~Starved(cpm.dht)
    /\ main' = [at |-> "loaded", dht |-> cpm.dht]
    /\ UNCHANGED <<cpm, mapped, free, content, rx, sent, last, got, starved, crossed, raced>>

\* ... and stored, and the timer is started again.
TimerStore ==
    /\ ~raced /\ main.at = "loaded"
    /\ cpm' = [cpm EXCEPT !.dht = main.dht + 1]
    /\ main' = [at |-> "idle", dht |-> 0]
    /\ starved' = starved + 1
    /\ UNCHANGED <<mapped, free, content, rx, sent, last, got, crossed, raced>>

\* The data hold time is over: the consumer stops, which aborts the AR.
TimerExpire ==
    /\ ~raced /\ main.at = "idle" /\ cpm.running /\ cpm.state = "RUN"
    /\ Starved(cpm.dht)
    /\ cpm' = [cpm EXCEPT !.dht = 0, !.running = FALSE]
    /\ main' = [main EXCEPT !.at = "closing"]
    /\ UNCHANGED <<mapped, free, content, rx, sent, last, got, starved, crossed, raced>>

\* The AR ends for another reason.
End ==
    /\ ~raced /\ main.at = "idle" /\ mapped
    /\ main' = [main EXCEPT !.at = "closing"]
    /\ UNCHANGED <<cpm, mapped, free, content, rx, sent, last, got, starved, crossed, raced>>

\* pf_cpm_close_req: a handler that has not looked at the state will drop its
\* frame; one that is past that goes on with buffers that are about to be freed.
CloseState ==
    /\ ~raced /\ main.at = "closing"
    /\ cpm' = [cpm EXCEPT !.state = "W_START"]
    /\ main' = [main EXCEPT !.at = "closed"]
    /\ raced' = (rx.at \in {"put", "pos", "update"})
    /\ UNCHANGED <<mapped, free, content, rx, sent, last, got, starved, crossed>>

\* The buffers the driver frees.
Freed == Held(cpm.buf_cpm) \cup Held(cpm.buf_app)

\* pf_cpm_driver_sw_close_req, and the AR record is cleared.
CloseDriver ==
    /\ ~raced /\ main.at = "closed"
    /\ cpm' = Cleared /\ mapped' = FALSE
    /\ Release(Freed)
    /\ main' = [main EXCEPT !.at = "idle"]
    /\ last' = None /\ got' = NothingRead /\ starved' = 0 /\ crossed' = FALSE
    /\ UNCHANGED <<rx, sent, raced>>

\* A mistake: the buffers are exchanged whether or not there is a new frame.
Mut_Swapped ==
    [cpm EXCEPT !.buf_app = cpm.buf_cpm, !.buf_cpm = cpm.buf_app, !.new_buf = FALSE]

\* pf_cpm_get_buf: a newer frame is exchanged for the old one, under the lock.
Swapped ==
    IF cpm.new_buf
    THEN [cpm EXCEPT !.buf_app = cpm.buf_cpm, !.buf_cpm = cpm.buf_app, !.new_buf = FALSE]
    ELSE cpm

\* pf_cpm_get_data_and_iops and pf_cpm_get_iocs, which are called while the
\* consumer is started: the buffer, ...
GetBuf ==
    /\ ~raced /\ main.at = "idle" /\ cpm.state # "W_START"
    /\ cpm' = Swapped
    /\ main' = [main EXCEPT !.at = "reading"]
    /\ UNCHANGED <<mapped, free, content, rx, sent, last, got, starved, crossed, raced>>

\* ... and, when there is one, the data at buffer_pos in it.
Copy ==
    /\ ~raced /\ main.at = "reading"
    /\ got' = IF cpm.buf_app = None THEN got
              ELSE [n |-> content[cpm.buf_app].n,
                    inside |-> cpm.pos = content[cpm.buf_app].offset]
    /\ main' = [main EXCEPT !.at = "idle"]
    /\ UNCHANGED <<cpm, mapped, free, content, rx, sent, last, starved, crossed, raced>>

Ethernet ==
    \/ \E b \in Bufs, n \in 1 .. MaxSent, o \in Offsets, good \in BOOLEAN : Arrive(b, n, o, good)
    \/ Enter \/ PutBuf \/ SetPos \/ Update
MainThread ==
    Activate \/ TimerLoad \/ TimerStore \/ TimerExpire \/ End \/ CloseState \/ CloseDriver
    \/ GetBuf \/ Copy

Next == Send \/ Ethernet \/ MainThread
Spec == Init /\ [][Next]_vars

-----------------------------------------------------------------------------
Frame == [n : Int \cup {None}, offset : Offsets, good : BOOLEAN]
BufOrNone == Bufs \cup {None}

\* Every variable keeps to its type.
TypeOK ==
    /\ cpm \in [state : {"W_START", "FRUN", "RUN"}, running : BOOLEAN, dht : 0 .. DataHold,
                 cycle : -1 .. CycleMod - 1, new_buf : BOOLEAN,
                 buf_cpm : BufOrNone, buf_app : BufOrNone, pos : Offsets \cup {None}]
    /\ mapped \in BOOLEAN /\ free \subseteq Bufs /\ content \in [Bufs -> Frame]
    /\ rx \in [at : {"idle", "found", "put", "pos", "update"}, buf : BufOrNone, f : Frame]
    /\ main \in [at : {"idle", "loaded", "reading", "closing", "closed"}, dht : 0 .. DataHold]
    /\ sent \in Nat /\ last \in Int \cup {None} /\ starved \in Nat
    /\ got \in [n : Int \cup {None}, inside : BOOLEAN]
    /\ crossed \in BOOLEAN /\ raced \in BOOLEAN

\* The places a buffer can be in.
Places == <<Held(rx.buf), Held(cpm.buf_cpm), Held(cpm.buf_app), free>>

\* A frame buffer is in exactly one place: with the Ethernet thread, with the
\* consumer, with the application, or free.  Exchanges, drops and closings
\* lose no buffer and free none twice (pf_cpm_put_buf, pf_cpm_get_buf,
\* pf_cpm_driver_sw_close_req), unless the consumer was closed in the middle
\* of the frame handler.
OneOwner ==
    ~raced =>
        /\ \A i, j \in 1 .. 4 : i # j => Places[i] \cap Places[j] = {}
        /\ UNION {Places[i] : i \in 1 .. 4} = Bufs

\* The application is one exchange away from the newest frame: pf_cpm_get_buf
\* gives it the frame put last, whatever the two threads did before.
NewestAtHand ==
    ~raced /\ last # None =>
        LET b == IF cpm.new_buf THEN cpm.buf_cpm ELSE cpm.buf_app
        IN  b # None /\ content[b].n = last

\* A consumer that gets no frames is not kept for longer than the data hold
\* time, however its timer and the frame handler interleave.
EndsInTime ==
    ~raced /\ cpm.running /\ cpm.state = "RUN" => starved <= DataHold /\ cpm.dht >= starved

\* The data hold time only ends a connection when no frame was accepted for
\* that long, unless the timer has overwritten the reset of dht by a frame
\* that was accepted while it was counting.
HoldsWhileFed == [][TimerExpire => starved >= DataHold \/ crossed]_vars

\* The data of a frame is never replaced by that of an older one or of the
\* same one again, over the wraparound of the cycle counter, as long as
\* frames are less late than pf_cpm_check_cycle tells apart.
DataMovesForward == [][PutBuf /\ last # None => last' > last]_vars

\* The application reads a frame where its payload starts
\* (pf_cpm_driver_sw.c:191: "A pointer to the latest received data").
ReadsInside == got.inside
=============================================================================
