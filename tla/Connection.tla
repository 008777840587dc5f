---------------------------- MODULE Connection -----------------------------
(***************************************************************************)
(* The life of an application relation (AR) in a p-net device: the RPC     *)
(* sessions of pf_cmrpc.c, the state machine of pf_cmdev.c and those it    *)
(* drives (pf_cmsu.c, pf_cmio.c, pf_cmwrr.c, pf_cmsm.c, pf_cmpbe.c), with  *)
(* the consumers of pf_cpm.c, whose timer runs on the main thread and      *)
(* whose frames arrive on the Ethernet thread.                             *)
(*                                                                         *)
(* Only AREP 1 is ever connected (pf_cmrpc_rm_connect_ind refuses any      *)
(* other), so there is one AR record; the second one exists only inside a  *)
(* Connect handler.  RPC messages, timer callbacks and application calls   *)
(* are handled one at a time by the main thread: each is one step.  A      *)
(* received frame takes three steps of the Ethernet thread.                *)
(*                                                                         *)
(* Releasing the AR or a session is a memset: what those records held is   *)
(* gone, but timers and frame handlers that point into them survive unless *)
(* they were removed before.  A timer is therefore kept with what the      *)
(* scheduler has of it: the slot the handle names, and the slots that no   *)
(* handle names any more.                                                  *)
(***************************************************************************)
EXTENDS Integers, FiniteSets

CONSTANTS
    NSess,        \* PF_MAX_SESSION, the number of sessions
    CRs,          \* the output CRs of a connection, each with a CPM
    Uuids,        \* AR UUIDs the controllers use
    Activities,   \* RPC activity UUIDs the controllers use
    Uses,         \* the pairs <<a, u>>: requests about AR u come on activity a
    Implicit,     \* the activities that carry Read Implicit requests
    Seqs,         \* RPC sequence numbers of DControl requests
    Resends,      \* PF_CMRPC_NUMBER_OF_RESENDS
    DataHold,     \* data_hold_factor
    Garbled,      \* may a Connect for a connected AR be malformed?
    SilentRefusal,\* may the application refuse without error information?
    StartMayFail, \* may a protocol machine fail to start?
    MaxLost,      \* bound on the orphaned timers and frame handlers explored
    Own,          \* the activity the device chooses for its own request
    None          \* no UUID, no activity, no sequence number, no CR

ASSUME ConnectionAssumption ==
    /\ NSess \in Nat \ {0} /\ Resends \in Nat \ {0}
    /\ DataHold \in Nat \ {0} /\ MaxLost \in Nat
    /\ Uses \subseteq Activities \X Uuids /\ Implicit \subseteq Activities
    /\ Own \notin Activities
    /\ None \notin Uuids \cup Activities \cup Seqs \cup CRs \cup {Own}
    /\ Garbled \in BOOLEAN /\ SilentRefusal \in BOOLEAN /\ StartMayFail \in BOOLEAN

S == 1 .. NSess
NoSess == 0

VARIABLES
    ar,       \* cmrpc_ar[0]
    sess,     \* cmrpc_session_info[]
    poll,     \* the scheduled pf_cmio_timer_expired callbacks
    ci,       \* ci[c]: the scheduled pf_cpm_control_interval_expired callbacks
    monitor,  \* is pf_cmsm_timeout scheduled?
    map,      \* map[c]: the entries of eth_id_map for the frame id of c
    rx,       \* the frame the Ethernet thread is handling
    halted    \* a null pointer was followed

vars == <<ar, sess, poll, ci, monitor, map, rx, halted>>

CpmOff == [state |-> "W_START", running |-> FALSE, start |-> FALSE, dht |-> 0]

\* An AR after memset.
NoAr == [in_use |-> FALSE, uuid |-> None, sess |-> NoSess, legacy |-> FALSE,
         cmdev |-> "POWER_ON", cmsu |-> "IDLE", cmio |-> "IDLE", resched |-> FALSE,
         cmwrr |-> "IDLE", cmsm |-> "IDLE", cmpbe |-> "IDLE", ready |-> FALSE,
         alarm |-> FALSE, ppm |-> "W_START", cpm |-> [c \in CRs |-> CpmOff]]

NoSession == [in_use |-> FALSE, act |-> None, from_me |-> FALSE, ar |-> FALSE,
              left |-> 0, timer |-> FALSE, dseq |-> None]

NoTimer == [named |-> FALSE, lost |-> 0]
Count(b) == IF b THEN 1 ELSE 0

\* What happens to the slot a timer handle names: the handle is overwritten
\* (reset, or zeroed with its record) and the slot stays; or it is removed.
Orphan(t) == [named |-> FALSE, lost |-> t.lost + Count(t.named)]
Removed(t) == [t EXCEPT !.named = FALSE]
\* pf_scheduler_add writes the new slot into the handle.
Added(t) == [Orphan(t) EXCEPT !.named = TRUE]
\* One of the slots expires and is freed.
Expiring(t) == {u \in {[t EXCEPT !.named = FALSE], [t EXCEPT !.lost = t.lost - 1]} :
                  u # t /\ u.lost >= 0}

Init ==
    /\ ar = NoAr
    /\ sess = [s \in S |-> NoSession]
    /\ poll = NoTimer
    /\ ci = [c \in CRs |-> NoTimer]
    /\ monitor = FALSE
    /\ map = [c \in CRs |-> 0]
    /\ rx = [at |-> "idle", cr |-> None]
    /\ halted = FALSE

\* The state a handler of the main thread works on, as one record, so that a
\* handler is the composition of the functions it calls.
Dev == [ar |-> ar, sess |-> sess, poll |-> poll, ci |-> ci,
        monitor |-> monitor, map |-> map]
Becomes(d) ==
    /\ ar' = d.ar /\ sess' = d.sess /\ poll' = d.poll /\ ci' = d.ci
    /\ monitor' = d.monitor /\ map' = d.map

(***************************************************************************)
(* pf_cmdev_state_ind: what each state machine does with an event.  For    *)
(* PNET_EVENT_ABORT the last one, pf_cmrpc, clears the AR, so only what    *)
(* the machines do outside the AR record remains of it: see Abort.         *)
(***************************************************************************)
Cmsu(d, e) ==
    IF d.ar.cmsu = "STARTUP" /\ e = "PRMEND" THEN [d EXCEPT !.ar.ppm = "RUN"] ELSE d

Mut_Cmio(d, e) ==
    CASE d.ar.cmio = "IDLE" /\ e = "STARTUP" ->
            [d EXCEPT !.ar.cmio = "STARTUP", !.ar.resched = FALSE,
                      !.ar.cpm = [c \in CRs |-> [@[c] EXCEPT !.start = FALSE]]]
      [] d.ar.cmio = "STARTUP" /\ e = "PRMEND" ->
            [d EXCEPT !.ar.cmio = "WDATA", !.ar.resched = TRUE]
      [] d.ar.cmio = "WDATA" /\ e = "DATA" ->
            [d EXCEPT !.ar.cmio = "DATA", !.ar.resched = FALSE, !.poll = Removed(@)]
      [] OTHER -> d

Cmio(d, e) ==
    CASE d.ar.cmio = "IDLE" /\ e = "STARTUP" ->
            [d EXCEPT !.ar.cmio = "STARTUP", !.ar.resched = FALSE,
                      !.ar.cpm = [c \in CRs |-> [@[c] EXCEPT !.start = FALSE]]]
      [] d.ar.cmio = "STARTUP" /\ e = "PRMEND" ->
            [d EXCEPT !.ar.cmio = "WDATA", !.ar.resched = TRUE, !.poll = Added(@)]
      [] d.ar.cmio = "WDATA" /\ e = "DATA" ->
            [d EXCEPT !.ar.cmio = "DATA", !.ar.resched = FALSE, !.poll = Removed(@)]
      [] OTHER -> d

Mut_Cmwrr(d, e) ==
    CASE d.ar.cmwrr = "IDLE" /\ e = "STARTUP" -> [d EXCEPT !.ar.cmwrr = "STARTUP"]
      [] d.ar.cmwrr = "STARTUP" /\ e = "PRMEND" -> [d EXCEPT !.ar.cmwrr = "PRMEND"]
      [] OTHER -> d

Cmwrr(d, e) ==
    CASE d.ar.cmwrr = "IDLE" /\ e = "STARTUP" -> [d EXCEPT !.ar.cmwrr = "STARTUP"]
      [] d.ar.cmwrr = "STARTUP" /\ e = "PRMEND" -> [d EXCEPT !.ar.cmwrr = "PRMEND"]
      [] d.ar.cmwrr = "PRMEND" /\ e = "APPLRDY" -> [d EXCEPT !.ar.cmwrr = "DATA"]
      [] OTHER -> d

Mut_Cmsm(d, e) ==
    CASE d.ar.cmsm = "IDLE" /\ e = "STARTUP" ->
            [d EXCEPT !.ar.cmsm = "RUN", !.monitor = TRUE]
      [] d.ar.cmsm = "RUN" /\ e \in {"PRMEND", "DATA"} ->
            [d EXCEPT !.ar.cmsm = "IDLE", !.monitor = FALSE]
      [] OTHER -> d

Cmsm(d, e) ==
    CASE d.ar.cmsm = "IDLE" /\ e = "STARTUP" ->
            [d EXCEPT !.ar.cmsm = "RUN", !.monitor = TRUE]
      [] d.ar.cmsm = "RUN" /\ e = "DATA" ->
            [d EXCEPT !.ar.cmsm = "IDLE", !.monitor = FALSE]
      [] OTHER -> d

Cmpbe(d, e) ==
    IF d.ar.cmpbe = "IDLE" /\ e = "DATA" THEN [d EXCEPT !.ar.cmpbe = "WFIND"] ELSE d

StateInd(d, e) == Cmpbe(Cmsm(Cmwrr(Cmio(Cmsu(d, e), e), e), e), e)

\* The sessions pf_cmrpc_cmdev_state_ind releases with the AR: the one the AR
\* names, unless a Release on it is being answered, and the device's own.
ReleasedWith(d, releasing) ==
    {s \in S : \/ s = d.ar.sess /\ s # releasing
               \/ d.sess[s].in_use /\ d.sess[s].from_me /\ d.sess[s].ar}

Mut_CloseConsumers(d) ==
    [d EXCEPT !.ci = [c \in CRs |-> Removed(@[c])],
              !.ar.cpm = [c \in CRs |-> CpmOff]]

\* pf_cpm_close_req for every consumer: its timer and its frame handler go.
CloseConsumers(d) ==
    [d EXCEPT !.ci = [c \in CRs |-> Removed(@[c])],
              !.map = [c \in CRs |-> IF @[c] > 0 THEN @[c] - 1 ELSE 0],
              !.ar.cpm = [c \in CRs |-> CpmOff]]

\* pf_ar_release: the record is cleared with the timer handles in it.
ClearAr(d) ==
    [d EXCEPT !.ar = NoAr,
              !.poll = Orphan(@),
              !.ci = [c \in CRs |-> Orphan(@[c])]]

\* PNET_EVENT_ABORT: pf_cmsu closes the consumers if it has started them,
\* pf_cmio leaves its timer running, pf_cmsm removes its timer, and pf_cmrpc
\* releases the sessions and the AR.  `releasing' is the session on which a
\* Release is being answered.
Abort(d, releasing) ==
    ClearAr([(IF d.ar.cmsu = "STARTUP" THEN CloseConsumers(d) ELSE d) EXCEPT
               !.monitor = @ /\ d.ar.cmsm # "RUN",
               !.sess = [s \in S |-> IF s \in ReleasedWith(d, releasing)
                                     THEN NoSession ELSE @[s]]])

(***************************************************************************)
(* pf_cmrpc_dce_packet: the session of a message, and its fate.            *)
(***************************************************************************)
OfActivity(a) == {s \in S : sess[s].in_use /\ sess[s].act = a}
FreeSessions == {s \in S : ~sess[s].in_use}
First(T) == CHOOSE s \in T : \A t \in T : s <= t

\* pf_session_locate_by_uuid, or else pf_session_allocate.
SessionFor(a) ==
    IF OfActivity(a) # {} THEN First(OfActivity(a))
    ELSE IF FreeSessions # {} THEN First(FreeSessions) ELSE NoSess

\* The message has a session s, whose resend timer stops.
Received(a, s) ==
    [Dev EXCEPT !.sess[s] = IF sess[s].in_use THEN [@ EXCEPT !.timer = FALSE]
                            ELSE [NoSession EXCEPT !.in_use = TRUE, !.act = a]]

\* kill_session: pf_session_release at the end of the packet.
Kill(d, s) == [d EXCEPT !.sess[s] = NoSession]

\* pf_ar_find_by_uuid
Known(u) == ar.in_use /\ ar.uuid = u /\ ar.cmdev # "POWER_ON"

\* A message on activity a can be handled: there is a session for it.
Arrives(a) == SessionFor(a) # NoSess

(***************************************************************************)
(* Connect.                                                                *)
(***************************************************************************)
\* The AR that a Connect on session s has allocated.
NewAr(u, s, legacy) ==
    [NoAr EXCEPT !.in_use = TRUE, !.uuid = u, !.sess = s, !.legacy = legacy]

\* pf_cpm_activate_req for the consumers T: frame handler, timer, state FRUN.
Activate(d, T) ==
    [d EXCEPT !.ar.cpm = [c \in CRs |-> IF c \in T
                            THEN [CpmOff EXCEPT !.state = "FRUN", !.running = TRUE] ELSE @[c]],
              !.ci = [c \in CRs |-> IF c \in T THEN Added(@[c]) ELSE @[c]],
              !.map = [c \in CRs |-> @[c] + Count(c \in T)]]

\* pf_cmsu_start_req
StartReq(d) == [Activate(d, CRs) EXCEPT !.ar.cmsu = "STARTUP"]

\* An AR exists: the new one is refused, and the old one is aborted if the
\* request is well formed and names the same UUID.
ConnectInUse(a, u, valid) ==
    LET s == SessionFor(a)
        d == Received(a, s)
    IN  /\ valid \/ Garbled
        /\ Arrives(a) /\ ar.in_use
        /\ Becomes(Kill(IF valid /\ Known(u) THEN Abort(d, NoSess) ELSE d, s))

\* The request is malformed, fails a check, or the application refuses it and
\* says why: the AR is released again.
ConnectRefused(a) ==
    /\ Arrives(a) /\ ~ar.in_use
    /\ Becomes(Kill(Received(a, SessionFor(a)), SessionFor(a)))

\* The application refuses but leaves p_result as it is:
\* pf_cmdev_cm_connect_rsp_neg reports success.
ConnectUnanswered(a, u) ==
    LET s == SessionFor(a)
    IN  /\ SilentRefusal
        /\ Arrives(a) /\ ~ar.in_use
        /\ Becomes([Received(a, s) EXCEPT
                      !.ar = [NewAr(u, s, FALSE) EXCEPT !.cmdev = "W_CIND"],
                      !.sess[s].ar = TRUE])

ConnectAccepted(a, u, legacy) ==
    LET s == SessionFor(a)
        d == StartReq([Received(a, s) EXCEPT !.ar = NewAr(u, s, legacy), !.sess[s].ar = TRUE])
    IN  /\ Arrives(a) /\ ~ar.in_use
        /\ poll.lost < MaxLost
        /\ Becomes([StateInd(d, "STARTUP") EXCEPT !.ar.cmdev = "W_PEIND"])

\* pf_cmsu_start_req fails after it has started the consumers `done', and
\* perhaps registered the frame handler of one more (`half').  The AR and the
\* session are cleared; nothing is closed.
ConnectFails(a, done, half) ==
    LET s == SessionFor(a)
        d == ClearAr(Activate(Received(a, s), done))
    IN  /\ StartMayFail
        /\ Arrives(a) /\ ~ar.in_use
        /\ \A c \in CRs : map[c] < MaxLost
        /\ done \cap half = {} /\ Cardinality(half) <= 1
        /\ Becomes(Kill([d EXCEPT !.map = [c \in CRs |-> @[c] + Count(c \in half)]], s))

(***************************************************************************)
(* The other requests of the controller.                                   *)
(***************************************************************************)
\* pf_cmdev_rm_dcontrol_ind: PrmEnd, which the application and the check of
\* the port data may refuse.
Mut_PrmEnd(d, s, ok) ==
    LET e == [d EXCEPT !.ar.cmdev = "W_ARDY"]
    IN  IF ~ok THEN Abort(d, NoSess)
        ELSE IF e.sess[s].ar THEN StateInd(e, "PRMEND") ELSE e

PrmEnd(d, s, ok) ==
    LET e == [d EXCEPT !.ar.cmdev = "W_ARDY"]
    IN  IF d.ar.cmdev # "W_PEIND" THEN d
        ELSE IF ~ok THEN Abort(d, NoSess)
        ELSE IF e.sess[s].ar THEN StateInd(e, "PRMEND") ELSE e

\* A request with the sequence number of the previous one on the session is
\* only answered again.  PNET_EVENT_PRMEND follows the answer, if the session
\* still has an AR then.
DControl(a, u, q, ok) ==
    LET s == SessionFor(a)
        d == [Received(a, s) EXCEPT !.sess[s].dseq = q]
    IN  /\ Arrives(a)
        /\ \/ sess[s].dseq = q /\ Becomes(Received(a, s))
           \/ sess[s].dseq # q /\ Known(u) /\ Becomes(PrmEnd(d, s, ok))
           \/ sess[s].dseq # q /\ ~Known(u) /\ Becomes(Kill(d, s))

\* The states in which a Release ends the AR; in others it is ignored.
Releasable == {"W_PEIND", "W_ARDY", "W_ARDYCNF", "WDATA", "DATA"}

ReleaseInd(a, u) ==
    LET s == SessionFor(a)
        d == Received(a, s)
    IN  /\ Arrives(a)
        /\ Becomes(Kill(IF Known(u) /\ ar.cmdev \in Releasable THEN Abort(d, s) ELSE d, s))

\* Read: the session is kept, whatever the AR.  (A restart of the CMSM timer
\* leaves it running.)  A malformed control request has the same effect.
Read(a) == Arrives(a) /\ Becomes(Received(a, SessionFor(a)))

ReadImplicit(a) ==
    Arrives(a) /\ Becomes(Kill(Received(a, SessionFor(a)), SessionFor(a)))

Mut_Write(a, u) ==
    Arrives(a) /\ Becomes(Kill(Received(a, SessionFor(a)), SessionFor(a)))

Write(a, u) ==
    LET s == SessionFor(a)
    IN  /\ Arrives(a)
        /\ Becomes(IF Known(u) THEN Received(a, s) ELSE Kill(Received(a, s), s))

\* Fault, Reject and Cancel packets: pf_cmdev_cm_abort on the session's AR.
Fault(a) ==
    LET s == SessionFor(a)
        d == Received(a, s)
    IN  /\ Arrives(a)
        /\ Becomes(Kill(IF d.sess[s].ar THEN Abort(d, NoSess) ELSE d, s))

(***************************************************************************)
(* Application Ready, the request of the device, and its answer.           *)
(***************************************************************************)
\* pf_cmrpc_rm_ccontrol_req: a session of the device for the request.  Whether
\* the first sending succeeds decides only about the timer.
CControlReq(d, sendOk) ==
    [d EXCEPT !.sess[First(FreeSessions)] =
        [NoSession EXCEPT !.in_use = TRUE, !.act = Own, !.from_me = TRUE, !.ar = TRUE,
                          !.left = Resends - 1, !.timer = sendOk]]

\* pnet_application_ready when the input data is there.  The request may find
\* no session: then the application has to call again.
AppReady(sendOk) ==
    LET d == StateInd(Dev, "APPLRDY")
    IN  /\ ar.in_use /\ ar.cmdev = "W_ARDY"
        /\ Becomes(IF FreeSessions = {} THEN d
                   ELSE [CControlReq(d, sendOk) EXCEPT !.ar.cmdev = "W_ARDYCNF"])

\* pf_cmrpc_send_with_timeout as a callback.
ResendExpired(s, sendOk) ==
    /\ sess[s].timer
    /\ Becomes(IF sess[s].left > 0
               THEN [Dev EXCEPT !.sess[s].left = @ - 1, !.sess[s].timer = sendOk]
               ELSE Abort([Dev EXCEPT !.sess[s].timer = FALSE], NoSess))

Mut_Confirm(s) ==
    LET d == [Received(Own, s) EXCEPT !.ar.alarm = TRUE]
        e == [StateInd(d, "DATA") EXCEPT !.ar.cmdev = "DATA"]
    IN  IF ar.ready THEN e ELSE Kill([d EXCEPT !.ar.cmdev = "WDATA"], s)

\* pf_cmdev_rm_ccontrol_cnf: the answer accepts.
Confirm(s) ==
    LET d == [Received(Own, s) EXCEPT !.ar.alarm = TRUE]
    IN  Kill(IF ar.ready
             THEN [StateInd(d, "DATA") EXCEPT !.ar.cmdev = "DATA"]
             ELSE [d EXCEPT !.ar.cmdev = "WDATA"], s)

\* An answer to a session of the device; a malformed one stops the resending.
CControlCnf(s, wellFormed) ==
    /\ sess[s].in_use /\ sess[s].from_me
    /\ Becomes(IF wellFormed /\ ar.cmdev = "W_ARDYCNF" THEN Confirm(s) ELSE Received(Own, s))

(***************************************************************************)
(* Timers and the application.                                             *)
(***************************************************************************)
\* pnet_ar_abort, or pf_cmsu_alarm_error_ind.
LocalAbort == ar.in_use /\ Becomes(Abort(Dev, NoSess))

CmsmTimeout ==
    LET d == [Dev EXCEPT !.monitor = FALSE]
    IN  /\ monitor
        /\ Becomes(IF ar.cmsm = "RUN" THEN Abort(d, NoSess) ELSE d)

\* pf_cmdev_cmio_info_ind
CmioInfoInd(d, possible) ==
    CASE d.ar.cmdev \in {"W_ARDY", "W_ARDYCNF"} -> [d EXCEPT !.ar.ready = possible]
      [] d.ar.cmdev = "WDATA" ->
            IF possible THEN [StateInd([d EXCEPT !.ar.ready = TRUE], "DATA")
                                EXCEPT !.ar.cmdev = "DATA"]
            ELSE [d EXCEPT !.ar.ready = FALSE]
      [] OTHER -> d

\* pf_cmio_timer_expired; the timer is started again even when the AR has
\* just gone to DATA.
PollExpired ==
    \E t \in Expiring(poll) :
      LET d == [Dev EXCEPT !.poll = t]
          i == CmioInfoInd(d, \A c \in CRs : ar.cpm[c].start)
      IN  Becomes(IF ar.cmio = "WDATA" /\ ar.resched
                  THEN [i EXCEPT !.poll = Added(@)]
                  ELSE [d EXCEPT !.poll = Orphan(@), !.ar.resched = FALSE])

\* pf_cmio_cpm_state_ind with start = false
CpmStopped(d, c) ==
    CASE d.ar.cmio = "STARTUP" /\ d.ar.legacy -> Abort(d, NoSess)
      [] d.ar.cmio = "DATA" -> Abort(d, NoSess)
      [] d.ar.cmio = "WDATA" -> [d EXCEPT !.ar.cpm[c] = CpmOff]
      [] OTHER -> [d EXCEPT !.ar.cpm[c] = [CpmOff EXCEPT !.start = d.ar.cpm[c].start]]

\* pf_cpm_control_interval_expired: the handle is reset, whichever slot
\* expired; the data hold time is counted while frames are awaited.
CiExpired(c) ==
    \E t \in Expiring(ci[c]) :
      LET d == [Dev EXCEPT !.ci[c] = Orphan(t)]
          e == [d EXCEPT !.ci[c] = Added(@)]
      IN  Becomes(
            IF ~ar.cpm[c].running THEN d
            ELSE IF ar.cpm[c].state # "RUN" THEN e
            ELSE IF ar.cpm[c].dht < DataHold THEN [e EXCEPT !.ar.cpm[c].dht = @ + 1]
            ELSE CpmStopped(d, c))

(***************************************************************************)
(* pf_eth_recv and pf_cpm_c_data_ind, on the Ethernet thread.  The handler *)
(* found for the frame id looks at the consumer's state, tells pf_cmio,    *)
(* and then writes the consumer's state.                                   *)
(***************************************************************************)
\* The frame handler follows the p_ar of the CR, which is NULL when the AR
\* record has been cleared.
NullAr == halted' = TRUE /\ UNCHANGED <<ar, rx>>

FrameStart(c) ==
    /\ rx.at = "idle" /\ map[c] > 0
    /\ \/ /\ ar.in_use /\ ar.cpm[c].state # "W_START"
          /\ rx' = [at |-> "checked", cr |-> c]
          /\ UNCHANGED <<ar, halted>>
       \/ ~ar.in_use /\ NullAr

\* start, or new data, while pf_cmio waits for both
FrameData ==
    /\ rx.at = "checked"
    /\ \/ /\ ar.in_use
          /\ ar' = [ar EXCEPT !.cpm[rx.cr].start = @ \/ ar.cmio = "WDATA"]
          /\ rx' = [rx EXCEPT !.at = "told"]
          /\ UNCHANGED halted
       \/ ~ar.in_use /\ NullAr

\* dht = 0 and the state RUN are written whatever has happened since; in a
\* cleared record nobody reads them.
FrameEnd ==
    /\ rx.at = "told"
    /\ ar' = IF ar.in_use
             THEN [ar EXCEPT !.cpm[rx.cr] = [@ EXCEPT !.dht = 0, !.state = "RUN"]]
             ELSE ar
    /\ rx' = [at |-> "idle", cr |-> None]
    /\ UNCHANGED halted

-----------------------------------------------------------------------------
ConnectStep ==
    \E p \in Uses :
        \/ \E valid \in BOOLEAN : ConnectInUse(p[1], p[2], valid)
        \/ ConnectRefused(p[1])
        \/ ConnectUnanswered(p[1], p[2])
        \/ \E legacy \in BOOLEAN : ConnectAccepted(p[1], p[2], legacy)
        \/ \E done, half \in SUBSET CRs : ConnectFails(p[1], done, half)

RequestStep ==
    \/ \E p \in Uses :
        \/ \E q \in Seqs, ok \in BOOLEAN : DControl(p[1], p[2], q, ok)
        \/ ReleaseInd(p[1], p[2])
        \/ Read(p[1])
        \/ Write(p[1], p[2])
        \/ Fault(p[1])
    \/ \E a \in Implicit : ReadImplicit(a)

\* A fault may also answer the request of the device.
AnswerStep ==
    \E s \in S :
        \/ \E wellFormed \in BOOLEAN : CControlCnf(s, wellFormed)
        \/ sess[s].in_use /\ sess[s].from_me /\ Fault(Own)

ApplicationStep == LocalAbort \/ \E sendOk \in BOOLEAN : AppReady(sendOk)

TimerStep ==
    \/ CmsmTimeout
    \/ PollExpired
    \/ \E c \in CRs : CiExpired(c)
    \/ \E s \in S, sendOk \in BOOLEAN : ResendExpired(s, sendOk)

MainStep ==
    /\ ConnectStep \/ RequestStep \/ AnswerStep \/ ApplicationStep \/ TimerStep
    /\ UNCHANGED <<rx, halted>>

EthernetStep ==
    /\ FrameData \/ FrameEnd \/ \E c \in CRs : FrameStart(c)
    /\ UNCHANGED <<sess, poll, ci, monitor, map>>

\* Once a null pointer has been followed there is no stack any more.
Next == ~halted /\ (MainStep \/ EthernetStep)

Spec == Init /\ [][Next]_vars

-----------------------------------------------------------------------------
TimerType == [named : BOOLEAN, lost : Nat]

CpmType == [state : {"W_START", "FRUN", "RUN"}, running : BOOLEAN,
            start : BOOLEAN, dht : 0 .. DataHold]

ArType ==
    [in_use : BOOLEAN, uuid : Uuids \cup {None}, sess : S \cup {NoSess}, legacy : BOOLEAN,
     cmdev : {"POWER_ON", "W_CIND", "W_PEIND", "W_ARDY", "W_ARDYCNF", "WDATA", "DATA"},
     cmsu : {"IDLE", "STARTUP"}, cmio : {"IDLE", "STARTUP", "WDATA", "DATA"},
     resched : BOOLEAN, cmwrr : {"IDLE", "STARTUP", "PRMEND", "DATA"},
     cmsm : {"IDLE", "RUN"}, cmpbe : {"IDLE", "WFIND"}, ready : BOOLEAN,
     alarm : BOOLEAN, ppm : {"W_START", "RUN"}, cpm : [CRs -> CpmType]]

SessionType ==
    [in_use : BOOLEAN, act : Activities \cup {Own, None}, from_me : BOOLEAN,
     ar : BOOLEAN, left : 0 .. Resends, timer : BOOLEAN, dseq : Seqs \cup {None}]

TypeOK ==
    /\ ar \in ArType
    /\ sess \in [S -> SessionType]
    /\ poll \in TimerType
    /\ ci \in [CRs -> TimerType]
    /\ monitor \in BOOLEAN
    /\ map \in [CRs -> Nat]
    /\ rx \in [at : {"idle", "checked", "told"}, cr : CRs \cup {None}]
    /\ halted \in BOOLEAN

\* The discipline under which InStep, NothingLeftBehind and ArHasSession are
\* meant: a controller has one activity and one AR UUID, and shares neither;
\* Read Implicit comes on activities of its own; a Connect for the AR that is
\* connected is well formed; the application says why it refuses; and the
\* start of a protocol machine, which has what it needs, succeeds.
Discipline ==
    /\ \A p, q \in Uses : p[1] = q[1] <=> p[2] = q[2]
    /\ \A p \in Uses : p[1] \notin Implicit
    /\ ~Garbled /\ ~SilentRefusal /\ ~StartMayFail

\* The state machines of an AR advance together: between two handlers the
\* state of pf_cmdev determines that of the others, whatever the order of
\* messages, timers and calls.  (The order of the calls in
\* pf_cmdev_state_ind, and the states each machine ignores an event in.)
InStep ==
    CASE ar.cmdev \in {"POWER_ON", "W_CIND"} ->
            /\ ar.cmsu = "IDLE" /\ ar.cmio = "IDLE" /\ ar.cmwrr = "IDLE"
            /\ ar.cmsm = "IDLE" /\ ar.cmpbe = "IDLE" /\ ~ar.alarm
      [] ar.cmdev = "W_PEIND" ->
            /\ ar.cmsu = "STARTUP" /\ ar.cmio = "STARTUP" /\ ar.cmwrr = "STARTUP"
            /\ ar.cmsm = "RUN" /\ ar.cmpbe = "IDLE" /\ ~ar.alarm /\ ar.ppm = "W_START"
      [] ar.cmdev \in {"W_ARDY", "W_ARDYCNF", "WDATA"} ->
            /\ ar.cmsu = "STARTUP" /\ ar.cmio = "WDATA" /\ ar.cmsm = "RUN"
            /\ ar.cmwrr = "DATA" \/ (ar.cmwrr = "PRMEND" /\ ar.cmdev = "W_ARDY")
            /\ ar.cmpbe = "IDLE" /\ ar.alarm = (ar.cmdev = "WDATA") /\ ar.ppm = "RUN"
      [] ar.cmdev = "DATA" ->
            /\ ar.cmsu = "STARTUP" /\ ar.cmio = "DATA" /\ ar.cmwrr = "DATA"
            /\ ar.cmsm = "IDLE" /\ ar.cmpbe = "WFIND" /\ ar.alarm /\ ar.ppm = "RUN"

\* Until data exchange, a connection the controller has been told of is
\* guarded by the CMSM timer (pf_cmsm.c); no other AR has one: a timer that
\* outlives its AR would abort the next.
Supervised ==
    /\ ar.cmdev \in {"W_PEIND", "W_ARDY", "W_ARDYCNF", "WDATA"} => monitor
    /\ monitor => ar.in_use /\ ar.cmsm = "RUN"

\* While an AR waits for data, the poll that may move it on is scheduled
\* under its own handle (pf_cmio.c), whatever timers an earlier AR has left.
Polled == ar.cmio = "WDATA" => ar.resched /\ poll.named

\* The pointers to the AR: every session that has one is the one the AR
\* names, or the one request the device has sent and waits for
\* (pf_cmrpc_cmdev_state_ind, pf_session_release).
SessionsPointToAr ==
    /\ \A s \in S : sess[s].ar =>
         /\ sess[s].in_use /\ ar.in_use
         /\ sess[s].from_me \/ ar.sess = s
    /\ \A s \in S : sess[s].in_use /\ sess[s].from_me =>
         /\ ar.cmdev = "W_ARDYCNF" /\ sess[s].ar
         /\ \A t \in S : sess[t].in_use /\ sess[t].from_me => t = s
    /\ \A s \in S : sess[s].timer => sess[s].in_use /\ sess[s].from_me

\* Once the AR is gone nothing of its consumers is left: no frame handler and
\* no timer.  While it is there each consumer has one handler, and a timer if
\* and only if it is running (pf_cpm_driver_sw.c, pf_cmsu.c).
NothingLeftBehind ==
    \A c \in CRs :
        /\ map[c] = Count(ar.cmsu = "STARTUP")
        /\ ci[c].lost = 0 /\ ci[c].named = ar.cpm[c].running

\* "Each AR has two sessions [...] created at the first incoming Connect
\* message, and is reused for the subsequent messages": the session an AR
\* names is in use, and it is its own.
ArHasSession == ar.in_use => sess[ar.sess].in_use /\ sess[ar.sess].ar

\* The connection the controller and the application see.
Phase == CASE ar.cmdev \in {"POWER_ON", "W_CIND"} -> "closed"
           [] ar.cmdev = "W_PEIND" -> "opened"
           [] ar.cmdev = "W_ARDY" -> "parameterised"
           [] ar.cmdev = "W_ARDYCNF" -> "ready"
           [] ar.cmdev = "WDATA" -> "confirmed"
           [] ar.cmdev = "DATA" -> "data"
Promise == INSTANCE Lifecycle
             WITH phase <- Phase, uuid <- IF Phase = "closed" THEN None ELSE ar.uuid

\* Whatever messages, timers and calls come in whatever order, the connection
\* takes only the steps Lifecycle allows, for one AR UUID at a time.
\* (pf_cmdev.c: the states in which each handler acts and those it ignores.)
KeepsPromise == Promise!Spec

\* The controller sends nothing any more.
ControllerStep == ConnectStep \/ RequestStep \/ AnswerStep

\* The scheduler is ticked in every cycle (pnet_handle_periodic), so a CMSM
\* timer that nobody stops or starts again expires.  Nothing else is assumed:
\* no message need arrive and no other timer expire.
Fairness == WF_vars(~halted /\ CmsmTimeout /\ UNCHANGED <<rx, halted>>)

FairSpec == Spec /\ Fairness

\* When the controller has fallen silent, the AR is closed or in data exchange
\* in the end: no state between is for ever (pf_cmsm.c).
Settles ==
    <>[][~ControllerStep]_vars => <>[](halted \/ ~ar.in_use \/ ar.cmdev = "DATA")
=============================================================================
