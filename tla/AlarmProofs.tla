---------------------------- MODULE AlarmProofs -----------------------------
(***************************************************************************)
(* Proofs about Alarm, for any queue size, number of resends, modulus of   *)
(* the sequence numbers and alarms, and whatever frames the controller     *)
(* sends (Strays); what the users of the channel see needs Discipline.     *)
(*                                                                         *)
(* A handler is a composition of functions on the device state, so the     *)
(* invariant is stated for such a record, Sound(d), and each function is   *)
(* shown to preserve it once.                                              *)
(***************************************************************************)
EXTENDS Alarm, SequenceTheorems, TLAPS

TimerType == [named : BOOLEAN, lost : Nat]

DevType ==
    [up : BOOLEAN, enabled : BOOLEAN, ap : [Prios -> Machines], timer : [Prios -> TimerType],
     sendq : [Prios -> Seq(Alarms)], recvq : [Prios -> Seq(Frame)],
     owed : [Prios -> Alarms \cup {None}], link : [Prios -> Seq(Frame)],
     ctl : [Prios -> Controllers], halted : BOOLEAN]

\* The machines of one priority and their timer.
MachineOK(m, t) ==
    /\ (m.apms = "WTACK") = (m.rta # None)
    /\ m.alpmr = "W_TACK" <=> m.rta # None /\ m.rta.kind = "answer"
    /\ m.apms = "WTACK" => t.named

Idle(d, p) ==
    d.ap[p] = Closed /\ d.sendq[p] = << >> /\ d.recvq[p] = << >> /\ ~d.timer[p].named

Sound(d) ==
    /\ d \in DevType
    /\ \A p \in Prios : MachineOK(d.ap[p], d.timer[p]) /\ (~d.up => Idle(d, p))

\* What a handler of the main thread starts from.
Alive(d) == Sound(d) /\ d.up

LEMMA NextSeqType == ASSUME NEW n \in SeqNo PROVE NextSeq(n) \in SeqNo
<1>1. SeqMod \in Nat /\ SeqMod > 1
  BY AlarmAssumption
<1>2. n \in Nat
  BY <1>1 DEF SeqNo, FirstSeq, BeforeSeq
<1>3. (n + 1) % SeqMod \in 0 .. SeqMod - 1
  BY <1>1, <1>2
<1> QED BY <1>3 DEF NextSeq, SeqNo

LEMMA StartTypes ==
    Closed \in Machines /\ Opened \in Machines /\ CtlStart \in Controllers
<1>1. FirstSeq \in SeqNo /\ BeforeSeq \in SeqNo /\ 0 \in SeqNo
  BY AlarmAssumption DEF SeqNo, FirstSeq, BeforeSeq
<1>2. 0 \in 0 .. Retries
  BY AlarmAssumption
<1> QED BY <1>1, <1>2 DEF Closed, Opened, CtlStart, Machines, Controllers

LEMMA TimerTypes ==
    ASSUME NEW t \in TimerType
    PROVE  /\ Orphan(t) \in TimerType /\ Removed(t) \in TimerType /\ ~Removed(t).named
           /\ Added(t) \in TimerType /\ Added(t).named /\ ~Orphan(t).named
<1>1. t.named \in BOOLEAN /\ t.lost \in Nat
  BY DEF TimerType
<1>2. Count(t.named) \in Nat
  BY DEF Count
<1>3. t.lost + Count(t.named) \in Nat
  BY <1>1, <1>2
<1>4. Orphan(t) \in TimerType /\ ~Orphan(t).named
  BY <1>3 DEF Orphan, TimerType
<1>5. Removed(t) \in TimerType /\ ~Removed(t).named
  BY DEF Removed, TimerType
<1>6. Added(t) \in TimerType /\ Added(t).named
  BY <1>4 DEF Added, TimerType
<1> QED BY <1>4, <1>5, <1>6

-----------------------------------------------------------------------------
\* What a change of one field does.
LEMMA WithFacts ==
    ASSUME NEW d \in DevType, NEW p \in Prios, NEW m \in Machines
    PROVE  /\ With(d, p, m) \in DevType
           /\ With(d, p, m).ap = [d.ap EXCEPT ![p] = m]
           /\ With(d, p, m).up = d.up /\ With(d, p, m).timer = d.timer
           /\ With(d, p, m).sendq = d.sendq /\ With(d, p, m).recvq = d.recvq
           /\ With(d, p, m).halted = d.halted
BY DEF With, DevType

LEMMA WithTimerFacts ==
    ASSUME NEW d \in DevType, NEW p \in Prios, NEW t \in TimerType
    PROVE  /\ WithTimer(d, p, t) \in DevType
           /\ WithTimer(d, p, t).timer = [d.timer EXCEPT ![p] = t]
           /\ WithTimer(d, p, t).up = d.up /\ WithTimer(d, p, t).ap = d.ap
           /\ WithTimer(d, p, t).sendq = d.sendq /\ WithTimer(d, p, t).recvq = d.recvq
           /\ WithTimer(d, p, t).halted = d.halted
BY DEF WithTimer, DevType

LEMMA TransmitFacts ==
    ASSUME NEW d \in DevType, NEW p \in Prios, NEW f \in Frame, NEW sent
    PROVE  /\ Transmit(d, p, f, sent) \in DevType
           /\ Transmit(d, p, f, sent).up = d.up /\ Transmit(d, p, f, sent).ap = d.ap
           /\ Transmit(d, p, f, sent).timer = d.timer
           /\ Transmit(d, p, f, sent).sendq = d.sendq
           /\ Transmit(d, p, f, sent).recvq = d.recvq
           /\ Transmit(d, p, f, sent).halted = d.halted
<1> DEFINE e == [d EXCEPT !.link[p] = Append(d.link[p], f)]
<1>1. Append(d.link[p], f) \in Seq(Frame)
  BY DEF DevType
<1>2. e \in DevType
  BY <1>1 DEF DevType
<1>3. e.up = d.up /\ e.ap = d.ap /\ e.timer = d.timer /\ e.sendq = d.sendq
      /\ e.recvq = d.recvq /\ e.halted = d.halted
  BY DEF DevType
<1>4. Transmit(d, p, f, sent) = e \/ Transmit(d, p, f, sent) = d
  BY DEF Transmit, Put
<1> HIDE DEF e
<1> QED BY <1>2, <1>3, <1>4

LEMMA CloseFacts ==
    ASSUME NEW d \in DevType
    PROVE  Sound(Close(d)) /\ ~Close(d).up
<1>1. [p \in Prios |-> Removed(d.timer[p])] \in [Prios -> TimerType]
  BY TimerTypes DEF DevType
<1>2. /\ Each(Closed) \in [Prios -> Machines] /\ Each(CtlStart) \in [Prios -> Controllers]
      /\ Each(<< >>) \in [Prios -> Seq(Frame)] /\ Each(<< >>) \in [Prios -> Seq(Alarms)]
      /\ Each(None) \in [Prios -> Alarms \cup {None}]
  BY StartTypes DEF Each
<1>3. Close(d) \in DevType /\ ~Close(d).up
  BY <1>1, <1>2 DEF Close, DevType
<1>4. ASSUME NEW p \in Prios
      PROVE  Idle(Close(d), p)
  <2>1. ~Removed(d.timer[p]).named
    BY TimerTypes DEF DevType
  <2> QED BY <2>1 DEF Idle, Close, DevType, Each
<1>5. ASSUME NEW p \in Prios
      PROVE  MachineOK(Close(d).ap[p], Close(d).timer[p])
  BY <1>4 DEF Idle, MachineOK, Closed
<1> QED BY <1>3, <1>4, <1>5 DEF Sound

\* As long as the AR is up only the machines and their timers matter.
LEMMA AliveIf ==
    ASSUME NEW d \in DevType, d.up,
           \A p \in Prios : MachineOK(d.ap[p], d.timer[p])
    PROVE  Alive(d)
BY DEF Alive, Sound

LEMMA WithAlive ==
    ASSUME NEW d, Alive(d), NEW p \in Prios, NEW m \in Machines, MachineOK(m, d.timer[p])
    PROVE  Alive(With(d, p, m))
<1>1. d \in DevType /\ d.up /\ d.ap \in [Prios -> Machines]
  BY DEF Alive, Sound, DevType
<1>2. ASSUME NEW q \in Prios
      PROVE  MachineOK(With(d, p, m).ap[q], With(d, p, m).timer[q])
  <2>1. With(d, p, m).timer[q] = d.timer[q]
    BY <1>1, WithFacts
  <2>2. With(d, p, m).ap[q] = IF q = p THEN m ELSE d.ap[q]
    <3>1. With(d, p, m).ap = [d.ap EXCEPT ![p] = m]
      BY <1>1, WithFacts
    <3> QED BY <1>1, <3>1
  <2>3. MachineOK(d.ap[q], d.timer[q])
    BY DEF Alive, Sound
  <2>4. CASE q = p
    BY <2>1, <2>2, <2>4
  <2>5. CASE q # p
    BY <2>1, <2>2, <2>3, <2>5
  <2> QED BY <2>4, <2>5
<1> QED BY <1>1, <1>2, WithFacts, AliveIf

LEMMA TransmitAlive ==
    ASSUME NEW d, Alive(d), NEW p \in Prios, NEW f \in Frame, NEW sent
    PROVE  Alive(Transmit(d, p, f, sent))
<1>1. d \in DevType /\ d.up /\ \A q \in Prios : MachineOK(d.ap[q], d.timer[q])
  BY DEF Alive, Sound
<1>2. \A q \in Prios : MachineOK(Transmit(d, p, f, sent).ap[q], Transmit(d, p, f, sent).timer[q])
  BY <1>1, TransmitFacts
<1> QED BY <1>1, <1>2, TransmitFacts, AliveIf

-----------------------------------------------------------------------------
\* APMR and APMS keep an AR that is up in order, or close it.
LEMMA AcknowledgedOK ==
    ASSUME NEW m \in Machines, NEW t, MachineOK(m, t)
    PROVE  Acknowledged(m) \in Machines /\ MachineOK(Acknowledged(m), t)
<1>1. NextSeq(m.send) \in SeqNo
  BY NextSeqType DEF Machines
<1>2. Acknowledged(m) \in Machines
  BY <1>1 DEF Acknowledged, Machines
<1>3. /\ Acknowledged(m).apms = "OPEN" /\ Acknowledged(m).rta = None
      /\ Acknowledged(m).alpmr # "W_TACK"
  BY DEF Acknowledged, Machines
<1> QED BY <1>2, <1>3 DEF MachineOK

LEMMA TackIndAlive ==
    ASSUME NEW d, Alive(d), NEW p \in Prios, NEW f
    PROVE  Alive(TackInd(d, p, f))
<1>1. d.ap[p] \in Machines /\ MachineOK(d.ap[p], d.timer[p])
  BY DEF Alive, Sound, DevType
<1>2. Alive(With(d, p, Acknowledged(d.ap[p])))
  BY <1>1, AcknowledgedOK, WithAlive
<1> QED BY <1>2 DEF TackInd

LEMMA CountedOK ==
    ASSUME NEW m \in Machines, NEW t, MachineOK(m, t)
    PROVE  Counted(m) \in Machines /\ MachineOK(Counted(m), t)
<1>1. NextSeq(m.exp) \in SeqNo
  BY NextSeqType DEF Machines
<1>2. Counted(m) \in Machines
  BY <1>1 DEF Counted, Machines
<1>3. /\ Counted(m).apms = m.apms /\ Counted(m).rta = m.rta
      /\ Counted(m).alpmr = m.alpmr
  BY DEF Counted, Machines
<1> QED BY <1>2, <1>3 DEF MachineOK

LEMMA ReplyAlive ==
    ASSUME NEW d, Alive(d), NEW p \in Prios, NEW kind \in Kinds, NEW sent
    PROVE  Alive(Reply(d, p, kind, sent))
<1>1. d.ap[p].send_o \in SeqNo /\ d.ap[p].exp_o \in SeqNo
  BY DEF Alive, Sound, DevType, Machines
<1>2. [kind |-> kind, alarm |-> None, send |-> d.ap[p].send_o, ack |-> d.ap[p].exp_o] \in Frame
  BY <1>1 DEF Frame
<1> QED BY <1>2, TransmitAlive DEF Reply

LEMMA NotifyIndSound ==
    ASSUME NEW d, Alive(d), NEW p \in Prios, NEW f \in Frame
    PROVE  Sound(NotifyInd(d, p, f))
<1> DEFINE m == [d.ap[p] EXCEPT !.alpmr = "W_USER_ACK"]
           e == With(d, p, m)
           g == [e EXCEPT !.owed[p] = f.alarm]
<1>1. d \in DevType /\ d.ap[p] \in Machines /\ MachineOK(d.ap[p], d.timer[p]) /\ Sound(d)
  BY DEF Alive, Sound, DevType
<1>2. CASE d.ap[p].alpmr = "W_NOTIFY"
  <2>1. m \in Machines
    BY <1>1 DEF Machines
  <2>2. m.apms = d.ap[p].apms /\ m.rta = d.ap[p].rta /\ m.alpmr = "W_USER_ACK"
    BY <1>1 DEF Machines
  <2>3. MachineOK(m, d.timer[p])
    BY <1>1, <1>2, <2>2 DEF MachineOK
  <2> HIDE DEF m
  <2>4. Alive(e)
    BY <2>1, <2>3, WithAlive
  <2> HIDE DEF e
  <2>5. f.alarm \in Alarms \cup {None}
    BY DEF Frame
  <2>6. g \in DevType /\ g.up = e.up /\ g.ap = e.ap /\ g.timer = e.timer
    BY <2>4, <2>5 DEF Alive, Sound, DevType
  <2>7. \A q \in Prios : MachineOK(g.ap[q], g.timer[q])
    BY <2>4, <2>6 DEF Alive, Sound
  <2>8. NotifyInd(d, p, f) = g
    BY <1>2 DEF NotifyInd, m, e
  <2> HIDE DEF g
  <2> QED BY <2>4, <2>6, <2>7, <2>8, AliveIf DEF Alive
<1>3. CASE d.ap[p].alpmr # "W_NOTIFY"
  <2>1. NotifyInd(d, p, f) = d \/ NotifyInd(d, p, f) = Close(d)
    BY <1>3 DEF NotifyInd
  <2> QED BY <1>1, <2>1, CloseFacts
<1> QED BY <1>2, <1>3

\* ALPMI and the reception state have no part in the invariant.
LEMMA AsideAlive ==
    ASSUME NEW d, Alive(d), NEW p \in Prios, NEW m \in Machines,
           m.apms = d.ap[p].apms, m.rta = d.ap[p].rta, m.alpmr = d.ap[p].alpmr
    PROVE  Alive(With(d, p, m))
<1>1. MachineOK(d.ap[p], d.timer[p])
  BY DEF Alive, Sound
<1>2. MachineOK(m, d.timer[p])
  BY <1>1 DEF MachineOK
<1> QED BY <1>2, WithAlive

LEMMA AnswerIndAlive ==
    ASSUME NEW d, Alive(d), NEW p \in Prios
    PROVE  Alive(AnswerInd(d, p))
<1> DEFINE m == [d.ap[p] EXCEPT !.alpmi = "W_ALARM"]
<1>1. d.ap[p] \in Machines
  BY DEF Alive, Sound, DevType
<1>2. m \in Machines /\ m.apms = d.ap[p].apms /\ m.rta = d.ap[p].rta /\ m.alpmr = d.ap[p].alpmr
  BY <1>1 DEF Machines
<1> HIDE DEF m
<1>3. Alive(With(d, p, m))
  BY <1>2, AsideAlive
<1> QED BY <1>3 DEF AnswerInd, m

LEMMA AcceptedSound ==
    ASSUME NEW d, Alive(d), NEW p \in Prios, NEW f \in Frame, f.kind \in DataKinds,
           NEW sent \in BOOLEAN
    PROVE  Sound(Accepted(d, p, f, sent))
<1> DEFINE t == TackInd(d, p, f)
           e == With(t, p, Counted(t.ap[p]))
           r == Reply(e, p, "tack", sent)
           m == [r.ap[p] EXCEPT !.apmr = "WCNF"]
<1>1. Alive(t)
  BY TackIndAlive
<1> HIDE DEF t
<1>2. t.ap[p] \in Machines /\ MachineOK(t.ap[p], t.timer[p])
  BY <1>1 DEF Alive, Sound, DevType
<1>3. Alive(e)
  BY <1>1, <1>2, CountedOK, WithAlive
<1> HIDE DEF e
<1>4. Alive(r)
  BY <1>3, ReplyAlive DEF Kinds
<1> HIDE DEF r
<1>5. m \in Machines /\ m.apms = r.ap[p].apms /\ m.rta = r.ap[p].rta /\ m.alpmr = r.ap[p].alpmr
  <2>1. r.ap[p] \in Machines
    BY <1>4 DEF Alive, Sound, DevType
  <2> QED BY <2>1 DEF Machines
<1> HIDE DEF m
<1>6. Alive(With(r, p, m))
  BY <1>4, <1>5, AsideAlive
<1>7. Sound(NotifyInd(r, p, f)) /\ Alive(AnswerInd(r, p))
  BY <1>4, NotifyIndSound, AnswerIndAlive
<1>8. Sound(Close(d))
  BY CloseFacts DEF Alive, Sound
<1>9. Accepted(d, p, f, sent) \in {Close(d), r, NotifyInd(r, p, f), AnswerInd(r, p), With(r, p, m)}
  BY DEF Accepted, DataKinds, t, e, r, m
<1> QED BY <1>4, <1>6, <1>7, <1>8, <1>9 DEF Alive

LEMMA DataIndSound ==
    ASSUME NEW d, Alive(d), NEW p \in Prios, NEW f \in Frame, f.kind \in DataKinds,
           NEW sent \in BOOLEAN
    PROVE  Sound(DataInd(d, p, f, sent))
<1>1. Sound(Accepted(d, p, f, sent)) /\ Alive(TackInd(d, p, f))
  BY AcceptedSound, TackIndAlive
<1>2. Alive(Reply(TackInd(d, p, f), p, "tack", sent)) /\ Alive(Reply(d, p, "nack", sent))
  BY <1>1, ReplyAlive DEF Kinds
<1>3. DataInd(d, p, f, sent) \in {d, Accepted(d, p, f, sent),
          Reply(TackInd(d, p, f), p, "tack", sent), Reply(d, p, "nack", sent)}
  BY DEF DataInd
<1> QED BY <1>1, <1>2, <1>3 DEF Alive

LEMMA HandleSound ==
    ASSUME NEW d, Alive(d), NEW p \in Prios, NEW f \in Frame, NEW sent \in BOOLEAN
    PROVE  Sound(Handle(d, p, f, sent))
<1>1. f.kind \in Kinds
  BY DEF Frame
<1>2. CASE f.kind \in DataKinds
  BY <1>2, DataIndSound DEF Handle, DataKinds
<1>3. CASE f.kind \notin DataKinds
  <2>1. Handle(d, p, f, sent) \in {TackInd(d, p, f), d, Close(d)}
    BY <1>1, <1>3 DEF Handle, Kinds
  <2> QED BY <2>1, TackIndAlive, CloseFacts DEF Alive, Sound
<1> QED BY <1>2, <1>3

-----------------------------------------------------------------------------
\* APMS: a frame is retained together with a timer that the machine can remove.
LEMMA WithTimerAlive ==
    ASSUME NEW d, Alive(d), NEW p \in Prios, NEW t \in TimerType, t.named
    PROVE  Alive(WithTimer(d, p, t)) /\ WithTimer(d, p, t).timer[p] = t
<1>1. d \in DevType /\ d.up /\ d.timer \in [Prios -> TimerType]
  BY DEF Alive, Sound, DevType
<1>2. WithTimer(d, p, t).timer = [d.timer EXCEPT ![p] = t] /\ WithTimer(d, p, t).ap = d.ap
  BY <1>1, WithTimerFacts
<1>3. \A q \in Prios : WithTimer(d, p, t).timer[q] = IF q = p THEN t ELSE d.timer[q]
  BY <1>1, <1>2
<1>4. ASSUME NEW q \in Prios
      PROVE  MachineOK(WithTimer(d, p, t).ap[q], WithTimer(d, p, t).timer[q])
  <2>1. MachineOK(d.ap[q], d.timer[q])
    BY DEF Alive, Sound
  <2> QED BY <1>2, <1>3, <2>1 DEF MachineOK
<1> QED BY <1>1, <1>3, <1>4, WithTimerFacts, AliveIf

\* The machines of a priority change twice in one step.
LEMMA OverAlive ==
    ASSUME NEW d, Alive(d), NEW p \in Prios, NEW m \in Machines, NEW n \in Machines,
           MachineOK(n, d.timer[p])
    PROVE  Alive(With(With(d, p, m), p, n))
<1> DEFINE e == With(d, p, m)
           g == With(e, p, n)
<1>1. d \in DevType /\ d.up /\ d.ap \in [Prios -> Machines]
  BY DEF Alive, Sound, DevType
<1>2. e \in DevType /\ e.up /\ e.ap = [d.ap EXCEPT ![p] = m] /\ e.timer = d.timer
  BY <1>1, WithFacts
<1> HIDE DEF e
<1>3. g \in DevType /\ g.up /\ g.ap = [e.ap EXCEPT ![p] = n] /\ g.timer = d.timer
  BY <1>2, WithFacts
<1> HIDE DEF g
<1>4. \A q \in Prios : g.ap[q] = IF q = p THEN n ELSE d.ap[q]
  BY <1>1, <1>2, <1>3
<1>5. ASSUME NEW q \in Prios PROVE MachineOK(g.ap[q], g.timer[q])
  <2>1. MachineOK(d.ap[q], d.timer[q])
    BY DEF Alive, Sound
  <2>2. CASE q = p
    BY <1>3, <1>4, <2>2
  <2>3. CASE q # p
    BY <1>3, <1>4, <2>1, <2>3
  <2> QED BY <2>2, <2>3
<1>6. Alive(g)
  BY <1>3, <1>5, AliveIf
<1> QED BY <1>6 DEF g, e

\* An open APMS retains the frame it is given; the rest of the AR is in order.
LEMMA DataReqFacts ==
    ASSUME NEW d, Alive(d), NEW p \in Prios, NEW kind \in DataKinds, NEW a \in Alarms,
           NEW sent, d.ap[p].apms = "OPEN"
    PROVE  \E e \in DevType, n \in Machines :
             /\ Alive(e) /\ e.timer[p].named /\ e.halted = d.halted
             /\ n.apms = "WTACK" /\ n.rta # None /\ n.rta.kind = kind /\ n.alpmr # "W_TACK"
             /\ n.alpmi = d.ap[p].alpmi
             /\ DataReq(d, p, kind, a, sent) = With(e, p, n)
<1> DEFINE m == d.ap[p]
           f == [kind |-> kind, alarm |-> a, send |-> m.send, ack |-> m.exp_o]
           x == Transmit(d, p, f, sent)
           t == Added(d.timer[p])
           e == WithTimer(x, p, t)
           n == [m EXCEPT !.rta = IF m.rta = None THEN f ELSE m.rta,
                          !.left = Retries, !.apms = "WTACK"]
<1>1. m \in Machines /\ d.timer[p] \in TimerType /\ MachineOK(m, d.timer[p])
  BY DEF Alive, Sound, DevType
<1>2. m.rta = None /\ m.alpmr # "W_TACK"
  BY <1>1 DEF MachineOK
<1>3. f \in Frame /\ f # None /\ f.kind = kind
  <2>1. f \in Frame
    BY <1>1 DEF Frame, Machines, Kinds
  <2> QED BY <2>1, FrameAssumption
<1>4. Alive(x)
  BY <1>3, TransmitAlive
<1>5. t \in TimerType /\ t.named
  BY <1>1, TimerTypes
<1>6. n \in Machines /\ n.rta = f /\ n.apms = "WTACK" /\ n.alpmr = m.alpmr /\ n.alpmi = m.alpmi
  <2>1. Retries \in 0 .. Retries
    BY AlarmAssumption
  <2> HIDE DEF f
  <2> QED BY <1>1, <1>2, <1>3, <2>1 DEF Machines
<1>7. DataReq(d, p, kind, a, sent) = With(e, p, n)
  BY DEF DataReq
<1>8. x.halted = d.halted
  BY <1>3, TransmitFacts DEF Alive, Sound
<1> HIDE DEF f, x, t, n
<1>9. Alive(e) /\ e.timer[p].named /\ e.halted = d.halted
  <2>1. Alive(e) /\ e.timer[p].named
    BY <1>4, <1>5, WithTimerAlive
  <2>2. x \in DevType
    BY <1>4 DEF Alive, Sound
  <2>3. e.halted = x.halted
    BY <1>5, <2>2, WithTimerFacts
  <2> QED BY <1>8, <2>1, <2>2, <2>3
<1> HIDE DEF e
<1>10. e \in DevType
  BY <1>9 DEF Alive, Sound
<1> QED BY <1>2, <1>3, <1>6, <1>7, <1>9, <1>10

\* A closed or busy APMS ends the AR, and a null pointer is followed.
LEMMA DataReqHalts ==
    ASSUME NEW d, Alive(d), NEW p \in Prios, NEW kind, NEW a, NEW sent, d.ap[p].apms # "OPEN"
    PROVE  Sound(DataReq(d, p, kind, a, sent)) /\ DataReq(d, p, kind, a, sent).halted
<1> DEFINE e == Close(d)
           h == [e EXCEPT !.halted = TRUE]
<1>1. Sound(e)
  BY CloseFacts DEF Alive, Sound
<1> HIDE DEF e
<1>2. h \in DevType /\ h.halted /\ h.up = e.up /\ h.ap = e.ap /\ h.timer = e.timer
      /\ h.sendq = e.sendq /\ h.recvq = e.recvq
  BY <1>1 DEF Sound, DevType
<1>3. Sound(h)
  BY <1>1, <1>2 DEF Sound, Idle
<1>4. DataReq(d, p, kind, a, sent) = h
  BY DEF DataReq, e
<1> HIDE DEF h
<1> QED BY <1>2, <1>3, <1>4

\* The frame of a machine is sent again with a new timer, whether or not its
\* old timer still runs.
LEMMA ResentAlive ==
    ASSUME NEW d, Alive(d), NEW p \in Prios, NEW t \in TimerType, NEW sent,
           d.ap[p].apms = "WTACK", d.ap[p].left > 0
    PROVE  Alive(Resent(WithTimer(d, p, t), p, sent))
<1> DEFINE m == d.ap[p]
           e == WithTimer(d, p, t)
           x == Transmit(e, p, e.ap[p].rta, sent)
           u == Added(e.timer[p])
           y == WithTimer(x, p, u)
           n == [e.ap[p] EXCEPT !.left = e.ap[p].left - 1]
           z == With(y, p, n)
<1>1. /\ d \in DevType /\ d.up /\ m \in Machines /\ MachineOK(m, d.timer[p])
      /\ d.ap \in [Prios -> Machines] /\ d.timer \in [Prios -> TimerType]
  BY DEF Alive, Sound, DevType
<1>2. m.rta \in Frame
  BY <1>1 DEF MachineOK, Machines
<1>3. e \in DevType /\ e.up /\ e.ap = d.ap /\ e.timer = [d.timer EXCEPT ![p] = t]
  BY <1>1, WithTimerFacts
<1> HIDE DEF e
<1>4. x \in DevType /\ x.up /\ x.ap = d.ap /\ x.timer = e.timer
  BY <1>2, <1>3, TransmitFacts
<1>5. u \in TimerType /\ u.named
  BY <1>3, TimerTypes DEF DevType
<1>6. n \in Machines /\ n.apms = m.apms /\ n.rta = m.rta /\ n.alpmr = m.alpmr
  <2>1. m.left - 1 \in 0 .. Retries
    BY <1>1, AlarmAssumption DEF Machines
  <2> QED BY <1>1, <1>3, <2>1 DEF Machines
<1> HIDE DEF x, u, n
<1>7. y \in DevType /\ y.up /\ y.ap = d.ap /\ y.timer = [x.timer EXCEPT ![p] = u]
  BY <1>4, <1>5, WithTimerFacts
<1> HIDE DEF y
<1>8. z \in DevType /\ z.up /\ z.ap = [d.ap EXCEPT ![p] = n] /\ z.timer = y.timer
  BY <1>6, <1>7, WithFacts
<1> HIDE DEF z
<1>9. ASSUME NEW q \in Prios
      PROVE  /\ z.ap[q] = IF q = p THEN n ELSE d.ap[q]
             /\ z.timer[q] = IF q = p THEN u ELSE d.timer[q]
  BY <1>1, <1>3, <1>4, <1>7, <1>8
<1>10. ASSUME NEW q \in Prios PROVE MachineOK(z.ap[q], z.timer[q])
  <2>1. MachineOK(n, u)
    BY <1>1, <1>5, <1>6 DEF MachineOK
  <2>2. MachineOK(d.ap[q], d.timer[q])
    BY DEF Alive, Sound
  <2>3. CASE q = p
    BY <1>9, <2>1, <2>3
  <2>4. CASE q # p
    BY <1>9, <2>2, <2>4
  <2> QED BY <2>3, <2>4
<1>11. Alive(z)
  BY <1>8, <1>10, AliveIf
<1> QED BY <1>11 DEF Resent, z, y, x, u, n, e

\* The timer of a machine has fired, or one that an earlier frame has left.
LEMMA ExpiredSound ==
    ASSUME NEW d, Sound(d), NEW p \in Prios, NEW t \in TimerType, ~t.named, NEW sent
    PROVE  Sound(Expired(WithTimer(d, p, t), p, sent))
<1> DEFINE e == WithTimer(d, p, t)
           n == [e.ap[p] EXCEPT !.rta = None]
           z == With(e, p, n)
<1>1. /\ d \in DevType /\ d.ap[p] \in Machines /\ MachineOK(d.ap[p], d.timer[p])
      /\ d.ap \in [Prios -> Machines] /\ d.timer \in [Prios -> TimerType]
  BY DEF Sound, DevType
<1>2. /\ e \in DevType /\ e.up = d.up /\ e.ap = d.ap /\ e.timer = [d.timer EXCEPT ![p] = t]
      /\ e.sendq = d.sendq /\ e.recvq = d.recvq
  BY <1>1, WithTimerFacts
<1>3. CASE d.ap[p].apms = "WTACK"
  <2>1. d.ap[p].rta # None
    BY <1>1, <1>3 DEF MachineOK
  <2>2. d.up
    BY <1>3 DEF Sound, Idle, Closed
  <2>3. CASE d.ap[p].left > 0
    <3>1. Alive(Resent(e, p, sent))
      BY <1>3, <2>2, <2>3, ResentAlive DEF Alive
    <3> HIDE DEF e
    <3>2. Expired(e, p, sent) = Resent(e, p, sent)
      BY <1>2, <1>3, <2>1, <2>3 DEF Expired
    <3> QED BY <3>1, <3>2 DEF Alive, e
  <2>4. CASE ~(d.ap[p].left > 0)
    <3> HIDE DEF e
    <3>1. Expired(e, p, sent) = Close(e)
      BY <1>2, <1>3, <2>1, <2>4 DEF Expired
    <3> QED BY <1>2, <3>1, CloseFacts DEF e
  <2> QED BY <2>3, <2>4
<1>4. CASE d.ap[p].apms # "WTACK"
  <2> HIDE DEF e
  <2>1. d.ap[p].rta = None
    BY <1>1, <1>4 DEF MachineOK
  <2>2. n = d.ap[p]
    BY <1>1, <1>2, <2>1 DEF Machines
  <2> HIDE DEF n
  <2>3. /\ z \in DevType /\ z.up = d.up /\ z.ap = [d.ap EXCEPT ![p] = d.ap[p]]
        /\ z.timer = e.timer /\ z.sendq = d.sendq /\ z.recvq = d.recvq
    BY <1>1, <1>2, <2>2, WithFacts
  <2> HIDE DEF z
  <2>4. z.ap = d.ap /\ \A q \in Prios : z.timer[q] = IF q = p THEN t ELSE d.timer[q]
    BY <1>1, <1>2, <2>3
  <2>5. ASSUME NEW q \in Prios
        PROVE  MachineOK(z.ap[q], z.timer[q]) /\ (~z.up => Idle(z, q))
    <3>1. MachineOK(d.ap[q], d.timer[q]) /\ (~d.up => Idle(d, q))
      BY DEF Sound
    <3>2. CASE q = p
      BY <1>4, <2>3, <2>4, <3>1, <3>2 DEF MachineOK, Idle
    <3>3. CASE q # p
      BY <2>3, <2>4, <3>1, <3>3 DEF Idle
    <3> QED BY <3>2, <3>3
  <2>6. Sound(z)
    BY <2>3, <2>5 DEF Sound
  <2>7. Expired(e, p, sent) = z
    BY <1>2, <1>4 DEF Expired, z, n
  <2> QED BY <2>6, <2>7 DEF e
<1> QED BY <1>3, <1>4

-----------------------------------------------------------------------------
LEMMA BecomesSound ==
    ASSUME NEW e, Sound(e), Becomes(e)
    PROVE  Sound(Dev)'
<1>1. Dev' = [up |-> e.up, enabled |-> e.enabled, ap |-> e.ap, timer |-> e.timer,
              sendq |-> e.sendq, recvq |-> e.recvq, owed |-> e.owed, link |-> e.link,
              ctl |-> e.ctl, halted |-> e.halted]
  BY DEF Becomes, Dev
<1>2. e \in DevType
  BY DEF Sound
<1>3. Dev' = e
  BY <1>1, <1>2 DEF DevType
<1>4. Sound(Dev')
  BY <1>3
<1> QED BY <1>4 DEF Sound, Idle, MachineOK

\* What the invariant says of the variables.
LEMMA DevFacts ==
    ASSUME Sound(Dev)
    PROVE  /\ Dev.up = up /\ Dev.ap = ap /\ Dev.timer = timer /\ Dev.halted = halted
           /\ Dev.sendq = sendq /\ Dev.recvq = recvq /\ Dev.owed = owed /\ Dev.ctl = ctl
           /\ Dev.link = link
           /\ ap \in [Prios -> Machines] /\ timer \in [Prios -> TimerType]
           /\ sendq \in [Prios -> Seq(Alarms)] /\ recvq \in [Prios -> Seq(Frame)]
           /\ owed \in [Prios -> Alarms \cup {None}] /\ link \in [Prios -> Seq(Frame)]
           /\ ctl \in [Prios -> Controllers] /\ Dev \in DevType
<1>1. /\ Dev.up = up /\ Dev.ap = ap /\ Dev.timer = timer /\ Dev.halted = halted
      /\ Dev.sendq = sendq /\ Dev.recvq = recvq /\ Dev.owed = owed /\ Dev.ctl = ctl
      /\ Dev.link = link
  BY DEF Dev
<1>2. Dev \in DevType
  BY DEF Sound
<1> QED BY <1>1, <1>2 DEF DevType

LEMMA DevAlive == ASSUME Sound(Dev), up PROVE Alive(Dev)
<1>1. Dev.up
  BY DEF Dev
<1> QED BY <1>1 DEF Alive

\* Queues, the link, the controller and what the application owes are apart.
LEMMA ApartAlive ==
    ASSUME NEW d, Alive(d), NEW e \in DevType, e.up, e.ap = d.ap, e.timer = d.timer
    PROVE  Alive(e)
BY AliveIf DEF Alive, Sound

LEMMA ArSound == ASSUME Sound(Dev), ArStep PROVE Sound(Dev)'
<1>1. CASE Activate
  <2> DEFINE e == [Dev EXCEPT !.up = TRUE, !.ap = Each(Opened)]
  <2>1. Each(Opened) \in [Prios -> Machines]
    BY StartTypes DEF Each
  <2>2. e \in DevType /\ e.up /\ e.ap = Each(Opened)
    BY <2>1, DevFacts DEF DevType
  <2>3. \A q \in Prios : MachineOK(e.ap[q], e.timer[q])
    BY <2>2 DEF MachineOK, Each, Opened
  <2>4. Becomes(e)
    BY <1>1 DEF Activate
  <2> HIDE DEF e
  <2> QED BY <2>2, <2>3, <2>4, AliveIf, BecomesSound DEF Alive
<1>2. CASE Enable
  <2> DEFINE e == [Dev EXCEPT !.enabled = TRUE]
  <2>1. e \in DevType /\ e.up /\ e.ap = Dev.ap /\ e.timer = Dev.timer
    BY <1>2, DevFacts DEF DevType, Enable
  <2>2. Becomes(e) /\ Alive(Dev)
    BY <1>2, DevAlive DEF Enable
  <2> HIDE DEF e
  <2> QED BY <2>1, <2>2, ApartAlive, BecomesSound DEF Alive
<1>3. CASE End
  BY <1>3, DevFacts, CloseFacts, BecomesSound DEF End
<1> QED BY <1>1, <1>2, <1>3 DEF ArStep

LEMMA FetchSound ==
    ASSUME Sound(Dev), NEW p \in Prios, NEW sent \in BOOLEAN, Fetch(p, sent)
    PROVE  Sound(Dev)'
<1> DEFINE f == Head(recvq[p])
           d == [Dev EXCEPT !.recvq[p] = Tail(recvq[p])]
<1>1. up /\ recvq[p] # << >> /\ Becomes(Handle(d, p, f, sent))
  BY DevFacts DEF Fetch
<1>2. f \in Frame /\ Tail(recvq[p]) \in Seq(Frame)
  BY <1>1, DevFacts
<1>3. d \in DevType /\ d.up /\ d.ap = Dev.ap /\ d.timer = Dev.timer
  BY <1>1, <1>2, DevFacts DEF DevType
<1>4. Alive(d)
  BY <1>1, <1>3, DevAlive, ApartAlive
<1> HIDE DEF d, f
<1> QED BY <1>1, <1>2, <1>4, HandleSound, BecomesSound

LEMMA ExpiringType ==
    ASSUME NEW s \in TimerType, NEW t \in Expiring(s)
    PROVE  t \in TimerType
<1>1. s.lost \in Nat /\ s.named \in BOOLEAN /\ s = [named |-> s.named, lost |-> s.lost]
  BY DEF TimerType
<1>2. t.lost >= 0
  BY DEF Expiring
<1>3. t = [s EXCEPT !.named = FALSE] \/ t = [s EXCEPT !.lost = s.lost - 1]
  BY DEF Expiring
<1>4. CASE t = [s EXCEPT !.named = FALSE]
  BY <1>4 DEF TimerType
<1>5. CASE t = [s EXCEPT !.lost = s.lost - 1]
  <2>1. t.lost = s.lost - 1
    BY <1>5 DEF TimerType
  <2>2. s.lost - 1 \in Nat
    BY <1>1, <1>2, <2>1
  <2> QED BY <1>5, <2>2 DEF TimerType
<1> QED BY <1>3, <1>4, <1>5

LEMMA TimeoutSound ==
    ASSUME Sound(Dev), NEW p \in Prios, NEW sent, ApmsTimeout(p, sent)
    PROVE  Sound(Dev)'
<1>1. PICK t \in Expiring(timer[p]) : Becomes(Expired(WithTimer(Dev, p, Orphan(t)), p, sent))
  BY DEF ApmsTimeout
<1>3. t \in TimerType
  BY DevFacts, ExpiringType
<1>4. Orphan(t) \in TimerType /\ ~Orphan(t).named
  BY <1>3, TimerTypes
<1> QED BY <1>1, <1>4, ExpiredSound, BecomesSound

LEMMA AlmpiSound ==
    ASSUME Sound(Dev), NEW p \in Prios, NEW sent, Almpi(p, sent)
    PROVE  Sound(Dev)'
<1> DEFINE a == Head(sendq[p])
           g == [Dev EXCEPT !.sendq[p] = Tail(sendq[p])]
           d == DataReq(g, p, "notify", a, sent)
           m == [d.ap[p] EXCEPT !.alpmi = "W_ACK"]
           r == IF sent /\ ~d.halted THEN With(d, p, m) ELSE d
<1>1. up /\ sendq[p] # << >> /\ Becomes(r)
  BY DevFacts DEF Almpi, CanSend
<1>2. a \in Alarms /\ Tail(sendq[p]) \in Seq(Alarms)
  BY <1>1, DevFacts
<1>3. g \in DevType /\ g.up /\ g.ap = Dev.ap /\ g.timer = Dev.timer
  BY <1>1, <1>2, DevFacts DEF DevType
<1>4. Alive(g)
  BY <1>1, <1>3, DevAlive, ApartAlive
<1> HIDE DEF g, a
<1>5. CASE g.ap[p].apms = "OPEN"
  <2>1. PICK e \in DevType, n \in Machines :
          /\ Alive(e) /\ e.timer[p].named
          /\ n.apms = "WTACK" /\ n.rta # None /\ n.rta.kind = "notify" /\ n.alpmr # "W_TACK"
          /\ d = With(e, p, n)
    BY <1>2, <1>4, <1>5, DataReqFacts DEF DataKinds
  <2>2. MachineOK(n, e.timer[p])
    BY <2>1 DEF MachineOK
  <2>3. Alive(d)
    BY <2>1, <2>2, WithAlive
  <2> HIDE DEF d
  <2>4. m \in Machines /\ m.apms = d.ap[p].apms /\ m.rta = d.ap[p].rta /\ m.alpmr = d.ap[p].alpmr
    <3>1. d.ap[p] \in Machines
      BY <2>3 DEF Alive, Sound, DevType
    <3> QED BY <3>1 DEF Machines
  <2> HIDE DEF m
  <2>5. Sound(r)
    BY <2>3, <2>4, AsideAlive DEF Alive
  <2> HIDE DEF r
  <2> QED BY <1>1, <2>5, BecomesSound
<1>6. CASE g.ap[p].apms # "OPEN"
  <2>1. Sound(d) /\ d.halted
    BY <1>4, <1>6, DataReqHalts
  <2> HIDE DEF d
  <2>2. r = d
    BY <2>1
  <2> HIDE DEF r
  <2> QED BY <1>1, <2>1, <2>2, BecomesSound
<1> QED BY <1>5, <1>6

LEMMA AppSendSound ==
    ASSUME Sound(Dev), NEW p \in Prios, NEW a \in Alarms, AppSend(p, a)
    PROVE  Sound(Dev)'
<1> DEFINE d == [Dev EXCEPT !.sendq[p] = Append(sendq[p], a)]
<1>1. up /\ Becomes(d)
  BY DevFacts DEF AppSend
<1>2. Append(sendq[p], a) \in Seq(Alarms)
  BY DevFacts
<1>3. d \in DevType /\ d.up /\ d.ap = Dev.ap /\ d.timer = Dev.timer
  BY <1>1, <1>2, DevFacts DEF DevType
<1> HIDE DEF d
<1>4. Alive(d)
  BY <1>1, <1>3, DevAlive, ApartAlive
<1> QED BY <1>1, <1>4, BecomesSound DEF Alive

\* An answer is retained and ALPMR waits for its acknowledgement in one step,
\* or neither is.
LEMMA AppAckSound ==
    ASSUME Sound(Dev), NEW p \in Prios, NEW sent, AppAck(p, sent)
    PROVE  Sound(Dev)'
<1> DEFINE g == [Dev EXCEPT !.owed[p] = None]
           d == DataReq(g, High, "answer", owed[p], sent)
           m == [d.ap[High] EXCEPT !.alpmr = "W_TACK"]
           r == IF d.halted THEN d ELSE With(d, High, m)
<1>1. /\ up /\ owed[p] # None /\ ~halted
      /\ Becomes(IF ap[High].alpmr # "W_USER_ACK" THEN g ELSE r)
  BY DEF AppAck, Becomes
<1>2. owed[p] \in Alarms /\ High \in Prios
  BY <1>1, DevFacts DEF Prios
<1>3. g \in DevType /\ g.up /\ g.ap = Dev.ap /\ g.timer = Dev.timer /\ g.halted = halted
  BY <1>1, DevFacts DEF DevType
<1> HIDE DEF g
<1>4. Alive(g)
  BY <1>1, <1>3, DevAlive, ApartAlive
<1>5. CASE ap[High].alpmr # "W_USER_ACK"
  BY <1>1, <1>4, <1>5, BecomesSound DEF Alive
<1>6. CASE ap[High].alpmr = "W_USER_ACK" /\ g.ap[High].apms = "OPEN"
  <2>1. PICK e \in DevType, n \in Machines :
          /\ Alive(e) /\ e.timer[High].named /\ e.halted = g.halted
          /\ n.apms = "WTACK" /\ n.rta # None /\ n.rta.kind = "answer"
          /\ d = With(e, High, n)
    BY <1>2, <1>4, <1>6, DataReqFacts DEF DataKinds
  <2>2. d.ap = [e.ap EXCEPT ![High] = n] /\ d.halted = e.halted
    BY <1>2, <2>1, WithFacts
  <2>3. d.ap[High] = n
    BY <1>2, <2>1, <2>2 DEF DevType
  <2>4. m \in Machines /\ MachineOK(m, e.timer[High])
    BY <2>1, <2>3 DEF Machines, MachineOK
  <2>5. Alive(With(d, High, m))
    BY <1>2, <2>1, <2>4, OverAlive
  <2> HIDE DEF d, m
  <2>6. ~d.halted
    BY <1>1, <1>3, <2>1, <2>2
  <2>7. Becomes(With(d, High, m))
    BY <1>1, <1>6, <2>6
  <2> QED BY <2>5, <2>7, BecomesSound DEF Alive
<1>7. CASE ap[High].alpmr = "W_USER_ACK" /\ g.ap[High].apms # "OPEN"
  <2>1. Sound(d) /\ d.halted
    BY <1>2, <1>4, <1>7, DataReqHalts
  <2> HIDE DEF d
  <2>2. Becomes(d)
    BY <1>1, <1>7, <2>1
  <2> QED BY <2>1, <2>2, BecomesSound
<1> QED BY <1>5, <1>6, <1>7

LEMMA MainSound == ASSUME Sound(Dev), MainStep PROVE Sound(Dev)'
<1>1. Sendings \subseteq BOOLEAN
  BY DEF Sendings
<1> QED BY <1>1, FetchSound, AlmpiSound, TimeoutSound, AppAckSound, AppSendSound DEF MainStep

LEMMA WildSound == ASSUME Sound(Dev), WildStep PROVE Sound(Dev)'
<1>1. PICK p \in CtlSends, f \in Strays, sent \in Sendings : WildFrame(p, f, sent)
  BY DEF WildStep
<1>2. p \in Prios /\ f \in Frame /\ sent \in BOOLEAN
  BY AlarmAssumption, FrameAssumption DEF Sendings
<1>3. Alive(Dev) /\ Becomes(Handle(Dev, p, f, sent))
  BY <1>1, DevAlive DEF WildFrame
<1> QED BY <1>2, <1>3, HandleSound, BecomesSound

-----------------------------------------------------------------------------
\* The controller and the link only fill and empty queues.
LEMMA ReceiveAlive ==
    ASSUME NEW d, Alive(d), NEW p \in Prios, NEW f \in Frame, NEW arrives
    PROVE  Alive(Receive(d, p, f, arrives))
<1> DEFINE e == [d EXCEPT !.recvq[p] = Append(d.recvq[p], f)]
<1>1. d \in DevType /\ d.up
  BY DEF Alive, Sound
<1>2. Append(d.recvq[p], f) \in Seq(Frame)
  BY <1>1 DEF DevType
<1>3. e \in DevType /\ e.up /\ e.ap = d.ap /\ e.timer = d.timer
  BY <1>1, <1>2 DEF DevType
<1>4. Receive(d, p, f, arrives) = e \/ Receive(d, p, f, arrives) = d
  BY DEF Receive
<1> HIDE DEF e
<1> QED BY <1>3, <1>4, ApartAlive

LEMMA WithCtlAlive ==
    ASSUME NEW d, Alive(d), NEW p \in Prios, NEW c \in Controllers
    PROVE  Alive(WithCtl(d, p, c))
<1> DEFINE e == [d EXCEPT !.ctl[p] = c]
<1>1. d \in DevType /\ d.up
  BY DEF Alive, Sound
<1>2. e \in DevType /\ e.up /\ e.ap = d.ap /\ e.timer = d.timer
  BY <1>1 DEF DevType
<1> HIDE DEF e
<1>3. Alive(e)
  BY <1>2, ApartAlive
<1> QED BY <1>3 DEF WithCtl, e

LEMMA CtlDataAlive ==
    ASSUME Alive(Dev), NEW p \in Prios, NEW c \in Controllers, NEW kind \in Kinds,
           NEW a \in Alarms \cup {None}, NEW arrives
    PROVE  Alive(CtlData(p, c, kind, a, arrives))
<1> DEFINE f == [kind |-> kind, alarm |-> a, send |-> c.send, ack |-> c.exp_o]
           b == [c EXCEPT !.out = f, !.left = Retries]
<1>1. f \in Frame
  BY DEF Frame, Controllers
<1>2. Retries \in 0 .. Retries
  BY AlarmAssumption
<1>3. CtlData(p, c, kind, a, arrives) = Receive(WithCtl(Dev, p, b), p, f, arrives)
  BY DEF CtlData
<1> HIDE DEF f
<1>4. b \in Controllers
  BY <1>1, <1>2 DEF Controllers
<1> HIDE DEF b
<1> QED BY <1>1, <1>3, <1>4, WithCtlAlive, ReceiveAlive

LEMMA CtlNotifySound ==
    ASSUME Sound(Dev), NEW p \in Prios, NEW a \in Alarms, NEW arrives, CtlNotify(p, a, arrives)
    PROVE  Sound(Dev)'
<1> DEFINE c == [ctl[p] EXCEPT !.alpmi = "W_ACK", !.asked = a]
<1>1. c \in Controllers
  <2>1. ctl[p] \in Controllers
    BY DevFacts
  <2> QED BY <2>1 DEF Controllers
<1>2. Alive(Dev) /\ Becomes(CtlData(p, c, "notify", a, arrives))
  BY DevAlive DEF CtlNotify
<1> HIDE DEF c
<1>3. Alive(CtlData(p, c, "notify", a, arrives))
  BY <1>1, <1>2, CtlDataAlive DEF Kinds, DataKinds
<1> QED BY <1>2, <1>3, BecomesSound DEF Alive

LEMMA CtlAnswerSound ==
    ASSUME Sound(Dev), NEW p \in Prios, NEW arrives, CtlAnswer(p, arrives)
    PROVE  Sound(Dev)'
<1> DEFINE c == [ctl[p] EXCEPT !.got = None]
           a == ctl[p].got
<1>1. c \in Controllers /\ a \in Alarms \cup {None}
  <2>1. ctl[p] \in Controllers
    BY DevFacts
  <2> QED BY <2>1 DEF Controllers
<1>2. Alive(Dev) /\ Becomes(CtlData(p, c, "answer", a, arrives))
  BY DevAlive DEF CtlAnswer
<1> HIDE DEF c, a
<1>3. Alive(CtlData(p, c, "answer", a, arrives))
  BY <1>1, <1>2, CtlDataAlive DEF Kinds, DataKinds
<1> QED BY <1>2, <1>3, BecomesSound DEF Alive

LEMMA CtlResendSound ==
    ASSUME Sound(Dev), NEW p \in Prios, NEW arrives, CtlResend(p, arrives)
    PROVE  Sound(Dev)'
<1> DEFINE c == [ctl[p] EXCEPT !.left = ctl[p].left - 1]
           f == ctl[p].out
<1>1. ctl[p] \in Controllers /\ f # None /\ ctl[p].left > 0
  BY DevFacts DEF CtlResend
<1>2. f \in Frame /\ ctl[p].left - 1 \in 0 .. Retries
  BY <1>1, AlarmAssumption DEF Controllers
<1>3. c \in Controllers
  BY <1>1, <1>2 DEF Controllers
<1>4. Alive(Dev) /\ Becomes(Receive(WithCtl(Dev, p, c), p, f, arrives))
  BY DevAlive DEF CtlResend
<1> HIDE DEF c, f
<1>5. Alive(Receive(WithCtl(Dev, p, c), p, f, arrives))
  BY <1>2, <1>3, <1>4, WithCtlAlive, ReceiveAlive
<1> QED BY <1>4, <1>5, BecomesSound DEF Alive

LEMMA CtlGiveUpSound ==
    ASSUME Sound(Dev), NEW p \in Prios, CtlGiveUp(p)
    PROVE  Sound(Dev)'
<1> DEFINE f == [ctl[p].out EXCEPT !.kind = "err"]
<1>1. ctl[p].out \in Frame
  BY DevFacts DEF Controllers, CtlGiveUp
<1>2. f \in Frame
  BY <1>1 DEF Frame, Kinds
<1>3. Alive(Dev) /\ Becomes(Receive(Dev, p, f, TRUE))
  BY DevAlive DEF CtlGiveUp
<1> HIDE DEF f
<1>4. Alive(Receive(Dev, p, f, TRUE))
  BY <1>2, <1>3, ReceiveAlive
<1> QED BY <1>3, <1>4, BecomesSound DEF Alive

LEMMA CtlTypes ==
    ASSUME NEW c \in Controllers, NEW f \in Frame
    PROVE  CtlTacked(c, f) \in Controllers /\ CtlAccepts(c, f) \in Controllers
<1>1. NextSeq(c.send) \in SeqNo /\ NextSeq(c.exp) \in SeqNo
  BY NextSeqType DEF Controllers
<1>2. [c EXCEPT !.out = None, !.send = NextSeq(c.send)] \in Controllers
  BY <1>1 DEF Controllers
<1>3. CtlTacked(c, f) \in Controllers
  BY <1>2 DEF CtlTacked
<1> DEFINE e == [c EXCEPT !.exp_o = c.exp, !.exp = NextSeq(c.exp)]
<1>4. e \in Controllers
  BY <1>1 DEF Controllers
<1>5. CtlAccepts(c, f) = IF f.kind = "notify" THEN [e EXCEPT !.got = f.alarm, !.last = f.alarm]
                         ELSE [e EXCEPT !.alpmi = "W_ALARM", !.asked = None]
  BY DEF CtlAccepts
<1> HIDE DEF e
<1>6. f.alarm \in Alarms \cup {None}
  BY DEF Frame
<1>7. /\ [e EXCEPT !.got = f.alarm, !.last = f.alarm] \in Controllers
      /\ [e EXCEPT !.alpmi = "W_ALARM", !.asked = None] \in Controllers
  BY <1>4, <1>6 DEF Controllers
<1> QED BY <1>3, <1>5, <1>7

LEMMA CtlReceiveSound ==
    ASSUME Sound(Dev), NEW p \in Prios, NEW arrives, CtlReceive(p, arrives)
    PROVE  Sound(Dev)'
<1> DEFINE f == Head(link[p])
           c == CtlTacked(ctl[p], f)
           e == IF f.kind \in DataKinds /\ f.send = c.exp THEN CtlAccepts(c, f) ELSE c
           g == [Dev EXCEPT !.link[p] = Tail(link[p])]
           d == WithCtl(g, p, e)
           h == [kind |-> "tack", alarm |-> None, send |-> e.send, ack |-> e.exp_o]
<1>1. up /\ link[p] # << >>
  BY DEF CtlReceive
<1>2. Becomes(d) \/ Becomes(Receive(d, p, h, arrives))
  BY DevFacts DEF CtlReceive
<1>3. f \in Frame /\ Tail(link[p]) \in Seq(Frame)
  BY <1>1, DevFacts
<1>4. g \in DevType /\ g.up /\ g.ap = Dev.ap /\ g.timer = Dev.timer
  BY <1>1, <1>3, DevFacts DEF DevType
<1> HIDE DEF g, f
<1>5. c \in Controllers
  BY <1>3, DevFacts, CtlTypes
<1> HIDE DEF c
<1>6. e \in Controllers
  BY <1>3, <1>5, CtlTypes
<1>7. h \in Frame
  BY <1>6 DEF Frame, Controllers, Kinds
<1> HIDE DEF e, h
<1>8. Alive(g)
  BY <1>1, <1>4, DevAlive, ApartAlive
<1>9. Alive(d)
  BY <1>6, <1>8, WithCtlAlive
<1> HIDE DEF d
<1>10. Alive(Receive(d, p, h, arrives))
  BY <1>7, <1>9, ReceiveAlive
<1> QED BY <1>2, <1>9, <1>10, BecomesSound DEF Alive

\* A frame is lost, also when the AR is no longer in use.
LEMMA LinkLosesSound ==
    ASSUME Sound(Dev), NEW p \in Prios, LinkLoses(p)
    PROVE  Sound(Dev)'
<1> DEFINE d == [Dev EXCEPT !.link[p] = Tail(link[p])]
<1>1. link[p] # << >> /\ Becomes(d)
  BY DevFacts DEF LinkLoses
<1>2. Tail(link[p]) \in Seq(Frame)
  BY <1>1, DevFacts
<1>3. /\ d \in DevType /\ d.up = Dev.up /\ d.ap = Dev.ap /\ d.timer = Dev.timer
      /\ d.sendq = Dev.sendq /\ d.recvq = Dev.recvq
  BY <1>2, DevFacts DEF DevType
<1> HIDE DEF d
<1>4. Sound(d)
  BY <1>3 DEF Sound, Idle
<1> QED BY <1>1, <1>4, BecomesSound

LEMMA ControllerSound == ASSUME Sound(Dev), ControllerStep PROVE Sound(Dev)'
<1>1. KeptTo \subseteq Prios
  BY DEF KeptTo
<1> QED BY <1>1, CtlNotifySound, CtlAnswerSound, CtlResendSound, CtlReceiveSound,
           CtlGiveUpSound, LinkLosesSound DEF ControllerStep

-----------------------------------------------------------------------------
\* The invariant of the specification: TypeOK, Retained and AnswerUnderWay
\* need one another.  An acknowledgement may free the answer because ALPMR
\* leaves W_TACK with it; a stray timer does no harm because nothing is
\* retained outside WTACK.
IInv == Sound(Dev)

LEMMA IInvParts == IInv <=> TypeOK /\ Retained /\ AnswerUnderWay
<1>1. Dev \in DevType <=> TypeOK
  BY DEF Dev, DevType, TypeOK, TimerType
<1>2. (\A p \in Prios : MachineOK(Dev.ap[p], Dev.timer[p]) /\ (~Dev.up => Idle(Dev, p)))
      <=> Retained /\ AnswerUnderWay
  BY DEF Dev, MachineOK, Idle, Retained, AnswerUnderWay
<1> QED BY <1>1, <1>2 DEF IInv, Sound

LEMMA InitSound == Init => IInv
<1> SUFFICES ASSUME Init PROVE IInv
  OBVIOUS
<1>1. NoTimer \in TimerType /\ ~NoTimer.named
  BY DEF NoTimer, TimerType
<1>2. /\ Each(Closed) \in [Prios -> Machines] /\ Each(CtlStart) \in [Prios -> Controllers]
      /\ Each(NoTimer) \in [Prios -> TimerType] /\ Each(None) \in [Prios -> Alarms \cup {None}]
  BY <1>1, StartTypes DEF Each
<1>3. Each(<< >>) \in [Prios -> Seq(Frame)] /\ Each(<< >>) \in [Prios -> Seq(Alarms)]
  BY DEF Each
<1>4. TypeOK
  BY <1>2, <1>3 DEF Init, TypeOK, TimerType
<1>5. Retained /\ AnswerUnderWay
  BY <1>1 DEF Init, Retained, AnswerUnderWay, Each, Closed
<1> QED BY <1>4, <1>5, IInvParts

LEMMA NextSound == IInv /\ [Next]_vars => IInv'
<1> SUFFICES ASSUME IInv, [Next]_vars PROVE IInv'
  OBVIOUS
<1>1. CASE Next
  BY <1>1, ArSound, MainSound, WildSound, ControllerSound DEF IInv, Next
<1>2. CASE UNCHANGED vars
  <2>1. Dev' = Dev
    BY <1>2 DEF vars, Dev
  <2>2. Sound(Dev')
    BY <2>1 DEF IInv
  <2> QED BY <2>2 DEF IInv, Sound, Idle, MachineOK
<1> QED BY <1>1, <1>2

LEMMA AlwaysIInv == Spec => []IInv
BY InitSound, NextSound, PTL DEF Spec

\* Every variable keeps its type, whatever frames come: the sequence numbers
\* stay in range and so do the counts of resends.
THEOREM AlarmTypes == Spec => []TypeOK
<1>1. IInv => TypeOK
  BY IInvParts
<1> QED BY <1>1, AlwaysIInv, PTL

\* A frame is retained exactly while its acknowledgement is awaited, with a
\* timer that its machine can remove, whatever timers earlier frames have left
\* running; an AR that is closed has none (pf_alarm_apms_a_data_req,
\* pf_alarm_apms_timeout, pf_alarm_apmx_close).
THEOREM AlwaysRetained == Spec => []Retained
<1>1. IInv => Retained
  BY IInvParts
<1> QED BY <1>1, AlwaysIInv, PTL

\* ALPMR waits for an acknowledgement exactly while the answer is the frame
\* retained, though notifications and answers share APMS
\* (pf_alarm_alpmr_alarm_ack, pf_alarm_apms_a_data_ind).
THEOREM AnswersTracked == Spec => []AnswerUnderWay
<1>1. IInv => AnswerUnderWay
  BY IInvParts
<1> QED BY <1>1, AlwaysIInv, PTL

-----------------------------------------------------------------------------
(***************************************************************************)
(* AnsweredIsAcked, when the controller sends alarms of high priority only *)
(* (HighOnly).  It is not inductive: what the application owes comes from  *)
(* the frames in the receive queue, and these from the controller's.       *)
(***************************************************************************)
\* A frame that may reach ALPMR of priority p.
Asks(p, f) == f.kind = "notify" => p = High /\ f.alarm # None

Owing(d) ==
    \A p \in Prios :
        /\ d.ap[p].alpmr = "W_USER_ACK" => p = High /\ d.owed[p] # None
        /\ \A i \in 1 .. Len(d.recvq[p]) : Asks(p, d.recvq[p][i])
        /\ d.ctl[p].out # None => Asks(p, d.ctl[p].out)

\* A step inside a handler that leaves the queues alone and asks nothing.
Silent(d, e) ==
    /\ e \in DevType /\ e.recvq = d.recvq /\ e.owed = d.owed /\ e.ctl = d.ctl
    /\ \A q \in Prios : e.ap[q].alpmr = "W_USER_ACK" => d.ap[q].alpmr = "W_USER_ACK"

LEMMA SilentOwing == ASSUME NEW d, NEW e, Owing(d), Silent(d, e) PROVE Owing(e)
BY DEF Owing, Silent

LEMMA SilentTwice ==
    ASSUME NEW d, NEW e, NEW f, Silent(d, e), Silent(e, f) PROVE Silent(d, f)
BY DEF Silent

LEMMA SilentWith ==
    ASSUME NEW d \in DevType, NEW p \in Prios, NEW m \in Machines,
           m.alpmr = "W_USER_ACK" => d.ap[p].alpmr = "W_USER_ACK"
    PROVE  Silent(d, With(d, p, m))
<1>1. With(d, p, m) \in DevType /\ With(d, p, m).ap = [d.ap EXCEPT ![p] = m]
      /\ With(d, p, m).recvq = d.recvq
  BY WithFacts
<1>2. With(d, p, m).owed = d.owed /\ With(d, p, m).ctl = d.ctl
  BY DEF With, DevType
<1>3. ASSUME NEW q \in Prios, With(d, p, m).ap[q].alpmr = "W_USER_ACK"
      PROVE  d.ap[q].alpmr = "W_USER_ACK"
  <2>1. With(d, p, m).ap[q] = IF q = p THEN m ELSE d.ap[q]
    BY <1>1 DEF DevType
  <2> QED BY <1>3, <2>1
<1> QED BY <1>1, <1>2, <1>3 DEF Silent

LEMMA SilentTransmit ==
    ASSUME NEW d \in DevType, NEW p \in Prios, NEW f \in Frame, NEW sent
    PROVE  Silent(d, Transmit(d, p, f, sent))
<1>1. Transmit(d, p, f, sent).owed = d.owed /\ Transmit(d, p, f, sent).ctl = d.ctl
  BY DEF Transmit, Put, DevType
<1> QED BY <1>1, TransmitFacts DEF Silent

LEMMA SilentTimer ==
    ASSUME NEW d \in DevType, NEW p \in Prios, NEW t \in TimerType
    PROVE  Silent(d, WithTimer(d, p, t))
<1>1. WithTimer(d, p, t).owed = d.owed /\ WithTimer(d, p, t).ctl = d.ctl
  BY DEF WithTimer, DevType
<1> QED BY <1>1, WithTimerFacts DEF Silent

LEMMA SilentTackInd ==
    ASSUME NEW d, Alive(d), NEW p \in Prios, NEW f
    PROVE  Silent(d, TackInd(d, p, f))
<1>1. d \in DevType /\ d.ap[p] \in Machines /\ MachineOK(d.ap[p], d.timer[p])
  BY DEF Alive, Sound, DevType
<1>2. Acknowledged(d.ap[p]) \in Machines
  BY <1>1, AcknowledgedOK
<1>3. Acknowledged(d.ap[p]).alpmr = "W_USER_ACK" => d.ap[p].alpmr = "W_USER_ACK"
  BY <1>1 DEF Acknowledged, Machines
<1>4. Silent(d, With(d, p, Acknowledged(d.ap[p])))
  BY <1>1, <1>2, <1>3, SilentWith
<1>5. Silent(d, d)
  BY <1>1 DEF Silent
<1> QED BY <1>4, <1>5 DEF TackInd

LEMMA SilentReply ==
    ASSUME NEW d, d \in DevType, NEW p \in Prios, NEW kind \in Kinds, NEW sent
    PROVE  Silent(d, Reply(d, p, kind, sent))
<1> DEFINE f == [kind |-> kind, alarm |-> None, send |-> d.ap[p].send_o, ack |-> d.ap[p].exp_o]
<1>1. d.ap[p].send_o \in SeqNo /\ d.ap[p].exp_o \in SeqNo
  BY DEF DevType, Machines
<1>2. f \in Frame
  BY <1>1 DEF Frame
<1>3. Reply(d, p, kind, sent) = Transmit(d, p, f, sent)
  BY DEF Reply
<1> HIDE DEF f
<1> QED BY <1>2, <1>3, SilentTransmit

LEMMA CloseOwing == ASSUME NEW d \in DevType PROVE Owing(Close(d))
<1>1. /\ Close(d).ap = Each(Closed) /\ Close(d).recvq = Each(<< >>)
      /\ Close(d).ctl = Each(CtlStart)
  BY DEF Close, DevType
<1> QED BY <1>1 DEF Owing, Each, Closed, CtlStart

\* Only a notification that ALPMR waits for makes the application owe an answer.
LEMMA NotifyIndOwing ==
    ASSUME NEW d, Alive(d), Owing(d), NEW p \in Prios, NEW f \in Frame, f.kind = "notify",
           Asks(p, f)
    PROVE  Owing(NotifyInd(d, p, f))
<1> DEFINE m == [d.ap[p] EXCEPT !.alpmr = "W_USER_ACK"]
           w == With(d, p, m)
           e == [w EXCEPT !.owed[p] = f.alarm]
<1>1. d \in DevType /\ d.ap[p] \in Machines
  BY DEF Alive, Sound, DevType
<1>2. m \in Machines /\ f.alarm \in Alarms \cup {None} /\ f.alarm # None /\ p = High
  BY <1>1 DEF Machines, Frame, Asks
<1> HIDE DEF m
<1>3. /\ w \in DevType /\ w.ap = [d.ap EXCEPT ![p] = m] /\ w.recvq = d.recvq
      /\ w.owed = d.owed /\ w.ctl = d.ctl
  BY <1>1, <1>2, WithFacts DEF With, DevType
<1> HIDE DEF w
<1>4. e.ap = w.ap /\ e.recvq = w.recvq /\ e.ctl = w.ctl /\ e.owed = [w.owed EXCEPT ![p] = f.alarm]
  BY <1>3 DEF DevType
<1> HIDE DEF e
<1>5. Owing(e)
  <2>1. e.owed[p] # None
    BY <1>2, <1>3, <1>4 DEF DevType
  <2>2. \A q \in Prios : q # p => e.ap[q] = d.ap[q] /\ e.owed[q] = d.owed[q]
    BY <1>1, <1>3, <1>4 DEF DevType
  <2> QED BY <1>2, <1>3, <1>4, <2>1, <2>2 DEF Owing
<1>6. Owing(Close(d))
  BY <1>1, CloseOwing
<1>7. NotifyInd(d, p, f) \in {d, e, Close(d)}
  BY DEF NotifyInd, e, w, m
<1> QED BY <1>5, <1>6, <1>7

LEMMA AcceptedOwing ==
    ASSUME NEW d, Alive(d), Owing(d), NEW p \in Prios, NEW f \in Frame, f.kind \in DataKinds,
           Asks(p, f), NEW sent \in BOOLEAN
    PROVE  Owing(Accepted(d, p, f, sent))
<1> DEFINE t == TackInd(d, p, f)
           e == With(t, p, Counted(t.ap[p]))
           r == Reply(e, p, "tack", sent)
           w == With(r, p, [r.ap[p] EXCEPT !.apmr = "WCNF"])
<1>1. Alive(t) /\ Silent(d, t)
  BY TackIndAlive, SilentTackInd
<1> HIDE DEF t
<1>2. t \in DevType /\ t.ap[p] \in Machines /\ MachineOK(t.ap[p], t.timer[p])
  BY <1>1 DEF Alive, Sound, DevType
<1>3. /\ Counted(t.ap[p]) \in Machines /\ MachineOK(Counted(t.ap[p]), t.timer[p])
      /\ Counted(t.ap[p]).alpmr = t.ap[p].alpmr
  BY <1>2, CountedOK DEF Counted, Machines
<1>4. Alive(e) /\ Silent(t, e)
  BY <1>1, <1>2, <1>3, WithAlive, SilentWith
<1> HIDE DEF e
<1>5. Alive(r) /\ Silent(e, r)
  BY <1>4, ReplyAlive, SilentReply DEF Alive, Sound, Kinds
<1> HIDE DEF r
<1>6. Owing(r)
  BY <1>1, <1>4, <1>5, SilentOwing
<1>7. r \in DevType /\ r.ap[p] \in Machines
  BY <1>5 DEF Alive, Sound, DevType
<1>8. Owing(w)
  <2>1. [r.ap[p] EXCEPT !.apmr = "WCNF"] \in Machines
        /\ [r.ap[p] EXCEPT !.apmr = "WCNF"].alpmr = r.ap[p].alpmr
    BY <1>7 DEF Machines
  <2>2. Silent(r, w)
    BY <1>7, <2>1, SilentWith
  <2> QED BY <1>6, <2>2, SilentOwing
<1>9. f.kind = "notify" => Owing(NotifyInd(r, p, f))
  BY <1>5, <1>6, NotifyIndOwing
<1>10. Owing(AnswerInd(r, p))
  <2> DEFINE n == [r.ap[p] EXCEPT !.alpmi = "W_ALARM"]
  <2>1. n \in Machines /\ n.alpmr = r.ap[p].alpmr
    BY <1>7 DEF Machines
  <2>2. Silent(r, With(r, p, n))
    BY <1>7, <2>1, SilentWith
  <2>3. Owing(With(r, p, n))
    BY <1>6, <2>2, SilentOwing
  <2> QED BY <1>6, <2>3 DEF AnswerInd
<1>11. Owing(Close(d))
  BY CloseOwing DEF Alive, Sound
<1>12. Accepted(d, p, f, sent) =
         CASE f.kind = "unknown" -> Close(d)
           [] f.kind # "unknown" /\ ~sent -> r
           [] f.kind = "notify" /\ sent -> NotifyInd(r, p, f)
           [] f.kind = "answer" /\ sent -> AnswerInd(r, p)
           [] f.kind = "cut" /\ sent -> w
  BY DEF Accepted, t, e, r
<1> HIDE DEF w
<1>13. CASE f.kind = "unknown"
  <2>1. Accepted(d, p, f, sent) = Close(d)
    BY <1>12, <1>13
  <2> QED BY <1>11, <2>1
<1>14. CASE f.kind # "unknown" /\ ~sent
  <2>1. Accepted(d, p, f, sent) = r
    BY <1>12, <1>14
  <2> QED BY <1>6, <2>1
<1>15. CASE f.kind = "notify" /\ sent
  <2>1. Accepted(d, p, f, sent) = NotifyInd(r, p, f)
    BY <1>12, <1>15
  <2> QED BY <1>9, <1>15, <2>1
<1>16. CASE f.kind = "answer" /\ sent
  <2>1. Accepted(d, p, f, sent) = AnswerInd(r, p)
    BY <1>12, <1>16
  <2> QED BY <1>10, <2>1
<1>17. CASE f.kind = "cut" /\ sent
  <2>1. Accepted(d, p, f, sent) = w
    BY <1>12, <1>17
  <2> QED BY <1>8, <2>1
<1> QED BY <1>13, <1>14, <1>15, <1>16, <1>17 DEF DataKinds

LEMMA HandleOwing ==
    ASSUME NEW d, Alive(d), Owing(d), NEW p \in Prios, NEW f \in Frame, Asks(p, f),
           NEW sent \in BOOLEAN
    PROVE  Owing(Handle(d, p, f, sent))
<1> DEFINE t == TackInd(d, p, f)
<1>1. Owing(t) /\ Alive(t)
  BY TackIndAlive, SilentTackInd, SilentOwing
<1>2. Owing(Reply(t, p, "tack", sent)) /\ Owing(Reply(d, p, "nack", sent))
  <2>1. t \in DevType /\ d \in DevType
    BY <1>1 DEF Alive, Sound
  <2> HIDE DEF t
  <2>2. Silent(t, Reply(t, p, "tack", sent)) /\ Silent(d, Reply(d, p, "nack", sent))
    BY <2>1, SilentReply DEF Kinds
  <2> QED BY <1>1, <2>2, SilentOwing
<1>3. f.kind \in DataKinds => Owing(Accepted(d, p, f, sent))
  BY AcceptedOwing
<1>4. Owing(Close(d))
  BY CloseOwing DEF Alive, Sound
<1>5. f.kind \in DataKinds => Owing(DataInd(d, p, f, sent))
  BY <1>2, <1>3 DEF DataInd
<1>6. f.kind \in Kinds
  BY DEF Frame
<1> HIDE DEF t
<1>7. CASE f.kind \in DataKinds
  <2>1. Handle(d, p, f, sent) = DataInd(d, p, f, sent)
    BY <1>7 DEF Handle, DataKinds
  <2> QED BY <1>5, <1>7, <2>1
<1>8. CASE f.kind = "tack"
  <2>1. Handle(d, p, f, sent) = t
    BY <1>8 DEF Handle, DataKinds, t
  <2> QED BY <1>1, <2>1
<1>9. CASE f.kind = "nack"
  <2>1. Handle(d, p, f, sent) = d
    BY <1>9 DEF Handle, DataKinds
  <2> QED BY <2>1
<1>10. CASE f.kind = "err"
  <2>1. Handle(d, p, f, sent) = Close(d)
    BY <1>10 DEF Handle, DataKinds
  <2> QED BY <1>4, <2>1
<1> QED BY <1>6, <1>7, <1>8, <1>9, <1>10 DEF Kinds

-----------------------------------------------------------------------------
\* The actions.
LEMMA BecomesOwing ==
    ASSUME NEW e, e \in DevType, Owing(e), Becomes(e)
    PROVE  Owing(Dev)'
<1>1. Dev' = [up |-> e.up, enabled |-> e.enabled, ap |-> e.ap, timer |-> e.timer,
              sendq |-> e.sendq, recvq |-> e.recvq, owed |-> e.owed, link |-> e.link,
              ctl |-> e.ctl, halted |-> e.halted]
  BY DEF Becomes, Dev
<1>2. Dev' = e
  BY <1>1 DEF DevType
<1>3. Owing(Dev')
  BY <1>2
<1> QED BY <1>3 DEF Owing, Asks

LEMMA ArOwing == ASSUME Sound(Dev), Owing(Dev), ArStep PROVE Owing(Dev)'
<1>1. CASE Activate
  <2> DEFINE e == [Dev EXCEPT !.up = TRUE, !.ap = Each(Opened)]
  <2>1. Each(Opened) \in [Prios -> Machines]
    BY StartTypes DEF Each
  <2>2. e \in DevType /\ e.ap = Each(Opened) /\ e.recvq = Dev.recvq /\ e.ctl = Dev.ctl
    BY <2>1, DevFacts DEF DevType
  <2>3. Becomes(e)
    BY <1>1 DEF Activate
  <2> HIDE DEF e
  <2>4. Owing(e)
    BY <2>2 DEF Owing, Each, Opened
  <2> QED BY <2>2, <2>3, <2>4, BecomesOwing
<1>2. CASE Enable
  <2> DEFINE e == [Dev EXCEPT !.enabled = TRUE]
  <2>1. Becomes(e)
    BY <1>2 DEF Enable
  <2>2. e \in DevType /\ e.ap = Dev.ap /\ e.recvq = Dev.recvq /\ e.ctl = Dev.ctl /\ e.owed = Dev.owed
    BY DevFacts DEF DevType
  <2> HIDE DEF e
  <2>3. Owing(e)
    BY <2>2 DEF Owing
  <2> QED BY <2>1, <2>2, <2>3, BecomesOwing
<1>3. CASE End
  <2>1. Close(Dev) \in DevType /\ Owing(Close(Dev))
    BY DevFacts, CloseFacts, CloseOwing DEF Sound
  <2> QED BY <1>3, <2>1, BecomesOwing DEF End
<1> QED BY <1>1, <1>2, <1>3 DEF ArStep

LEMMA FetchOwing ==
    ASSUME Sound(Dev), Owing(Dev), NEW p \in Prios, NEW sent \in BOOLEAN, Fetch(p, sent)
    PROVE  Owing(Dev)'
<1> DEFINE f == Head(recvq[p])
           d == [Dev EXCEPT !.recvq[p] = Tail(recvq[p])]
<1>1. up /\ recvq[p] # << >> /\ Becomes(Handle(d, p, f, sent))
  BY DevFacts DEF Fetch
<1>2. /\ f \in Frame /\ Tail(recvq[p]) \in Seq(Frame) /\ f = recvq[p][1]
      /\ Len(recvq[p]) \in Nat /\ Len(recvq[p]) >= 1
      /\ Len(Tail(recvq[p])) = Len(recvq[p]) - 1
      /\ \A i \in 1 .. Len(Tail(recvq[p])) : Tail(recvq[p])[i] = recvq[p][i + 1]
  BY <1>1, DevFacts, HeadTailProperties, EmptySeq, LenProperties
<1>3. /\ d \in DevType /\ d.up /\ d.ap = Dev.ap /\ d.timer = Dev.timer
      /\ d.recvq = [recvq EXCEPT ![p] = Tail(recvq[p])] /\ d.ctl = ctl /\ d.owed = owed
  BY <1>1, <1>2, DevFacts DEF DevType
<1>4. Alive(d)
  BY <1>1, <1>3, DevAlive, ApartAlive
<1> HIDE DEF d, f
<1>5. /\ \A q \in Prios : \A i \in 1 .. Len(recvq[q]) : Asks(q, recvq[q][i])
      /\ \A q \in Prios : ap[q].alpmr = "W_USER_ACK" => q = High /\ owed[q] # None
      /\ \A q \in Prios : ctl[q].out # None => Asks(q, ctl[q].out)
  BY DevFacts DEF Owing
<1>6. Asks(p, f)
  BY <1>2, <1>5
<1>7. Owing(d)
  <2>1. ASSUME NEW q \in Prios, NEW i \in 1 .. Len(d.recvq[q])
        PROVE  Asks(q, d.recvq[q][i])
    <3>1. CASE q = p
      <4>1. d.recvq[q] = Tail(recvq[p])
        BY <1>3, <3>1, DevFacts
      <4>2. i + 1 \in 1 .. Len(recvq[p]) /\ d.recvq[q][i] = recvq[p][i + 1]
        BY <1>2, <2>1, <4>1
      <4> QED BY <1>5, <3>1, <4>2
    <3>2. CASE q # p
      BY <1>3, <1>5, <3>2, DevFacts
    <3> QED BY <3>1, <3>2
  <2> QED BY <1>3, <1>5, <2>1, DevFacts DEF Owing
<1>8. Sound(Handle(d, p, f, sent)) /\ Owing(Handle(d, p, f, sent))
  BY <1>2, <1>4, <1>6, <1>7, HandleSound, HandleOwing
<1> QED BY <1>1, <1>8, BecomesOwing DEF Sound

LEMMA SilentDataReq ==
    ASSUME NEW d, Alive(d), NEW p \in Prios, NEW kind \in DataKinds, NEW a \in Alarms,
           NEW sent, d.ap[p].apms = "OPEN"
    PROVE  Silent(d, DataReq(d, p, kind, a, sent))
<1> DEFINE m == d.ap[p]
           f == [kind |-> kind, alarm |-> a, send |-> m.send, ack |-> m.exp_o]
           b == Transmit(d, p, f, sent)
           e == WithTimer(b, p, Added(d.timer[p]))
           n == [m EXCEPT !.rta = IF m.rta = None THEN f ELSE m.rta,
                          !.left = Retries, !.apms = "WTACK"]
<1>1. d \in DevType /\ m \in Machines /\ d.timer[p] \in TimerType
  BY DEF Alive, Sound, DevType
<1>2. f \in Frame /\ Retries \in 0 .. Retries
  BY <1>1, AlarmAssumption DEF Frame, Kinds, Machines
<1> HIDE DEF f
<1>3. n \in Machines /\ n.alpmr = m.alpmr
  BY <1>1, <1>2 DEF Machines
<1>4. DataReq(d, p, kind, a, sent) = With(e, p, n)
  BY DEF DataReq, f
<1> HIDE DEF n
<1>5. Silent(d, b) /\ b.ap = d.ap
  BY <1>1, <1>2, SilentTransmit, TransmitFacts
<1> HIDE DEF b
<1>6. Silent(b, e)
  <2>1. b \in DevType /\ Added(d.timer[p]) \in TimerType
    BY <1>1, <1>5, TimerTypes DEF Silent
  <2> QED BY <2>1, SilentTimer
<1>7. e.ap = d.ap
  <2>1. b \in DevType /\ Added(d.timer[p]) \in TimerType
    BY <1>1, <1>5, TimerTypes DEF Silent
  <2>2. e.ap = b.ap
    BY <2>1, WithTimerFacts
  <2> QED BY <1>5, <2>2
<1> HIDE DEF e
<1>8. Silent(e, With(e, p, n))
  BY <1>3, <1>6, <1>7, SilentWith DEF Silent
<1>9. Silent(d, e)
  BY <1>5, <1>6, SilentTwice
<1>10. Silent(d, With(e, p, n))
  BY <1>8, <1>9, SilentTwice
<1> QED BY <1>4, <1>10

LEMMA DataReqHaltsOwing ==
    ASSUME NEW d, Alive(d), NEW p \in Prios, NEW kind, NEW a, NEW sent, d.ap[p].apms # "OPEN"
    PROVE  Owing(DataReq(d, p, kind, a, sent)) /\ DataReq(d, p, kind, a, sent) \in DevType
<1> DEFINE e == Close(d)
           h == [e EXCEPT !.halted = TRUE]
<1>1. e \in DevType /\ Owing(e)
  BY CloseFacts, CloseOwing DEF Alive, Sound
<1>2. DataReq(d, p, kind, a, sent) = h
  BY DEF DataReq
<1> HIDE DEF e
<1>3. h \in DevType /\ h.ap = e.ap /\ h.recvq = e.recvq /\ h.owed = e.owed /\ h.ctl = e.ctl
  BY <1>1 DEF DevType
<1> HIDE DEF h
<1>4. Owing(h)
  BY <1>1, <1>3 DEF Owing
<1> QED BY <1>2, <1>3, <1>4

LEMMA AlmpiOwing ==
    ASSUME Sound(Dev), Owing(Dev), NEW p \in Prios, NEW sent, Almpi(p, sent)
    PROVE  Owing(Dev)'
<1> DEFINE a == Head(sendq[p])
           g == [Dev EXCEPT !.sendq[p] = Tail(sendq[p])]
           d == DataReq(g, p, "notify", a, sent)
           m == [d.ap[p] EXCEPT !.alpmi = "W_ACK"]
           r == IF sent /\ ~d.halted THEN With(d, p, m) ELSE d
<1>1. up /\ sendq[p] # << >> /\ Becomes(r)
  BY DevFacts DEF Almpi, CanSend
<1>2. a \in Alarms /\ Tail(sendq[p]) \in Seq(Alarms)
  BY <1>1, DevFacts
<1>3. /\ g \in DevType /\ g.up /\ g.ap = Dev.ap /\ g.timer = Dev.timer
      /\ g.recvq = Dev.recvq /\ g.owed = Dev.owed /\ g.ctl = Dev.ctl
  BY <1>1, <1>2, DevFacts DEF DevType
<1> HIDE DEF g, a
<1>4. Alive(g) /\ Owing(g)
  BY <1>1, <1>3, DevAlive, ApartAlive DEF Owing
<1>5. d \in DevType /\ Owing(d)
  <2>1. CASE g.ap[p].apms = "OPEN"
    <3>1. Silent(g, d)
      BY <1>2, <1>4, <2>1, SilentDataReq DEF DataKinds
    <3> QED BY <1>4, <3>1, SilentOwing DEF Silent
  <2>2. CASE g.ap[p].apms # "OPEN"
    BY <1>4, <2>2, DataReqHaltsOwing
  <2> QED BY <2>1, <2>2
<1> HIDE DEF d
<1>6. m \in Machines /\ m.alpmr = d.ap[p].alpmr
  <2>1. d.ap[p] \in Machines
    BY <1>5 DEF DevType
  <2> QED BY <2>1 DEF Machines
<1> HIDE DEF m
<1>7. Silent(d, With(d, p, m))
  BY <1>5, <1>6, SilentWith
<1>8. r \in DevType /\ Owing(r)
  BY <1>5, <1>7, SilentOwing DEF Silent
<1> HIDE DEF r
<1> QED BY <1>1, <1>8, BecomesOwing

LEMMA AppSendOwing ==
    ASSUME Sound(Dev), Owing(Dev), NEW p \in Prios, NEW a \in Alarms, AppSend(p, a)
    PROVE  Owing(Dev)'
<1> DEFINE d == [Dev EXCEPT !.sendq[p] = Append(sendq[p], a)]
<1>1. Becomes(d)
  BY DevFacts DEF AppSend
<1>2. Append(sendq[p], a) \in Seq(Alarms)
  BY DevFacts
<1>3. /\ d \in DevType /\ d.ap = Dev.ap /\ d.recvq = Dev.recvq /\ d.owed = Dev.owed
      /\ d.ctl = Dev.ctl
  BY <1>2, DevFacts DEF DevType
<1> HIDE DEF d
<1>4. Owing(d)
  BY <1>3 DEF Owing
<1> QED BY <1>1, <1>3, <1>4, BecomesOwing

\* The answer that clears what is owed takes ALPMR out of W_USER_ACK.
LEMMA AppAckOwing ==
    ASSUME Sound(Dev), Owing(Dev), NEW p \in Prios, NEW sent, AppAck(p, sent)
    PROVE  Owing(Dev)'
<1> DEFINE g == [Dev EXCEPT !.owed[p] = None]
           d == DataReq(g, High, "answer", owed[p], sent)
           m == [d.ap[High] EXCEPT !.alpmr = "W_TACK"]
           r == IF d.halted THEN d ELSE With(d, High, m)
<1>1. /\ up /\ owed[p] # None
      /\ Becomes(IF ap[High].alpmr # "W_USER_ACK" THEN g ELSE r)
  BY DEF AppAck
<1>2. owed[p] \in Alarms /\ High \in Prios
  BY <1>1, DevFacts DEF Prios
<1>3. /\ g \in DevType /\ g.up /\ g.ap = Dev.ap /\ g.timer = Dev.timer
      /\ g.recvq = Dev.recvq /\ g.ctl = Dev.ctl
  BY <1>1, DevFacts DEF DevType
<1> HIDE DEF g
<1>4. Alive(g)
  BY <1>1, <1>3, DevAlive, ApartAlive
<1>5. CASE ap[High].alpmr # "W_USER_ACK"
  <2>1. Owing(g)
    BY <1>3, <1>5, DevFacts DEF Owing
  <2> QED BY <1>1, <1>3, <1>5, <2>1, BecomesOwing
<1>6. CASE ap[High].alpmr = "W_USER_ACK" /\ g.ap[High].apms = "OPEN"
  <2>1. Silent(g, d)
    BY <1>2, <1>4, <1>6, SilentDataReq DEF DataKinds
  <2>2. ~d.halted \/ Becomes(d)
    BY <1>1, <1>6
  <2>3. PICK e \in DevType, n \in Machines :
          /\ Alive(e) /\ e.halted = g.halted /\ d = With(e, High, n)
    BY <1>2, <1>4, <1>6, DataReqFacts DEF DataKinds
  <2> HIDE DEF d
  <2>4. ~d.halted
    <3>1. d.halted = e.halted
      <4>1. With(e, High, n).halted = e.halted
        BY <1>2, WithFacts
      <4> QED BY <2>3, <4>1
    <3>2. ~g.halted
      BY <1>1 DEF Becomes, g, Dev
    <3> QED BY <2>3, <3>1, <3>2
  <2>5. d.ap[High] \in Machines /\ d \in DevType
    BY <1>2, <2>1 DEF Silent, DevType
  <2>6. m \in Machines /\ m.alpmr = "W_TACK"
    BY <2>5 DEF Machines
  <2> HIDE DEF m
  <2>7. Silent(d, With(d, High, m)) /\ With(d, High, m).ap = [d.ap EXCEPT ![High] = m]
    BY <1>2, <2>5, <2>6, SilentWith, WithFacts
  <2>8. Owing(With(d, High, m))
    <3>1. \A q \in Prios : With(d, High, m).ap[q].alpmr # "W_USER_ACK"
      <4>1. With(d, High, m).ap[High] = m
        BY <1>2, <2>5, <2>7 DEF DevType
      <4>2. ASSUME NEW q \in Prios, With(d, High, m).ap[q].alpmr = "W_USER_ACK"
            PROVE  q = High
        <5>1. Dev.ap[q].alpmr = "W_USER_ACK"
          BY <1>3, <2>1, <2>7, <4>2 DEF Silent
        <5> QED BY <5>1 DEF Owing
      <4> QED BY <2>6, <4>1, <4>2
    <3>2. With(d, High, m).recvq = Dev.recvq /\ With(d, High, m).ctl = Dev.ctl
      BY <1>3, <2>1, <2>7 DEF Silent
    <3> QED BY <3>1, <3>2 DEF Owing
  <2>9. Becomes(With(d, High, m))
    BY <1>1, <1>6, <2>4
  <2> QED BY <2>7, <2>8, <2>9, BecomesOwing DEF Silent
<1>7. CASE ap[High].alpmr = "W_USER_ACK" /\ g.ap[High].apms # "OPEN"
  <2>1. Owing(d) /\ d \in DevType /\ d.halted
    BY <1>2, <1>4, <1>7, DataReqHalts, DataReqHaltsOwing
  <2> HIDE DEF d
  <2>2. Becomes(d)
    BY <1>1, <1>7, <2>1
  <2> QED BY <2>1, <2>2, BecomesOwing
<1> QED BY <1>5, <1>6, <1>7

LEMMA ExpiredOwing ==
    ASSUME NEW e \in DevType, Owing(e), NEW p \in Prios, NEW sent
    PROVE  Owing(Expired(e, p, sent))
<1> DEFINE m == e.ap[p]
           b == Transmit(e, p, m.rta, sent)
           g == WithTimer(b, p, Added(e.timer[p]))
           n == [m EXCEPT !.left = m.left - 1]
           z == [m EXCEPT !.rta = None]
<1>1. e \in DevType /\ m \in Machines /\ e.timer[p] \in TimerType
  BY DEF DevType
<1>2. Owing(Close(e))
  BY <1>1, CloseOwing
<1>3. Owing(With(e, p, z))
  <2>1. z \in Machines /\ z.alpmr = m.alpmr
    BY <1>1 DEF Machines
  <2>2. Silent(e, With(e, p, z))
    BY <1>1, <2>1, SilentWith
  <2> QED BY <2>2, SilentOwing
<1>4. ASSUME m.rta # None, m.left > 0
      PROVE  Owing(Resent(e, p, sent))
  <2>1. m.rta \in Frame /\ m.left - 1 \in 0 .. Retries
    <3>1. m.rta \in Frame \cup {None} /\ m.left \in 0 .. Retries
      BY <1>1 DEF Machines
    <3>2. Retries \in Nat
      BY AlarmAssumption
    <3> HIDE DEF m
    <3> QED BY <1>4, <3>1, <3>2
  <2>2. n \in Machines /\ n.alpmr = m.alpmr
    BY <1>1, <2>1 DEF Machines
  <2> HIDE DEF n
  <2>3. Silent(e, b) /\ b.ap = e.ap /\ b \in DevType
    BY <1>1, <2>1, SilentTransmit, TransmitFacts
  <2>4. Resent(e, p, sent) = With(g, p, n)
    BY DEF Resent, n
  <2> HIDE DEF b
  <2>5. Added(e.timer[p]) \in TimerType
    BY <1>1, TimerTypes
  <2>6. Silent(b, g) /\ g.ap = e.ap /\ g \in DevType
    BY <2>3, <2>5, SilentTimer, WithTimerFacts
  <2> HIDE DEF g
  <2>7. Silent(g, With(g, p, n))
    BY <2>2, <2>6, SilentWith
  <2>8. Owing(With(g, p, n))
    BY <2>3, <2>6, <2>7, SilentOwing
  <2> QED BY <2>4, <2>8
<1> HIDE DEF z
<1>5. CASE m.apms = "WTACK" /\ m.rta = None
  <2>1. Expired(e, p, sent) = e
    BY <1>5 DEF Expired
  <2> QED BY <2>1
<1>6. CASE m.apms = "WTACK" /\ m.rta # None /\ m.left > 0
  <2>1. Expired(e, p, sent) = Resent(e, p, sent)
    BY <1>6 DEF Expired
  <2> QED BY <1>4, <1>6, <2>1
<1>7. CASE m.apms = "WTACK" /\ m.rta # None /\ ~(m.left > 0)
  <2>1. Expired(e, p, sent) = Close(e)
    BY <1>7 DEF Expired
  <2> QED BY <1>2, <2>1
<1>8. CASE m.apms # "WTACK"
  <2>1. Expired(e, p, sent) = With(e, p, z)
    BY <1>8 DEF Expired, z
  <2> QED BY <1>3, <2>1 DEF z
<1> QED BY <1>5, <1>6, <1>7, <1>8

LEMMA TimeoutOwing ==
    ASSUME Sound(Dev), Owing(Dev), NEW p \in Prios, NEW sent, ApmsTimeout(p, sent)
    PROVE  Owing(Dev)'
<1>1. PICK t \in Expiring(timer[p]) : Becomes(Expired(WithTimer(Dev, p, Orphan(t)), p, sent))
  BY DEF ApmsTimeout
<1>2. t \in TimerType
  BY DevFacts, ExpiringType
<1>3. Orphan(t) \in TimerType /\ ~Orphan(t).named
  BY <1>2, TimerTypes
<1>4. Silent(Dev, WithTimer(Dev, p, Orphan(t)))
  BY <1>3, DevFacts, SilentTimer
<1>5. WithTimer(Dev, p, Orphan(t)) \in DevType /\ Owing(WithTimer(Dev, p, Orphan(t)))
  BY <1>4, SilentOwing DEF Silent
<1>6. Owing(Expired(WithTimer(Dev, p, Orphan(t)), p, sent))
  BY <1>5, ExpiredOwing
<1>7. Sound(Expired(WithTimer(Dev, p, Orphan(t)), p, sent))
  BY <1>3, ExpiredSound
<1> QED BY <1>1, <1>6, <1>7, BecomesOwing DEF Sound

LEMMA MainOwing == ASSUME Sound(Dev), Owing(Dev), MainStep PROVE Owing(Dev)'
<1>1. Sendings \subseteq BOOLEAN
  BY DEF Sendings
<1> QED BY <1>1, FetchOwing, AlmpiOwing, TimeoutOwing, AppAckOwing, AppSendOwing DEF MainStep

LEMMA WildOwing == ASSUME HighOnly, Sound(Dev), Owing(Dev), WildStep PROVE Owing(Dev)'
<1>1. PICK p \in CtlSends, f \in Strays, sent \in Sendings : WildFrame(p, f, sent)
  BY DEF WildStep
<1>2. p \in Prios /\ f \in Frame /\ sent \in BOOLEAN
  BY AlarmAssumption, FrameAssumption DEF Sendings
<1>3. Alive(Dev) /\ Becomes(Handle(Dev, p, f, sent))
  BY <1>1, DevAlive DEF WildFrame
<1>4. Asks(p, f)
  BY DEF HighOnly, Asks
<1>5. Sound(Handle(Dev, p, f, sent)) /\ Owing(Handle(Dev, p, f, sent))
  BY <1>2, <1>3, <1>4, HandleSound, HandleOwing
<1> QED BY <1>3, <1>5, BecomesOwing DEF Sound

\* A frame of the controller that asks nothing it may not ask.
LEMMA ReceiveOwing ==
    ASSUME NEW d \in DevType, Owing(d), NEW p \in Prios, NEW f \in Frame, Asks(p, f), NEW arrives
    PROVE  Owing(Receive(d, p, f, arrives)) /\ Receive(d, p, f, arrives) \in DevType
<1> DEFINE q0 == Append(d.recvq[p], f)
           e == [d EXCEPT !.recvq[p] = q0]
<1>1. /\ d.recvq[p] \in Seq(Frame) /\ d.recvq \in [Prios -> Seq(Frame)]
      /\ q0 \in Seq(Frame) /\ Len(q0) = Len(d.recvq[p]) + 1 /\ Len(d.recvq[p]) \in Nat
      /\ \A i \in 1 .. Len(d.recvq[p]) : q0[i] = d.recvq[p][i]
      /\ q0[Len(q0)] = f
  <2>1. d.recvq[p] \in Seq(Frame) /\ d.recvq \in [Prios -> Seq(Frame)]
    BY DEF DevType
  <2> QED BY <2>1, AppendProperties, LenProperties
<1> HIDE DEF q0
<1>2. /\ e \in DevType /\ e.recvq = [d.recvq EXCEPT ![p] = q0] /\ e.ap = d.ap
      /\ e.owed = d.owed /\ e.ctl = d.ctl
  BY <1>1 DEF DevType
<1> HIDE DEF e
<1>3. ASSUME NEW q \in Prios, NEW i \in 1 .. Len(e.recvq[q])
      PROVE  Asks(q, e.recvq[q][i])
  <2>1. \A j \in 1 .. Len(d.recvq[q]) : Asks(q, d.recvq[q][j])
    BY DEF Owing
  <2>2. CASE q # p
    BY <1>1, <1>2, <2>1, <2>2
  <2>3. CASE q = p
    <3>1. e.recvq[q] = q0
      BY <1>1, <1>2, <2>3
    <3>2. CASE i = Len(q0)
      BY <1>1, <2>3, <3>1, <3>2
    <3>3. CASE i # Len(q0)
      <4>1. i \in 1 .. Len(d.recvq[p])
        BY <1>1, <3>1, <3>3
      <4> QED BY <1>1, <2>1, <2>3, <3>1, <4>1
    <3> QED BY <3>2, <3>3
  <2> QED BY <2>2, <2>3
<1>4. Owing(e)
  BY <1>2, <1>3 DEF Owing
<1>5. Receive(d, p, f, arrives) = e \/ Receive(d, p, f, arrives) = d
  BY DEF Receive, e, q0
<1> QED BY <1>2, <1>4, <1>5

LEMMA WithCtlOwing ==
    ASSUME NEW d \in DevType, Owing(d), NEW p \in Prios, NEW c \in Controllers,
           c.out # None => Asks(p, c.out)
    PROVE  Owing(WithCtl(d, p, c)) /\ WithCtl(d, p, c) \in DevType
<1> DEFINE e == [d EXCEPT !.ctl[p] = c]
<1>1. /\ e \in DevType /\ e.ctl = [d.ctl EXCEPT ![p] = c] /\ e.ap = d.ap
      /\ e.owed = d.owed /\ e.recvq = d.recvq
  BY DEF DevType
<1> HIDE DEF e
<1>2. \A q \in Prios : e.ctl[q] = IF q = p THEN c ELSE d.ctl[q]
  BY <1>1 DEF DevType
<1>3. Owing(e)
  BY <1>1, <1>2 DEF Owing
<1> QED BY <1>1, <1>3 DEF WithCtl, e

LEMMA CtlDataOwing ==
    ASSUME Sound(Dev), Owing(Dev), NEW p \in Prios, NEW c \in Controllers, NEW kind \in Kinds,
           NEW a \in Alarms \cup {None}, kind = "notify" => p = High /\ a # None, NEW arrives,
           Becomes(CtlData(p, c, kind, a, arrives))
    PROVE  Owing(Dev)'
<1> DEFINE f == [kind |-> kind, alarm |-> a, send |-> c.send, ack |-> c.exp_o]
           b == [c EXCEPT !.out = f, !.left = Retries]
<1>1. f \in Frame /\ Asks(p, f)
  BY DEF Frame, Controllers, Asks
<1>2. Retries \in 0 .. Retries
  BY AlarmAssumption
<1>3. CtlData(p, c, kind, a, arrives) = Receive(WithCtl(Dev, p, b), p, f, arrives)
  BY DEF CtlData
<1> HIDE DEF f
<1>4. b \in Controllers /\ b.out = f
  BY <1>1, <1>2 DEF Controllers
<1> HIDE DEF b
<1>5. Owing(WithCtl(Dev, p, b)) /\ WithCtl(Dev, p, b) \in DevType
  BY <1>1, <1>4, DevFacts, WithCtlOwing
<1> QED BY <1>1, <1>3, <1>5, ReceiveOwing, BecomesOwing

LEMMA CtlNotifyOwing ==
    ASSUME HighOnly, Sound(Dev), Owing(Dev), NEW p \in Prios, NEW a \in Alarms, NEW arrives,
           CtlNotify(p, a, arrives)
    PROVE  Owing(Dev)'
<1> DEFINE c == [ctl[p] EXCEPT !.alpmi = "W_ACK", !.asked = a]
<1>1. c \in Controllers
  <2>1. ctl[p] \in Controllers
    BY DevFacts
  <2> QED BY <2>1 DEF Controllers
<1>2. p = High /\ a # None /\ Becomes(CtlData(p, c, "notify", a, arrives))
  BY AlarmAssumption DEF CtlNotify, HighOnly
<1> HIDE DEF c
<1> QED BY <1>1, <1>2, CtlDataOwing DEF Kinds, DataKinds

LEMMA CtlAnswerOwing ==
    ASSUME Sound(Dev), Owing(Dev), NEW p \in Prios, NEW arrives, CtlAnswer(p, arrives)
    PROVE  Owing(Dev)'
<1> DEFINE c == [ctl[p] EXCEPT !.got = None]
           a == ctl[p].got
<1>1. c \in Controllers /\ a \in Alarms \cup {None}
  <2>1. ctl[p] \in Controllers
    BY DevFacts
  <2> QED BY <2>1 DEF Controllers
<1>2. Becomes(CtlData(p, c, "answer", a, arrives))
  BY DEF CtlAnswer
<1> HIDE DEF c, a
<1> QED BY <1>1, <1>2, CtlDataOwing DEF Kinds, DataKinds

LEMMA CtlResendOwing ==
    ASSUME Sound(Dev), Owing(Dev), NEW p \in Prios, NEW arrives, CtlResend(p, arrives)
    PROVE  Owing(Dev)'
<1> DEFINE c == [ctl[p] EXCEPT !.left = ctl[p].left - 1]
           f == ctl[p].out
<1>1. ctl[p] \in Controllers /\ f # None /\ ctl[p].left > 0
  BY DevFacts DEF CtlResend
<1>2. f \in Frame /\ ctl[p].left - 1 \in 0 .. Retries
  BY <1>1, AlarmAssumption DEF Controllers
<1>3. c \in Controllers /\ c.out = f
  BY <1>1, <1>2 DEF Controllers
<1>4. Becomes(Receive(WithCtl(Dev, p, c), p, f, arrives))
  BY DEF CtlResend
<1>5. Asks(p, f)
  BY <1>1, DevFacts DEF Owing
<1> HIDE DEF c, f
<1>6. Owing(WithCtl(Dev, p, c)) /\ WithCtl(Dev, p, c) \in DevType
  BY <1>3, <1>5, DevFacts, WithCtlOwing
<1> QED BY <1>2, <1>4, <1>5, <1>6, ReceiveOwing, BecomesOwing

LEMMA CtlGiveUpOwing ==
    ASSUME Sound(Dev), Owing(Dev), NEW p \in Prios, CtlGiveUp(p)
    PROVE  Owing(Dev)'
<1> DEFINE f == [ctl[p].out EXCEPT !.kind = "err"]
<1>1. ctl[p].out \in Frame
  BY DevFacts DEF Controllers, CtlGiveUp
<1>2. f \in Frame /\ Asks(p, f)
  BY <1>1 DEF Frame, Kinds, Asks
<1>3. Becomes(Receive(Dev, p, f, TRUE))
  BY DEF CtlGiveUp
<1> HIDE DEF f
<1> QED BY <1>2, <1>3, DevFacts, ReceiveOwing, BecomesOwing

LEMMA CtlReceiveOwing ==
    ASSUME Sound(Dev), Owing(Dev), NEW p \in Prios, NEW arrives, CtlReceive(p, arrives)
    PROVE  Owing(Dev)'
<1> DEFINE f == Head(link[p])
           c == CtlTacked(ctl[p], f)
           e == IF f.kind \in DataKinds /\ f.send = c.exp THEN CtlAccepts(c, f) ELSE c
           g == [Dev EXCEPT !.link[p] = Tail(link[p])]
           d == WithCtl(g, p, e)
           h == [kind |-> "tack", alarm |-> None, send |-> e.send, ack |-> e.exp_o]
<1>1. link[p] # << >>
  BY DEF CtlReceive
<1>2. Becomes(d) \/ Becomes(Receive(d, p, h, arrives))
  BY DevFacts DEF CtlReceive
<1>3. f \in Frame /\ Tail(link[p]) \in Seq(Frame)
  BY <1>1, DevFacts
<1>4. /\ g \in DevType /\ g.ap = Dev.ap /\ g.recvq = Dev.recvq /\ g.owed = Dev.owed
      /\ g.ctl = Dev.ctl
  BY <1>3, DevFacts DEF DevType
<1> HIDE DEF g, f
<1>5. c \in Controllers /\ (c.out = ctl[p].out \/ c.out = None)
  <2>1. ctl[p] \in Controllers
    BY DevFacts
  <2> QED BY <1>3, <2>1, CtlTypes DEF CtlTacked, Controllers
<1> HIDE DEF c
<1>6. e \in Controllers /\ e.out = c.out
  BY <1>3, <1>5, CtlTypes DEF CtlAccepts, Controllers
<1>7. h \in Frame /\ Asks(p, h)
  BY <1>6 DEF Frame, Controllers, Kinds, Asks
<1> HIDE DEF e, h
<1>8. Owing(g)
  BY <1>4 DEF Owing
<1>9. e.out # None => Asks(p, e.out)
  BY <1>5, <1>6, DevFacts DEF Owing
<1>10. Owing(d) /\ d \in DevType
  BY <1>4, <1>6, <1>8, <1>9, WithCtlOwing
<1> HIDE DEF d
<1>11. Owing(Receive(d, p, h, arrives)) /\ Receive(d, p, h, arrives) \in DevType
  BY <1>7, <1>10, ReceiveOwing
<1> QED BY <1>2, <1>10, <1>11, BecomesOwing

LEMMA LinkLosesOwing ==
    ASSUME Sound(Dev), Owing(Dev), NEW p \in Prios, LinkLoses(p)
    PROVE  Owing(Dev)'
<1> DEFINE d == [Dev EXCEPT !.link[p] = Tail(link[p])]
<1>1. link[p] # << >> /\ Becomes(d)
  BY DevFacts DEF LinkLoses
<1>2. Tail(link[p]) \in Seq(Frame)
  BY <1>1, DevFacts
<1>3. /\ d \in DevType /\ d.ap = Dev.ap /\ d.recvq = Dev.recvq /\ d.owed = Dev.owed
      /\ d.ctl = Dev.ctl
  BY <1>2, DevFacts DEF DevType
<1> HIDE DEF d
<1>4. Owing(d)
  BY <1>3 DEF Owing
<1> QED BY <1>1, <1>3, <1>4, BecomesOwing

LEMMA ControllerOwing ==
    ASSUME HighOnly, Sound(Dev), Owing(Dev), ControllerStep PROVE Owing(Dev)'
<1>1. KeptTo \subseteq Prios
  BY DEF KeptTo
<1> QED BY <1>1, CtlNotifyOwing, CtlAnswerOwing, CtlResendOwing, CtlReceiveOwing,
           CtlGiveUpOwing, LinkLosesOwing DEF ControllerStep

LEMMA InitOwing == Init => Owing(Dev)
<1> SUFFICES ASSUME Init PROVE Owing(Dev)
  OBVIOUS
<1>1. \A p \in Prios : Dev.ap[p] = Closed /\ Dev.recvq[p] = << >> /\ Dev.ctl[p] = CtlStart
  BY DEF Init, Dev, Each
<1> QED BY <1>1 DEF Owing, Closed, CtlStart

LEMMA NextOwing ==
    ASSUME HighOnly
    PROVE  Sound(Dev) /\ Owing(Dev) /\ [Next]_vars => Owing(Dev)'
<1> SUFFICES ASSUME Sound(Dev), Owing(Dev), [Next]_vars PROVE Owing(Dev)'
  OBVIOUS
<1>1. CASE Next
  BY <1>1, ArOwing, MainOwing, WildOwing, ControllerOwing DEF Next
<1>2. CASE UNCHANGED vars
  <2>1. Dev' = Dev
    BY <1>2 DEF vars, Dev
  <2>2. Owing(Dev')
    BY <2>1
  <2> QED BY <2>2 DEF Owing, Asks
<1> QED BY <1>1, <1>2

\* Whatever is lost and repeated, and whether the AR ends or the answer finds
\* APMS at work: ALPMR waits for the application only if the application has
\* been told of an alarm it has not answered, so that ALPMR does not wait for
\* ever (pf_alarm_alpmr_apmr_a_data_ind, pf_alarm_alpmr_alarm_ack).
THEOREM AlwaysAnswered == HighOnly => (Spec => []AnsweredIsAcked)
<1> SUFFICES ASSUME HighOnly PROVE Spec => []AnsweredIsAcked
  OBVIOUS
<1>1. Init => Owing(Dev)
  BY InitOwing
<1>2. IInv /\ Owing(Dev) /\ [Next]_vars => Owing(Dev)'
  BY NextOwing DEF IInv
<1>3. Owing(Dev) => AnsweredIsAcked
  BY DEF Owing, AnsweredIsAcked, Dev
<1> QED BY <1>1, <1>2, <1>3, AlwaysIInv, PTL DEF Spec

-----------------------------------------------------------------------------
(***************************************************************************)
(* The channel of one priority, under Discipline: WaitsForAck, and that    *)
(* alarms reach the other side once each and in order.                     *)
(*                                                                         *)
(* The device and the controller run the same protocol, so it is described *)
(* for two sides x and y of a channel.  Half(x, y, F, B) says of the       *)
(* frames F from x to y, and of the acknowledgements in the frames B from  *)
(* y to x, what the alarms of x need; the invariant of the channel is      *)
(* Half in both directions.  A step of one side is a lemma about x and     *)
(* serves both.                                                            *)
(***************************************************************************)
Succ(a, b) == b = NextSeq(a) \/ (a = BeforeSeq /\ b = FirstSeq)

\* A side: the number of the frame it sends next or repeats, that frame, the
\* numbers of the frame it expects and of the one before, is its own alarm
\* under way, does its user owe an answer?
SideType == [send : SeqNo, out : Frame \cup {None}, exp : SeqNo, exp_o : SeqNo,
             waits : BOOLEAN, owes : BOOLEAN]

Repeats(x, k) == x.out # None /\ x.out.kind = k

\* What x sends, or will send next, is not accepted yet.
Fresh(x, y) == x.send = y.exp

Stands(x, y) ==
    /\ Succ(y.exp_o, y.exp)
    /\ \/ Fresh(x, y)
       \/ x.out # None /\ x.send = y.exp_o /\ y.exp = NextSeq(x.send)
    /\ x.out # None => x.out.send = x.send /\ x.out.kind \in {"notify", "answer"}

\* A frame that y would accept is the one that x repeats; when it is accepted,
\* none that follows it is taken for the next one.
InOrder(x, y, F) ==
    /\ \A i \in 1 .. Len(F) :
          F[i].kind \in DataKinds /\ F[i].send = y.exp => Fresh(x, y) /\ F[i] = x.out
    /\ \A i, j \in 1 .. Len(F) :
          /\ i < j /\ F[i].kind \in DataKinds /\ F[j].kind \in DataKinds
          /\ F[i].send = y.exp
          => F[j].send # NextSeq(y.exp)

\* What is not accepted is not acknowledged; when x has its acknowledgement,
\* none that follows it is taken for that of the next frame.
AcksInOrder(x, y, B) ==
    /\ Fresh(x, y) => \A i \in 1 .. Len(B) : B[i].ack # x.send
    /\ ~Fresh(x, y) => \A i, j \in 1 .. Len(B) :
                          i < j /\ B[i].ack = x.send => B[j].ack # NextSeq(x.send)

\* The acknowledgement in the frame y repeats may be one frame old, but no
\* older: x has then nothing more to send before it has accepted that frame.
Aged(x, y) ==
    y.out # None =>
        /\ y.out.ack = y.exp_o \/ Succ(y.out.ack, y.exp_o)
        /\ y.out.ack # y.exp_o =>
              /\ x.out # None /\ Fresh(x, y) => x.out.ack = y.send
              /\ Fresh(y, x) => x.waits /\ ~x.owes

\* An alarm of x is on its way, or with the user of y, or its answer is on its
\* way back: in one of these places exactly, while x waits.
Going(x, y) == Repeats(x, "notify") /\ Fresh(x, y)
Coming(x, y) == Repeats(y, "answer") /\ Fresh(y, x)
Turns(x, y) ==
    /\ x.waits <=> Going(x, y) \/ y.owes \/ Coming(x, y)
    /\ ~(Going(x, y) /\ y.owes) /\ ~(Going(x, y) /\ Coming(x, y)) /\ ~(y.owes /\ Coming(x, y))
    /\ Repeats(x, "notify") => x.waits
    /\ Coming(x, y) /\ Repeats(x, "notify") => y.out.ack = x.send

Half(x, y, F, B) ==
    Stands(x, y) /\ InOrder(x, y, F) /\ AcksInOrder(x, y, B) /\ Aged(x, y) /\ Turns(x, y)

Joined(x, y, F, B) == Half(x, y, F, B) /\ Half(y, x, B, F)

\* Three numbers in a row are different, from the start of a connection on.
LEMMA InARow ==
    ASSUME SeqMod > 2, NEW a \in SeqNo, NEW b \in SeqNo, Succ(a, b)
    PROVE  /\ NextSeq(b) \in SeqNo /\ Succ(b, NextSeq(b))
           /\ a # b /\ NextSeq(b) # b /\ NextSeq(b) # a
           /\ \A c \in SeqNo : Succ(c, a) => c # b
<1>1. SeqMod \in Nat /\ SeqMod > 2
  BY AlarmAssumption
<1>2. \A n \in 0 .. SeqMod - 1 : NextSeq(n) = IF n = SeqMod - 1 THEN 0 ELSE n + 1
  <2> TAKE n \in 0 .. SeqMod - 1
  <2>1. CASE n = SeqMod - 1
    BY <1>1, <2>1 DEF NextSeq
  <2>2. CASE n # SeqMod - 1
    BY <1>1, <2>2 DEF NextSeq
  <2> QED BY <2>1, <2>2
<1>3. NextSeq(FirstSeq) = 0
  <2>1. FirstSeq + 1 = 2 * SeqMod /\ (2 * SeqMod) % SeqMod = 0
    BY <1>1 DEF FirstSeq
  <2> QED BY <1>1, <2>1 DEF NextSeq
<1>4. NextSeq(BeforeSeq) = SeqMod - 1
  <2>1. BeforeSeq + 1 = SeqMod + (SeqMod - 1) /\ (SeqMod + (SeqMod - 1)) % SeqMod = SeqMod - 1
    BY <1>1 DEF BeforeSeq
  <2> QED BY <1>1, <2>1 DEF NextSeq
<1>5. FirstSeq = 2 * SeqMod - 1 /\ BeforeSeq = 2 * SeqMod - 2
  BY DEF FirstSeq, BeforeSeq
<1>6. \A n \in SeqNo : n \in 0 .. SeqMod - 1 \/ n = FirstSeq \/ n = BeforeSeq
  BY DEF SeqNo
<1>7. Succ(b, NextSeq(b)) /\ NextSeq(b) \in SeqNo
  BY NextSeqType DEF Succ
<1>8. \A m, n \in SeqNo : Succ(m, n) =>
        \/ m \in 0 .. SeqMod - 2 /\ n = m + 1
        \/ m = SeqMod - 1 /\ n = 0
        \/ m = 2 * SeqMod - 1 /\ n = 0
        \/ m = 2 * SeqMod - 2 /\ n = SeqMod - 1
        \/ m = 2 * SeqMod - 2 /\ n = 2 * SeqMod - 1
  BY <1>1, <1>2, <1>3, <1>4, <1>5, <1>6 DEF Succ
<1>9. NextSeq(b) # b
  BY <1>1, <1>2, <1>3, <1>4, <1>5, <1>6
<1>10. a # b
  BY <1>1, <1>8
<1>11. \A m, n, k \in SeqNo : Succ(m, n) /\ Succ(n, k) => m # k
  BY <1>1, <1>8
<1> QED BY <1>7, <1>9, <1>10, <1>11

LEMMA Appended ==
    ASSUME NEW F \in Seq(Frame), NEW h \in Frame
    PROVE  /\ Append(F, h) \in Seq(Frame) /\ Len(F) \in Nat /\ Len(Append(F, h)) = Len(F) + 1
           /\ \A i \in 1 .. Len(Append(F, h)) :
                 \/ i \in 1 .. Len(F) /\ Append(F, h)[i] = F[i]
                 \/ i = Len(F) + 1 /\ Append(F, h)[i] = h
<1>1. Append(F, h) \in Seq(Frame) /\ Len(F) \in Nat /\ Len(Append(F, h)) = Len(F) + 1
      /\ Append(F, h)[Len(F) + 1] = h
  OBVIOUS
<1>2. \A i \in 1 .. Len(F) : Append(F, h)[i] = F[i]
  OBVIOUS
<1> QED BY <1>1, <1>2

LEMMA Tailed ==
    ASSUME NEW F \in Seq(Frame), F # << >>
    PROVE  /\ Tail(F) \in Seq(Frame) /\ Head(F) \in Frame
           /\ Len(F) \in Nat /\ 1 \in 1 .. Len(F) /\ Head(F) = F[1]
           /\ \A i \in 1 .. Len(Tail(F)) :
                 i \in Nat /\ 1 < i + 1 /\ i + 1 \in 1 .. Len(F) /\ Tail(F)[i] = F[i + 1]
<1>1. /\ Tail(F) \in Seq(Frame) /\ Head(F) \in Frame
      /\ Len(F) \in Nat /\ 1 \in 1 .. Len(F) /\ Head(F) = F[1] /\ Len(Tail(F)) = Len(F) - 1
  OBVIOUS
<1>2. \A i \in 1 .. Len(Tail(F)) : Tail(F)[i] = F[i + 1]
  OBVIOUS
<1> QED BY <1>1, <1>2

-----------------------------------------------------------------------------
\* A frame is put on the way, or taken from it.
LEMMA AppendInOrder ==
    ASSUME NEW x \in SideType, NEW y \in SideType, NEW F \in Seq(Frame), NEW h \in Frame,
           InOrder(x, y, F),
           h.kind \in DataKinds => /\ h.send # NextSeq(y.exp)
                                   /\ h.send = y.exp => Fresh(x, y) /\ h = x.out
    PROVE  InOrder(x, y, Append(F, h))
<1> DEFINE G == Append(F, h)
<1>1. /\ Len(F) \in Nat
      /\ \A i \in 1 .. Len(G) : \/ i \in 1 .. Len(F) /\ G[i] = F[i]
                                \/ i = Len(F) + 1 /\ G[i] = h
  BY Appended
<1> HIDE DEF G
<1>2. ASSUME NEW i \in 1 .. Len(G), G[i].kind \in DataKinds, G[i].send = y.exp
      PROVE  Fresh(x, y) /\ G[i] = x.out
  BY <1>1, <1>2 DEF InOrder
<1>3. ASSUME NEW i \in 1 .. Len(G), NEW j \in 1 .. Len(G), i < j, G[i].kind \in DataKinds,
             G[j].kind \in DataKinds, G[i].send = y.exp
      PROVE  G[j].send # NextSeq(y.exp)
  <2>1. i \in 1 .. Len(F) /\ G[i] = F[i]
    BY <1>1, <1>3
  <2> QED BY <1>1, <1>3, <2>1 DEF InOrder
<1>4. InOrder(x, y, G)
  BY <1>2, <1>3 DEF InOrder
<1> QED BY <1>4 DEF G

LEMMA AppendAcks ==
    ASSUME NEW x \in SideType, NEW y \in SideType, NEW B \in Seq(Frame), NEW h \in Frame,
           AcksInOrder(x, y, B),
           Fresh(x, y) => h.ack # x.send, ~Fresh(x, y) => h.ack # NextSeq(x.send)
    PROVE  AcksInOrder(x, y, Append(B, h))
<1> DEFINE G == Append(B, h)
<1>1. /\ Len(B) \in Nat
      /\ \A i \in 1 .. Len(G) : \/ i \in 1 .. Len(B) /\ G[i] = B[i]
                                \/ i = Len(B) + 1 /\ G[i] = h
  BY Appended
<1> HIDE DEF G
<1>2. ASSUME NEW i \in 1 .. Len(G), Fresh(x, y)
      PROVE  G[i].ack # x.send
  BY <1>1, <1>2 DEF AcksInOrder
<1>3. ASSUME NEW i \in 1 .. Len(G), NEW j \in 1 .. Len(G), i < j, ~Fresh(x, y),
             G[i].ack = x.send
      PROVE  G[j].ack # NextSeq(x.send)
  <2>1. i \in 1 .. Len(B) /\ G[i] = B[i]
    BY <1>1, <1>3
  <2> QED BY <1>1, <1>3, <2>1 DEF AcksInOrder
<1>4. AcksInOrder(x, y, G)
  BY <1>2, <1>3 DEF AcksInOrder
<1> QED BY <1>4 DEF G

LEMMA TailInOrder ==
    ASSUME NEW x \in SideType, NEW y \in SideType, NEW F \in Seq(Frame), F # << >>,
           InOrder(x, y, F)
    PROVE  /\ InOrder(x, y, Tail(F))
           /\ Head(F).kind \in DataKinds /\ Head(F).send = y.exp =>
                /\ Fresh(x, y) /\ Head(F) = x.out
                /\ \A i \in 1 .. Len(Tail(F)) :
                      Tail(F)[i].kind \in DataKinds => Tail(F)[i].send # NextSeq(y.exp)
<1> DEFINE G == Tail(F)
<1>1. /\ 1 \in 1 .. Len(F) /\ Head(F) = F[1]
      /\ \A i \in 1 .. Len(G) : i \in Nat /\ 1 < i + 1 /\ i + 1 \in 1 .. Len(F) /\ G[i] = F[i + 1]
  BY Tailed
<1> HIDE DEF G
<1>2. \A i \in 1 .. Len(G) :
         G[i].kind \in DataKinds /\ G[i].send = y.exp => Fresh(x, y) /\ G[i] = x.out
  BY <1>1 DEF InOrder
<1>3. ASSUME NEW i \in 1 .. Len(G), NEW j \in 1 .. Len(G), i < j, G[i].kind \in DataKinds,
             G[j].kind \in DataKinds, G[i].send = y.exp
      PROVE  G[j].send # NextSeq(y.exp)
  <2>1. i + 1 < j + 1
    BY <1>1, <1>3
  <2>2. i + 1 \in 1 .. Len(F) /\ j + 1 \in 1 .. Len(F) /\ G[i] = F[i + 1] /\ G[j] = F[j + 1]
    BY <1>1
  <2> QED BY <1>3, <2>1, <2>2 DEF InOrder
<1>4. InOrder(x, y, G)
  BY <1>2, <1>3 DEF InOrder
<1>5. ASSUME F[1].kind \in DataKinds, F[1].send = y.exp
      PROVE  /\ Fresh(x, y) /\ F[1] = x.out
             /\ \A i \in 1 .. Len(G) : G[i].kind \in DataKinds => G[i].send # NextSeq(y.exp)
  BY <1>1, <1>5 DEF InOrder
<1> QED BY <1>1, <1>4, <1>5 DEF G

LEMMA TailAcks ==
    ASSUME NEW x \in SideType, NEW y \in SideType, NEW B \in Seq(Frame), B # << >>,
           AcksInOrder(x, y, B)
    PROVE  /\ AcksInOrder(x, y, Tail(B))
           /\ Fresh(x, y) => Head(B).ack # x.send
           /\ ~Fresh(x, y) /\ Head(B).ack = x.send =>
                \A i \in 1 .. Len(Tail(B)) : Tail(B)[i].ack # NextSeq(x.send)
<1> DEFINE G == Tail(B)
<1>1. /\ 1 \in 1 .. Len(B) /\ Head(B) = B[1]
      /\ \A i \in 1 .. Len(G) : i \in Nat /\ 1 < i + 1 /\ i + 1 \in 1 .. Len(B) /\ G[i] = B[i + 1]
  BY Tailed
<1> HIDE DEF G
<1>2. Fresh(x, y) => \A i \in 1 .. Len(G) : G[i].ack # x.send
  BY <1>1 DEF AcksInOrder
<1>3. ASSUME ~Fresh(x, y), NEW i \in 1 .. Len(G), NEW j \in 1 .. Len(G), i < j,
             G[i].ack = x.send
      PROVE  G[j].ack # NextSeq(x.send)
  <2>1. i + 1 < j + 1
    BY <1>1, <1>3
  <2>2. i + 1 \in 1 .. Len(B) /\ j + 1 \in 1 .. Len(B) /\ G[i] = B[i + 1] /\ G[j] = B[j + 1]
    BY <1>1
  <2> QED BY <1>3, <2>1, <2>2 DEF AcksInOrder
<1>4. AcksInOrder(x, y, G)
  BY <1>2, <1>3 DEF AcksInOrder
<1>5. Fresh(x, y) => B[1].ack # x.send
  BY <1>1 DEF AcksInOrder
<1>6. ~Fresh(x, y) /\ B[1].ack = x.send =>
         \A i \in 1 .. Len(G) : G[i].ack # NextSeq(x.send)
  BY <1>1 DEF AcksInOrder
<1> QED BY <1>1, <1>4, <1>5, <1>6 DEF G

\* What an acknowledgement under way or repeated cannot be.
LEMMA AckBounds ==
    ASSUME SeqMod > 2, NEW x \in SideType, NEW y \in SideType, Stands(x, y), Aged(x, y)
    PROVE  /\ y.exp_o # y.exp /\ NextSeq(y.exp) # y.exp /\ NextSeq(y.exp) # y.exp_o
           /\ NextSeq(y.exp) \in SeqNo /\ Succ(y.exp, NextSeq(y.exp))
           /\ y.out # None => y.out.ack # y.exp
           /\ ~Fresh(x, y) => x.out # None /\ x.send = y.exp_o /\ NextSeq(x.send) = y.exp
<1>1. y.exp \in SeqNo /\ y.exp_o \in SeqNo /\ Succ(y.exp_o, y.exp)
  BY DEF SideType, Stands
<1>2. y.out # None => y.out.ack \in SeqNo
  BY DEF SideType, Frame
<1>3. y.out # None => y.out.ack # y.exp
  BY <1>1, <1>2, InARow DEF Aged
<1> QED BY <1>1, <1>3, InARow DEF Stands

\* Steps that change what is under way only.
LEMMA JoinedLoses ==
    ASSUME NEW x \in SideType, NEW y \in SideType, NEW F \in Seq(Frame), NEW B \in Seq(Frame),
           B # << >>, Joined(x, y, F, B)
    PROVE  Joined(x, y, F, Tail(B))
BY TailInOrder, TailAcks DEF Joined, Half

\* x repeats its frame.
LEMMA JoinedResends ==
    ASSUME SeqMod > 2, NEW x \in SideType, NEW y \in SideType, NEW F \in Seq(Frame),
           NEW B \in Seq(Frame), x.out # None, Joined(x, y, F, B)
    PROVE  Joined(x, y, Append(F, x.out), B)
<1>1. /\ y.exp_o # y.exp /\ NextSeq(y.exp) # y.exp /\ NextSeq(y.exp) # y.exp_o
      /\ ~Fresh(x, y) => x.send = y.exp_o
  BY AckBounds DEF Joined, Half
<1>2. x.out.ack # x.exp /\ (~Fresh(y, x) => NextSeq(y.send) = x.exp)
  BY AckBounds DEF Joined, Half
<1>3. x.out \in Frame /\ x.out.send = x.send
  BY DEF SideType, Joined, Half, Stands
<1>4. InOrder(x, y, Append(F, x.out))
  <2>1. x.out.send # NextSeq(y.exp) /\ (x.out.send = y.exp => Fresh(x, y))
    BY <1>1, <1>3 DEF Fresh
  <2> QED BY <1>3, <2>1, AppendInOrder DEF Joined, Half
<1>5. AcksInOrder(y, x, Append(F, x.out))
  <2>1. Fresh(y, x) => x.out.ack # y.send
    BY <1>2 DEF Fresh
  <2> QED BY <1>2, <1>3, <2>1, AppendAcks DEF Joined, Half
<1> QED BY <1>4, <1>5 DEF Joined, Half

\* x acknowledges without sending, or repeats its frame as something that is
\* no DATA frame.
LEMMA JoinedReplies ==
    ASSUME SeqMod > 2, NEW x \in SideType, NEW y \in SideType, NEW F \in Seq(Frame),
           NEW B \in Seq(Frame), Joined(x, y, F, B), NEW h \in Frame,
           h.kind \notin DataKinds,
           h.ack = x.exp_o \/ (x.out # None /\ h.ack = x.out.ack)
    PROVE  Joined(x, y, Append(F, h), B)
<1>1. /\ x.exp_o # x.exp /\ (x.out # None => x.out.ack # x.exp)
      /\ ~Fresh(y, x) => NextSeq(y.send) = x.exp
  BY AckBounds DEF Joined, Half
<1>2. AcksInOrder(y, x, Append(F, h))
  <2>1. Fresh(y, x) => h.ack # y.send
    BY <1>1 DEF Fresh
  <2>2. ~Fresh(y, x) => h.ack # NextSeq(y.send)
    BY <1>1
  <2> QED BY <2>1, <2>2, AppendAcks DEF Joined, Half
<1>3. InOrder(x, y, Append(F, h))
  BY AppendInOrder DEF Joined, Half
<1> QED BY <1>2, <1>3 DEF Joined, Half

\* x sends an alarm.
LEMMA JoinedNotifies ==
    ASSUME SeqMod > 2, NEW x \in SideType, NEW y \in SideType, NEW F \in Seq(Frame),
           NEW B \in Seq(Frame), Joined(x, y, F, B), x.out = None, ~x.waits,
           NEW f \in Frame, f.kind = "notify", f.send = x.send, f.ack = x.exp_o,
           NEW z \in SideType, z.out = f, z.waits,
           z.send = x.send, z.exp = x.exp, z.exp_o = x.exp_o, z.owes = x.owes
    PROVE  Joined(z, y, F, B)
<1>1. f # None /\ y.exp_o # y.exp /\ x.exp_o # x.exp /\ Fresh(x, y) /\ Fresh(z, y)
      /\ (~Fresh(y, x) => y.out # None /\ y.send = x.exp_o)
  BY AckBounds, FrameAssumption DEF Joined, Half, Fresh
<1>2. Repeats(z, "notify") /\ ~Repeats(z, "answer") /\ ~Repeats(x, "notify") /\ ~Repeats(x, "answer")
  BY <1>1 DEF Repeats
<1>3. Half(z, y, F, B)
  <2>1. Stands(z, y)
    BY <1>1 DEF Joined, Half, Stands
  <2>2. InOrder(z, y, F)
    <3>1. \A i \in 1 .. Len(F) : F[i] \in Frame
      OBVIOUS
    <3>2. \A i \in 1 .. Len(F) : ~(F[i].kind \in DataKinds /\ F[i].send = y.exp)
      BY <3>1, FrameAssumption DEF Joined, Half, InOrder
    <3> QED BY <3>2 DEF InOrder
  <2>3. AcksInOrder(z, y, B)
    BY <1>1 DEF Joined, Half, AcksInOrder
  <2>4. Aged(z, y)
    <3>1. Fresh(y, x) <=> Fresh(y, z)
      BY DEF Fresh
    <3> QED BY <1>1, <3>1 DEF Joined, Half, Aged
  <2>5. Turns(z, y)
    <3>1. ~y.owes /\ ~Coming(x, y) /\ ~Coming(z, y)
      BY DEF Joined, Half, Turns, Coming, Fresh
    <3> QED BY <1>1, <1>2, <3>1 DEF Turns, Going
  <2> QED BY <2>1, <2>2, <2>3, <2>4, <2>5 DEF Half
<1>4. Half(y, z, B, F)
  <2>1. Stands(y, z) /\ InOrder(y, z, B) /\ AcksInOrder(y, z, F)
    BY DEF Joined, Half, Stands, InOrder, AcksInOrder, Fresh
  <2>2. Aged(y, z)
    BY DEF Aged
  <2>3. Turns(y, z)
    <3>1. ~Coming(y, x) /\ ~Coming(y, z) /\ (Going(y, x) <=> Going(y, z))
      BY <1>2 DEF Coming, Going, Fresh
    <3> QED BY <3>1 DEF Joined, Half, Turns
  <2> QED BY <2>1, <2>2, <2>3 DEF Half
<1> QED BY <1>3, <1>4 DEF Joined

\* The user of x answers the alarm of y.
LEMMA JoinedAnswers ==
    ASSUME SeqMod > 2, NEW x \in SideType, NEW y \in SideType, NEW F \in Seq(Frame),
           NEW B \in Seq(Frame), Joined(x, y, F, B), x.out = None, x.owes,
           NEW f \in Frame, f.kind = "answer", f.send = x.send, f.ack = x.exp_o,
           NEW z \in SideType, z.out = f, ~z.owes,
           z.send = x.send, z.exp = x.exp, z.exp_o = x.exp_o, z.waits = x.waits
    PROVE  Joined(z, y, F, B)
<1>1. f # None /\ y.exp_o # y.exp /\ x.exp_o # x.exp /\ Fresh(x, y) /\ Fresh(z, y)
      /\ (~Fresh(y, x) => y.out # None /\ y.send = x.exp_o)
  BY AckBounds, FrameAssumption DEF Joined, Half, Fresh
<1>2. Repeats(z, "answer") /\ ~Repeats(z, "notify") /\ ~Repeats(x, "notify") /\ ~Repeats(x, "answer")
  BY <1>1 DEF Repeats
<1>3. Half(z, y, F, B)
  <2>1. Stands(z, y)
    BY <1>1 DEF Joined, Half, Stands
  <2>2. InOrder(z, y, F)
    <3>1. \A i \in 1 .. Len(F) : F[i] \in Frame
      OBVIOUS
    <3>2. \A i \in 1 .. Len(F) : ~(F[i].kind \in DataKinds /\ F[i].send = y.exp)
      BY <3>1, FrameAssumption DEF Joined, Half, InOrder
    <3> QED BY <3>2 DEF InOrder
  <2>3. AcksInOrder(z, y, B)
    BY <1>1 DEF Joined, Half, AcksInOrder
  <2>4. Aged(z, y)
    <3>1. Fresh(y, x) <=> Fresh(y, z)
      BY DEF Fresh
    <3> QED BY <1>1, <3>1 DEF Joined, Half, Aged
  <2>5. Turns(z, y)
    <3>1. (Coming(x, y) <=> Coming(z, y)) /\ ~Going(x, y) /\ ~Going(z, y)
      BY <1>2 DEF Coming, Going, Fresh
    <3> QED BY <1>2, <3>1 DEF Joined, Half, Turns
  <2> QED BY <2>1, <2>2, <2>3, <2>4, <2>5 DEF Half
<1>4. Half(y, z, B, F)
  <2>1. Stands(y, z) /\ InOrder(y, z, B) /\ AcksInOrder(y, z, F)
    BY DEF Joined, Half, Stands, InOrder, AcksInOrder, Fresh
  <2>2. Aged(y, z)
    BY DEF Aged
  <2>3. Turns(y, z)
    <3>1. ~Coming(y, x) /\ Coming(y, z) /\ (Going(y, x) <=> Going(y, z))
      BY <1>1, <1>2 DEF Coming, Going, Fresh
    <3>2. Repeats(y, "notify") => f.ack = y.send
      <4>1. Fresh(y, x) => ~Repeats(y, "notify")
        BY DEF Joined, Half, Turns, Going
      <4> QED BY <1>1, <4>1
    <3> QED BY <3>1, <3>2 DEF Joined, Half, Turns
  <2> QED BY <2>1, <2>2, <2>3 DEF Half
<1> QED BY <1>3, <1>4 DEF Joined

\* x takes the acknowledgement of its frame: nothing that follows is taken for
\* that of the next one.
LEMMA JoinedAcked ==
    ASSUME SeqMod > 2, NEW x \in SideType, NEW y \in SideType, NEW F \in Seq(Frame),
           NEW B \in Seq(Frame), Joined(x, y, F, B), x.out # None, ~Fresh(x, y),
           \A i \in 1 .. Len(B) : B[i].ack # NextSeq(x.send),
           NEW z \in SideType, z.out = None, z.send = NextSeq(x.send),
           z.exp = x.exp, z.exp_o = x.exp_o, z.owes = x.owes, z.waits = x.waits
    PROVE  Joined(z, y, F, B) /\ Fresh(z, y)
<1>1. x.send = y.exp_o /\ NextSeq(x.send) = y.exp /\ Fresh(z, y)
  BY AckBounds DEF Joined, Half, Fresh
<1>2. /\ ~Repeats(z, "notify") /\ ~Repeats(z, "answer")
      /\ ~Going(x, y) /\ ~Going(z, y) /\ ~Coming(y, x) /\ ~Coming(y, z)
      /\ (Coming(x, y) <=> Coming(z, y)) /\ (Going(y, x) <=> Going(y, z))
  BY DEF Repeats, Going, Coming, Fresh
<1>3. Half(z, y, F, B)
  <2>1. Stands(z, y)
    BY <1>1 DEF Joined, Half, Stands
  <2>2. InOrder(z, y, F)
    BY DEF Joined, Half, InOrder
  <2>3. AcksInOrder(z, y, B)
    BY <1>1 DEF AcksInOrder
  <2>4. Aged(z, y)
    <3>1. Fresh(y, x) <=> Fresh(y, z)
      BY DEF Fresh
    <3> QED BY <3>1 DEF Joined, Half, Aged
  <2>5. Turns(z, y)
    BY <1>2 DEF Joined, Half, Turns
  <2> QED BY <2>1, <2>2, <2>3, <2>4, <2>5 DEF Half
<1>4. Half(y, z, B, F)
  <2>1. Stands(y, z) /\ InOrder(y, z, B) /\ AcksInOrder(y, z, F)
    BY DEF Joined, Half, Stands, InOrder, AcksInOrder, Fresh
  <2>2. Aged(y, z)
    BY DEF Aged
  <2>3. Turns(y, z)
    BY <1>2 DEF Joined, Half, Turns
  <2> QED BY <2>1, <2>2, <2>3 DEF Half
<1> QED BY <1>1, <1>3, <1>4 DEF Joined

\* x accepts the frame of y; if that acknowledges the frame of x, it is done.
LEMMA JoinedAccepts ==
    ASSUME SeqMod > 2, NEW x \in SideType, NEW y \in SideType, NEW F \in Seq(Frame),
           NEW B \in Seq(Frame), Joined(x, y, F, B), y.out # None, Fresh(y, x),
           \A i \in 1 .. Len(B) : B[i].kind \in DataKinds => B[i].send # NextSeq(x.exp),
           x.out # None => y.out.ack # x.send,
           NEW z \in SideType, z.exp = NextSeq(x.exp), z.exp_o = x.exp,
           z.send = x.send, z.out = x.out,
           z.owes = (x.owes \/ y.out.kind = "notify"),
           z.waits = (x.waits /\ y.out.kind = "notify")
    PROVE  Joined(z, y, F, B)
<1>1. /\ x.exp_o # x.exp /\ NextSeq(x.exp) # x.exp /\ NextSeq(x.exp) # x.exp_o
      /\ Succ(x.exp, NextSeq(x.exp)) /\ y.send = x.exp /\ Succ(x.exp_o, x.exp)
      /\ ~Fresh(y, z)
      /\ (Fresh(x, y) <=> Fresh(z, y))
  BY AckBounds DEF Joined, Half, Fresh, Stands
<1>2. y.out.kind \in {"notify", "answer"}
  BY DEF Joined, Half, Stands
<1>3. x.out # None => x.out.ack = x.exp_o
  BY DEF Joined, Half, Aged
<1>4. /\ y.out.kind = "notify" => Going(y, x) /\ ~Coming(x, y)
      /\ y.out.kind = "answer" => Coming(x, y) /\ ~Going(y, x)
  BY DEF Going, Coming, Repeats
<1>5. /\ ~Coming(z, y) /\ ~Going(y, z) /\ (Going(z, y) <=> Going(x, y))
      /\ (Coming(y, z) <=> Coming(y, x))
  BY <1>1 DEF Going, Coming, Repeats
<1>6. Half(z, y, F, B)
  <2>1. Stands(z, y) /\ InOrder(z, y, F) /\ AcksInOrder(z, y, B)
    BY DEF Joined, Half, Stands, InOrder, AcksInOrder, Fresh
  <2>2. Aged(z, y)
    BY <1>1 DEF Joined, Half, Aged
  <2>3. Turns(z, y)
    <3>1. CASE y.out.kind = "notify"
      <4>1. z.waits = x.waits /\ ~Coming(x, y)
        BY <1>4, <3>1 DEF SideType
      <4> QED BY <1>5, <4>1 DEF Joined, Half, Turns, Repeats
    <3>2. CASE y.out.kind = "answer"
      <4>1. Coming(x, y) /\ ~z.waits
        BY <1>4, <3>2
      <4>2. ~Going(x, y) /\ ~y.owes /\ ~Repeats(x, "notify")
        BY <4>1 DEF Joined, Half, Turns, Repeats
      <4> QED BY <1>5, <4>1, <4>2 DEF Turns, Repeats
    <3> QED BY <1>2, <3>1, <3>2
  <2> QED BY <2>1, <2>2, <2>3 DEF Half
<1>7. Half(y, z, B, F)
  <2>1. Stands(y, z)
    BY <1>1 DEF Joined, Half, Stands
  <2>2. InOrder(y, z, B)
    BY DEF InOrder
  <2>3. AcksInOrder(y, z, F)
    <3>1. \A i \in 1 .. Len(F) : F[i].ack # y.send
      BY DEF Joined, Half, AcksInOrder
    <3> QED BY <1>1, <3>1 DEF AcksInOrder
  <2>4. Aged(y, z)
    <3> SUFFICES ASSUME x.out # None
                 PROVE  /\ Succ(x.out.ack, z.exp_o)
                        /\ Fresh(x, y) => y.waits /\ ~y.owes
      BY <1>1 DEF Aged
    <3>1. Succ(x.out.ack, z.exp_o)
      BY <1>1, <1>3
    <3>2. x.out.kind \in {"notify", "answer"}
      BY DEF Joined, Half, Stands
    <3>3. ASSUME Fresh(x, y) PROVE y.waits /\ ~y.owes
      <4>1. Going(x, y) \/ Coming(y, x)
        BY <3>2, <3>3 DEF Going, Coming, Repeats
      <4> QED BY <1>2, <1>4, <4>1 DEF Joined, Half, Turns
    <3> QED BY <3>1, <3>3
  <2>5. Turns(y, z)
    <3>1. CASE y.out.kind = "notify"
      <4>1. z.owes /\ Going(y, x)
        BY <1>4, <3>1
      <4> QED BY <1>5, <4>1 DEF Joined, Half, Turns, Repeats
    <3>2. CASE y.out.kind = "answer"
      <4>1. z.owes = x.owes /\ ~Going(y, x)
        BY <1>4, <3>2 DEF SideType
      <4> QED BY <1>5, <4>1 DEF Joined, Half, Turns, Repeats
    <3> QED BY <1>2, <3>1, <3>2
  <2> QED BY <2>1, <2>2, <2>3, <2>4, <2>5 DEF Half
<1> QED BY <1>6, <1>7 DEF Joined

-----------------------------------------------------------------------------
(***************************************************************************)
(* The two sides of a priority, and what its users see of its alarms.      *)
(***************************************************************************)
DevSide(m) ==
    [send |-> m.send, out |-> m.rta, exp |-> m.exp, exp_o |-> m.exp_o,
     waits |-> m.alpmi = "W_ACK", owes |-> m.alpmr = "W_USER_ACK"]
CtlSide(c) ==
    [send |-> c.send, out |-> c.out, exp |-> c.exp, exp_o |-> c.exp_o,
     waits |-> c.alpmi = "W_ACK", owes |-> c.got # None]

\* All there is of one priority.
At(d, p) == [m |-> d.ap[p], c |-> d.ctl[p], F |-> d.link[p], B |-> d.recvq[p],
             q |-> d.sendq[p], o |-> d.owed[p]]
AtType == [m : Machines, c : Controllers, F : Seq(Frame), B : Seq(Frame),
           q : Seq(Alarms), o : Alarms \cup {None}]

ToCtl(s) == Going(DevSide(s.m), CtlSide(s.c))
ToDev(s) == Going(CtlSide(s.c), DevSide(s.m))

\* The invariant of a priority of an AR that is up.
Good(p, s) ==
    /\ Joined(DevSide(s.m), CtlSide(s.c), s.F, s.B)
    /\ s.m.apms = IF s.m.rta = None THEN "OPEN" ELSE "WTACK"
    /\ s.m.apmr = "OPEN" /\ s.m.alpmi # "W_START" /\ s.m.alpmr # "W_START"
    /\ s.m.alpmr = "W_TACK" <=> Repeats(DevSide(s.m), "answer")
    /\ s.m.alpmr = "W_USER_ACK" <=> s.o # None
    /\ Repeats(DevSide(s.m), "notify") => s.m.rta.alarm # None
    /\ s.m.alpmi = "W_ACK" /\ ~ToCtl(s) => s.c.last # None
    /\ s.c.alpmi = "W_ACK" => s.c.asked # None
    /\ Repeats(CtlSide(s.c), "notify") => s.c.out.alarm = s.c.asked
    /\ p = Low => s.c.alpmi = "W_ALARM"

\* The state of AlarmService, for the alarms of the device and the controller.
DevView(s) ==
    [queue |-> (IF ToCtl(s) THEN <<s.m.rta.alarm>> ELSE << >>) \o s.q,
     current |-> IF s.m.alpmi = "W_ACK" /\ ~ToCtl(s) THEN s.c.last ELSE None,
     answered |-> s.m.alpmi = "W_ACK" /\ ~ToCtl(s) /\ s.c.got = None]
CtlView(s) ==
    [queue |-> IF ToDev(s) THEN <<s.c.out.alarm>> ELSE << >>,
     current |-> IF s.c.alpmi = "W_ACK" /\ ~ToDev(s) THEN s.c.asked ELSE None,
     answered |-> s.c.alpmi = "W_ACK" /\ ~ToDev(s) /\ s.o = None]

\* A step of AlarmService, or none.
Serves(v, w) ==
    \/ w = v
    \/ /\ \E a \in Alarms : w.queue = Append(v.queue, a)
       /\ w.current = v.current /\ w.answered = v.answered
    \/ /\ v.queue # << >> /\ v.current = None
       /\ w.current = Head(v.queue) /\ w.queue = Tail(v.queue) /\ w.answered = v.answered
    \/ /\ v.current # None /\ ~v.answered /\ w.answered
       /\ w.queue = v.queue /\ w.current = v.current
    \/ v.answered /\ w.current = None /\ ~w.answered /\ w.queue = v.queue
    \/ w.queue = << >> /\ w.current = None /\ ~w.answered

Serving(s, t) == Serves(DevView(s), DevView(t)) /\ Serves(CtlView(s), CtlView(t))
Same(s, t) == DevView(t) = DevView(s) /\ CtlView(t) = CtlView(s)

LEMMA SidesFacts ==
    ASSUME NEW s \in AtType
    PROVE  /\ s.m \in Machines /\ s.c \in Controllers /\ s.F \in Seq(Frame) /\ s.B \in Seq(Frame)
           /\ DevSide(s.m) \in SideType /\ CtlSide(s.c) \in SideType
<1>1. s.m \in Machines /\ s.c \in Controllers /\ s.F \in Seq(Frame) /\ s.B \in Seq(Frame)
  BY DEF AtType
<1>2. DevSide(s.m) \in SideType
  BY <1>1 DEF DevSide, SideType, Machines
<1>3. CtlSide(s.c) \in SideType
  BY <1>1 DEF CtlSide, SideType, Controllers
<1> QED BY <1>1, <1>2, <1>3

LEMMA SideFields ==
    ASSUME NEW m, NEW c
    PROVE  /\ DevSide(m).send = m.send /\ DevSide(m).out = m.rta
           /\ DevSide(m).exp = m.exp /\ DevSide(m).exp_o = m.exp_o
           /\ DevSide(m).waits = (m.alpmi = "W_ACK")
           /\ DevSide(m).owes = (m.alpmr = "W_USER_ACK")
           /\ CtlSide(c).send = c.send /\ CtlSide(c).out = c.out
           /\ CtlSide(c).exp = c.exp /\ CtlSide(c).exp_o = c.exp_o
           /\ CtlSide(c).waits = (c.alpmi = "W_ACK") /\ CtlSide(c).owes = (c.got # None)
BY DEF DevSide, CtlSide

\* What is on the way changes, and how often a frame is still repeated.
LEMMA GoodAsWell ==
    ASSUME NEW p \in Prios, NEW s \in AtType, NEW t \in AtType, Good(p, s),
           DevSide(t.m) = DevSide(s.m), CtlSide(t.c) = CtlSide(s.c),
           t.m.apms = s.m.apms, t.m.apmr = s.m.apmr, t.m.alpmi = s.m.alpmi,
           t.m.alpmr = s.m.alpmr, t.c.alpmi = s.c.alpmi, t.c.asked = s.c.asked,
           t.c.last = s.c.last, t.q = s.q, t.o = s.o,
           Joined(DevSide(s.m), CtlSide(s.c), t.F, t.B)
    PROVE  Good(p, t) /\ Same(s, t)
<1>1. t.m.rta = s.m.rta /\ t.c.out = s.c.out /\ (t.c.got = None <=> s.c.got = None)
  BY SideFields
<1>2. (ToCtl(t) <=> ToCtl(s)) /\ (ToDev(t) <=> ToDev(s))
  BY DEF ToCtl, ToDev
<1>3. Good(p, t)
  BY <1>1, <1>2 DEF Good
<1>4. Same(s, t)
  BY <1>1, <1>2 DEF Same, DevView, CtlView
<1> QED BY <1>3, <1>4

\* APMS gets its acknowledgement.
LEMMA GoodAcked ==
    ASSUME SeqMod > 2, NEW p \in Prios, NEW s \in AtType, NEW t \in AtType, Good(p, s),
           s.m.rta # None, s.m.send # s.c.exp,
           \A i \in 1 .. Len(s.B) : s.B[i].ack # NextSeq(s.m.send),
           t.m = Acknowledged(s.m), t.c = s.c, t.F = s.F, t.B = s.B, t.q = s.q, t.o = s.o
    PROVE  Good(p, t) /\ Same(s, t) /\ t.m.rta = None
<1> DEFINE x == DevSide(s.m)
           y == CtlSide(s.c)
           z == DevSide(t.m)
<1>1. /\ x \in SideType /\ y \in SideType /\ z \in SideType /\ s.m \in Machines
      /\ s.F \in Seq(Frame) /\ s.B \in Seq(Frame) /\ y = CtlSide(t.c)
  BY SidesFacts
<1>2. /\ t.m.rta = None /\ t.m.send = NextSeq(s.m.send) /\ t.m.exp = s.m.exp
      /\ t.m.exp_o = s.m.exp_o /\ t.m.alpmi = s.m.alpmi /\ t.m.apms = "OPEN"
      /\ t.m.apmr = s.m.apmr
      /\ t.m.alpmr = IF s.m.alpmr = "W_TACK" THEN "W_NOTIFY" ELSE s.m.alpmr
  BY <1>1 DEF Acknowledged, Machines
<1>3. /\ x.out # None /\ ~Fresh(x, y) /\ z.out = None /\ z.send = NextSeq(x.send)
      /\ z.exp = x.exp /\ z.exp_o = x.exp_o /\ z.waits = x.waits /\ x.send = s.m.send
      /\ (z.owes <=> x.owes)
  <2>1. /\ x.out = s.m.rta /\ x.send = s.m.send /\ y.exp = s.c.exp
        /\ x.exp = s.m.exp /\ x.exp_o = s.m.exp_o
        /\ z.out = t.m.rta /\ z.send = t.m.send /\ z.exp = t.m.exp /\ z.exp_o = t.m.exp_o
    BY DEF DevSide, CtlSide
  <2>2. x.waits = (s.m.alpmi = "W_ACK") /\ z.waits = (t.m.alpmi = "W_ACK")
    BY DEF DevSide
  <2>3. (x.owes <=> s.m.alpmr = "W_USER_ACK") /\ (z.owes <=> t.m.alpmr = "W_USER_ACK")
    BY DEF DevSide
  <2> HIDE DEF x, y, z
  <2>4. z.owes <=> x.owes
    BY <1>2, <2>3
  <2>5. z.waits = x.waits
    BY <1>2, <2>2
  <2> QED BY <1>2, <2>1, <2>4, <2>5 DEF Fresh
<1>4. z.owes = x.owes
  BY <1>1, <1>3 DEF SideType
<1>5. Joined(x, y, s.F, s.B)
  BY DEF Good
<1> HIDE DEF x, y, z
<1>6. Joined(z, y, s.F, s.B)
  BY <1>1, <1>3, <1>4, <1>5, JoinedAcked
<1>7. /\ ~ToCtl(s) /\ ~ToCtl(t) /\ (ToDev(t) <=> ToDev(s))
      /\ ~Repeats(z, "notify") /\ ~Repeats(z, "answer")
  BY <1>1, <1>3 DEF ToCtl, ToDev, Going, Fresh, Repeats, x, y, z
<1>8. Good(p, t)
  BY <1>2, <1>6, <1>7, <1>1 DEF Good, x, y, z
<1>9. Same(s, t)
  BY <1>2, <1>7 DEF Same, DevView, CtlView
<1> QED BY <1>2, <1>8, <1>9

\* The controller gets its acknowledgement.
LEMMA GoodCtlAcked ==
    ASSUME SeqMod > 2, NEW p \in Prios, NEW s \in AtType, NEW t \in AtType, Good(p, s),
           s.c.out # None, s.c.send # s.m.exp,
           \A i \in 1 .. Len(s.F) : s.F[i].ack # NextSeq(s.c.send),
           t.c = [s.c EXCEPT !.out = None, !.send = NextSeq(s.c.send)],
           t.m = s.m, t.F = s.F, t.B = s.B, t.q = s.q, t.o = s.o
    PROVE  Good(p, t) /\ Same(s, t) /\ t.c.out = None
<1> DEFINE x == CtlSide(s.c)
           y == DevSide(s.m)
           z == CtlSide(t.c)
<1>1. /\ x \in SideType /\ y \in SideType /\ z \in SideType /\ s.c \in Controllers
      /\ s.F \in Seq(Frame) /\ s.B \in Seq(Frame) /\ y = DevSide(t.m)
  BY SidesFacts
<1>2. /\ t.c.out = None /\ t.c.send = NextSeq(s.c.send) /\ t.c.exp = s.c.exp
      /\ t.c.exp_o = s.c.exp_o /\ t.c.alpmi = s.c.alpmi /\ t.c.asked = s.c.asked
      /\ t.c.got = s.c.got /\ t.c.last = s.c.last
  BY <1>1 DEF Controllers
<1>3. /\ x.out # None /\ ~Fresh(x, y) /\ z.out = None /\ z.send = NextSeq(x.send)
      /\ z.exp = x.exp /\ z.exp_o = x.exp_o /\ z.waits = x.waits /\ x.send = s.c.send
      /\ z.owes = x.owes
  <2>1. /\ x.out = s.c.out /\ x.send = s.c.send /\ y.exp = s.m.exp
        /\ x.exp = s.c.exp /\ x.exp_o = s.c.exp_o
        /\ z.out = t.c.out /\ z.send = t.c.send /\ z.exp = t.c.exp /\ z.exp_o = t.c.exp_o
    BY DEF DevSide, CtlSide
  <2>2. /\ x.waits = (s.c.alpmi = "W_ACK") /\ z.waits = (t.c.alpmi = "W_ACK")
        /\ x.owes = (s.c.got # None) /\ z.owes = (t.c.got # None)
    BY DEF CtlSide
  <2> HIDE DEF x, y, z
  <2> QED BY <1>2, <2>1, <2>2 DEF Fresh
<1>4. Joined(x, y, s.B, s.F)
  BY DEF Good, Joined
<1> HIDE DEF x, y, z
<1>5. Joined(z, y, s.B, s.F)
  BY <1>1, <1>3, <1>4, JoinedAcked
<1>6. /\ ~ToDev(s) /\ ~ToDev(t) /\ (ToCtl(t) <=> ToCtl(s)) /\ ~Repeats(z, "notify")
  BY <1>1, <1>3 DEF ToCtl, ToDev, Going, Fresh, Repeats, x, y, z
<1>7. Joined(y, z, s.F, s.B)
  BY <1>5 DEF Joined
<1>8. Good(p, t)
  BY <1>2, <1>6, <1>7, <1>1 DEF Good, x, y, z
<1>9. Same(s, t)
  BY <1>2, <1>6 DEF Same, DevView, CtlView
<1> QED BY <1>2, <1>8, <1>9

LEMMA DevFields ==
    ASSUME NEW m \in Machines
    PROVE  /\ DevSide(m) \in SideType
           /\ DevSide(m).send = m.send /\ DevSide(m).out = m.rta
           /\ DevSide(m).exp = m.exp /\ DevSide(m).exp_o = m.exp_o
           /\ DevSide(m).waits <=> m.alpmi = "W_ACK"
           /\ DevSide(m).owes <=> m.alpmr = "W_USER_ACK"
BY DEF DevSide, SideType, Machines

LEMMA CtlFields ==
    ASSUME NEW c \in Controllers
    PROVE  /\ CtlSide(c) \in SideType
           /\ CtlSide(c).send = c.send /\ CtlSide(c).out = c.out
           /\ CtlSide(c).exp = c.exp /\ CtlSide(c).exp_o = c.exp_o
           /\ CtlSide(c).waits <=> c.alpmi = "W_ACK"
           /\ CtlSide(c).owes <=> c.got # None
BY DEF CtlSide, SideType, Controllers

LEMMA JoinedTurns ==
    ASSUME NEW x, NEW y, NEW F, NEW B, Joined(x, y, F, B)
    PROVE  /\ Joined(y, x, B, F) /\ Turns(x, y) /\ Turns(y, x)
           /\ x.out = None => Fresh(x, y)
           /\ y.out = None => Fresh(y, x)
BY DEF Joined, Half, Stands

\* ALPMI sends the alarm at the head of the queue.
LEMMA GoodNotifies ==
    ASSUME SeqMod > 2, NEW p \in Prios, NEW s \in AtType, NEW t \in AtType, Good(p, s),
           s.m.rta = None, s.m.alpmi = "W_ALARM", s.q # << >>,
           NEW f \in Frame, f.kind = "notify", f.alarm = Head(s.q),
           f.send = s.m.send, f.ack = s.m.exp_o,
           t.m.rta = f, t.m.apms = "WTACK", t.m.alpmi = "W_ACK", t.m.send = s.m.send,
           t.m.exp = s.m.exp, t.m.exp_o = s.m.exp_o, t.m.apmr = s.m.apmr, t.m.alpmr = s.m.alpmr,
           t.c = s.c, t.F \in {s.F, Append(s.F, f)}, t.B = s.B, t.q = Tail(s.q), t.o = s.o
    PROVE  Good(p, t) /\ Same(s, t)
<1> DEFINE x == DevSide(s.m)
           y == CtlSide(s.c)
           z == DevSide(t.m)
<1>1. /\ x \in SideType /\ y \in SideType /\ z \in SideType /\ s.m \in Machines /\ t.m \in Machines
      /\ s.F \in Seq(Frame) /\ s.B \in Seq(Frame) /\ y = CtlSide(t.c)
  BY SidesFacts
<1>3. f # None /\ f.alarm \in Alarms /\ f.alarm # None
  BY FrameAssumption, AlarmAssumption DEF AtType
<1>13. /\ x.send = s.m.send /\ x.out = s.m.rta /\ x.exp = s.m.exp /\ x.exp_o = s.m.exp_o
       /\ (x.waits <=> s.m.alpmi = "W_ACK") /\ (x.owes <=> s.m.alpmr = "W_USER_ACK")
  BY <1>1, DevFields
<1>14. /\ z.send = t.m.send /\ z.out = t.m.rta /\ z.exp = t.m.exp /\ z.exp_o = t.m.exp_o
       /\ (z.waits <=> t.m.alpmi = "W_ACK") /\ (z.owes <=> t.m.alpmr = "W_USER_ACK")
  BY <1>1, DevFields
<1>6. Joined(x, y, s.F, s.B)
  BY DEF Good
<1> HIDE DEF x, y, z
<1>4. /\ x.out = None /\ ~x.waits /\ z.out = f /\ z.waits
      /\ f.send = x.send /\ f.ack = x.exp_o
      /\ z.send = x.send /\ z.exp = x.exp /\ z.exp_o = x.exp_o
      /\ (z.owes <=> x.owes)
  BY <1>1, <1>13, <1>14
<1>5. z.owes = x.owes
  BY <1>1, <1>4 DEF SideType
<1>7. Joined(z, y, s.F, s.B)
  BY <1>1, <1>4, <1>5, <1>6, JoinedNotifies
<1>8. Joined(z, y, t.F, t.B)
  <2>1. Joined(z, y, Append(s.F, f), s.B)
    BY <1>1, <1>3, <1>4, <1>7, JoinedResends
  <2> QED BY <1>7, <2>1
<1>9. Fresh(x, y) /\ Fresh(z, y) /\ Turns(z, y)
  BY <1>4, <1>6, <1>7, JoinedTurns DEF Fresh
<1>10. /\ ~ToCtl(s) /\ ToCtl(t) /\ (ToDev(t) <=> ToDev(s))
       /\ Repeats(z, "notify") /\ ~Repeats(z, "answer") /\ ~Repeats(x, "answer")
  BY <1>1, <1>3, <1>4, <1>9 DEF ToCtl, ToDev, Going, Fresh, Repeats, x, y, z
<1>11. Good(p, t)
  BY <1>1, <1>3, <1>8, <1>10 DEF Good, x, y, z
<1>12. DevView(t) = DevView(s)
  <2>1. << >> \o s.q = s.q /\ <<Head(s.q)>> \o Tail(s.q) = s.q
    <3>1. s.q \in Seq(Alarms)
      BY DEF AtType
    <3> QED BY <3>1
  <2>2. DevView(s) = [queue |-> << >> \o s.q, current |-> None, answered |-> FALSE]
    BY <1>10 DEF DevView
  <2>3. DevView(t) = [queue |-> <<f.alarm>> \o t.q, current |-> None, answered |-> FALSE]
    BY <1>10 DEF DevView
  <2> QED BY <2>1, <2>2, <2>3
<1>15. CtlView(t) = CtlView(s)
  BY <1>10 DEF CtlView
<1> QED BY <1>11, <1>12, <1>15 DEF Same

\* The application answers the alarm of the controller.
LEMMA GoodAnswers ==
    ASSUME SeqMod > 2, NEW p \in Prios, NEW s \in AtType, NEW t \in AtType, Good(p, s),
           s.m.rta = None, s.m.alpmr = "W_USER_ACK",
           NEW f \in Frame, f.kind = "answer", f.send = s.m.send, f.ack = s.m.exp_o,
           t.m.rta = f, t.m.apms = "WTACK", t.m.alpmr = "W_TACK", t.m.send = s.m.send,
           t.m.exp = s.m.exp, t.m.exp_o = s.m.exp_o, t.m.apmr = s.m.apmr, t.m.alpmi = s.m.alpmi,
           t.c = s.c, t.F \in {s.F, Append(s.F, f)}, t.B = s.B, t.q = s.q, t.o = None
    PROVE  Good(p, t) /\ Serving(s, t)
<1> DEFINE x == DevSide(s.m)
           y == CtlSide(s.c)
           z == DevSide(t.m)
<1>1. /\ x \in SideType /\ y \in SideType /\ z \in SideType /\ s.m \in Machines /\ t.m \in Machines
      /\ s.F \in Seq(Frame) /\ s.B \in Seq(Frame) /\ y = CtlSide(t.c) /\ s.c \in Controllers
  BY SidesFacts
<1>3. f # None
  BY FrameAssumption
<1>17. /\ x.send = s.m.send /\ x.out = s.m.rta /\ x.exp = s.m.exp /\ x.exp_o = s.m.exp_o
       /\ (x.waits <=> s.m.alpmi = "W_ACK") /\ (x.owes <=> s.m.alpmr = "W_USER_ACK")
  BY <1>1, DevFields
<1>18. /\ z.send = t.m.send /\ z.out = t.m.rta /\ z.exp = t.m.exp /\ z.exp_o = t.m.exp_o
       /\ (z.waits <=> t.m.alpmi = "W_ACK") /\ (z.owes <=> t.m.alpmr = "W_USER_ACK")
  BY <1>1, DevFields
<1>6. Joined(x, y, s.F, s.B)
  BY DEF Good
<1> HIDE DEF x, y, z
<1>4. /\ x.out = None /\ x.owes /\ z.out = f /\ ~z.owes
      /\ f.send = x.send /\ f.ack = x.exp_o
      /\ z.send = x.send /\ z.exp = x.exp /\ z.exp_o = x.exp_o
      /\ (z.waits <=> x.waits)
  BY <1>1, <1>17, <1>18
<1>5. z.waits = x.waits
  BY <1>1, <1>4 DEF SideType
<1>7. Joined(z, y, s.F, s.B)
  BY <1>1, <1>4, <1>5, <1>6, JoinedAnswers
<1>8. Joined(z, y, t.F, t.B)
  <2>1. Joined(z, y, Append(s.F, f), s.B)
    BY <1>1, <1>3, <1>4, <1>7, JoinedResends
  <2> QED BY <1>7, <2>1
<1>9. y.waits /\ ~Going(y, x)
  BY <1>4, <1>6, JoinedTurns DEF Turns
<1>10. /\ ~ToCtl(s) /\ ~ToCtl(t) /\ ~ToDev(t) /\ ~ToDev(s)
       /\ ~Repeats(z, "notify") /\ Repeats(z, "answer")
  BY <1>1, <1>3, <1>4, <1>9 DEF ToCtl, ToDev, Going, Fresh, Repeats, x, y, z
<1>11. Good(p, t)
  BY <1>1, <1>3, <1>8, <1>10 DEF Good, x, y, z
<1>12. DevView(t) = DevView(s)
  BY <1>10 DEF DevView
<1>13. s.c.alpmi = "W_ACK" /\ s.c.asked # None /\ s.o # None
  <2>1. s.c.alpmi = "W_ACK"
    BY <1>1, <1>9, CtlFields DEF y
  <2> QED BY <2>1 DEF Good
<1>14. CtlView(s) = [queue |-> << >>, current |-> s.c.asked, answered |-> FALSE]
  BY <1>10, <1>13 DEF CtlView
<1>15. CtlView(t) = [queue |-> << >>, current |-> s.c.asked, answered |-> TRUE]
  BY <1>10, <1>13 DEF CtlView
<1>16. Serves(CtlView(s), CtlView(t))
  BY <1>13, <1>14, <1>15 DEF Serves
<1> QED BY <1>11, <1>12, <1>16 DEF Serving, Serves

\* The user of the controller sends an alarm.
LEMMA GoodCtlNotifies ==
    ASSUME SeqMod > 2, NEW p \in Prios, p = High, NEW s \in AtType, NEW t \in AtType, Good(p, s),
           s.c.out = None, s.c.alpmi = "W_ALARM", NEW a \in Alarms,
           NEW f \in Frame, f.kind = "notify", f.alarm = a, f.send = s.c.send, f.ack = s.c.exp_o,
           t.c.out = f, t.c.alpmi = "W_ACK", t.c.asked = a, t.c.send = s.c.send,
           t.c.exp = s.c.exp, t.c.exp_o = s.c.exp_o, t.c.got = s.c.got, t.c.last = s.c.last,
           t.m = s.m, t.B \in {s.B, Append(s.B, f)}, t.F = s.F, t.q = s.q, t.o = s.o
    PROVE  Good(p, t) /\ Serving(s, t)
<1> DEFINE x == CtlSide(s.c)
           y == DevSide(s.m)
           z == CtlSide(t.c)
<1>1. /\ x \in SideType /\ y \in SideType /\ z \in SideType /\ s.c \in Controllers
      /\ t.c \in Controllers /\ s.F \in Seq(Frame) /\ s.B \in Seq(Frame) /\ y = DevSide(t.m)
  BY SidesFacts
<1>2. f # None /\ a # None /\ Low # High
  BY FrameAssumption, AlarmAssumption DEF Low, High
<1>3. /\ x.send = s.c.send /\ x.out = s.c.out /\ x.exp = s.c.exp /\ x.exp_o = s.c.exp_o
      /\ (x.waits <=> s.c.alpmi = "W_ACK") /\ (x.owes <=> s.c.got # None)
  BY <1>1, CtlFields
<1>4. /\ z.send = t.c.send /\ z.out = t.c.out /\ z.exp = t.c.exp /\ z.exp_o = t.c.exp_o
      /\ (z.waits <=> t.c.alpmi = "W_ACK") /\ (z.owes <=> t.c.got # None)
  BY <1>1, CtlFields
<1>5. Joined(x, y, s.B, s.F)
  BY DEF Good, Joined
<1> HIDE DEF x, y, z
<1>6. /\ x.out = None /\ ~x.waits /\ z.out = f /\ z.waits
      /\ f.send = x.send /\ f.ack = x.exp_o
      /\ z.send = x.send /\ z.exp = x.exp /\ z.exp_o = x.exp_o
      /\ (z.owes <=> x.owes)
  BY <1>1, <1>3, <1>4
<1>7. z.owes = x.owes
  BY <1>1, <1>6 DEF SideType
<1>8. Joined(z, y, s.B, s.F)
  BY <1>1, <1>5, <1>6, <1>7, JoinedNotifies
<1>9. Joined(z, y, t.B, t.F)
  <2>1. Joined(z, y, Append(s.B, f), s.F)
    BY <1>1, <1>2, <1>6, <1>8, JoinedResends
  <2> QED BY <1>8, <2>1
<1>10. Joined(y, z, t.F, t.B) /\ Fresh(x, y)
  BY <1>5, <1>6, <1>9, JoinedTurns
<1>11. /\ ~ToDev(s) /\ ToDev(t) /\ (ToCtl(t) <=> ToCtl(s)) /\ Repeats(z, "notify")
  BY <1>1, <1>2, <1>6, <1>10 DEF ToCtl, ToDev, Going, Fresh, Repeats, x, y, z
<1>12. Good(p, t)
  BY <1>1, <1>2, <1>10, <1>11 DEF Good, x, y, z
<1>13. DevView(t) = DevView(s)
  BY <1>11 DEF DevView
<1>14. CtlView(s) = [queue |-> << >>, current |-> None, answered |-> FALSE]
  BY <1>11 DEF CtlView
<1>15. CtlView(t) = [queue |-> <<a>>, current |-> None, answered |-> FALSE]
  BY <1>11 DEF CtlView
<1>16. Serves(CtlView(s), CtlView(t))
  BY <1>14, <1>15 DEF Serves
<1> QED BY <1>12, <1>13, <1>16 DEF Serving, Serves

\* The user of the controller answers the alarm of the device.
LEMMA GoodCtlAnswers ==
    ASSUME SeqMod > 2, NEW p \in Prios, NEW s \in AtType, NEW t \in AtType, Good(p, s),
           s.c.out = None, s.c.got # None,
           NEW f \in Frame, f.kind = "answer", f.send = s.c.send, f.ack = s.c.exp_o,
           t.c.out = f, t.c.got = None, t.c.send = s.c.send, t.c.exp = s.c.exp,
           t.c.exp_o = s.c.exp_o, t.c.alpmi = s.c.alpmi, t.c.asked = s.c.asked, t.c.last = s.c.last,
           t.m = s.m, t.B \in {s.B, Append(s.B, f)}, t.F = s.F, t.q = s.q, t.o = s.o
    PROVE  Good(p, t) /\ Serving(s, t)
<1> DEFINE x == CtlSide(s.c)
           y == DevSide(s.m)
           z == CtlSide(t.c)
<1>1. /\ x \in SideType /\ y \in SideType /\ z \in SideType /\ s.c \in Controllers
      /\ t.c \in Controllers /\ s.F \in Seq(Frame) /\ s.B \in Seq(Frame) /\ y = DevSide(t.m)
      /\ s.m \in Machines
  BY SidesFacts
<1>2. f # None
  BY FrameAssumption
<1>3. /\ x.send = s.c.send /\ x.out = s.c.out /\ x.exp = s.c.exp /\ x.exp_o = s.c.exp_o
      /\ (x.waits <=> s.c.alpmi = "W_ACK") /\ (x.owes <=> s.c.got # None)
  BY <1>1, CtlFields
<1>4. /\ z.send = t.c.send /\ z.out = t.c.out /\ z.exp = t.c.exp /\ z.exp_o = t.c.exp_o
      /\ (z.waits <=> t.c.alpmi = "W_ACK") /\ (z.owes <=> t.c.got # None)
  BY <1>1, CtlFields
<1>5. Joined(x, y, s.B, s.F)
  BY DEF Good, Joined
<1> HIDE DEF x, y, z
<1>6. /\ x.out = None /\ x.owes /\ z.out = f /\ ~z.owes
      /\ f.send = x.send /\ f.ack = x.exp_o
      /\ z.send = x.send /\ z.exp = x.exp /\ z.exp_o = x.exp_o
      /\ (z.waits <=> x.waits)
  BY <1>1, <1>3, <1>4
<1>7. z.waits = x.waits
  BY <1>1, <1>6 DEF SideType
<1>8. Joined(z, y, s.B, s.F)
  BY <1>1, <1>5, <1>6, <1>7, JoinedAnswers
<1>9. Joined(z, y, t.B, t.F)
  <2>1. Joined(z, y, Append(s.B, f), s.F)
    BY <1>1, <1>2, <1>6, <1>8, JoinedResends
  <2> QED BY <1>8, <2>1
<1>10. Joined(y, z, t.F, t.B) /\ y.waits /\ ~Going(y, x)
  BY <1>5, <1>6, <1>9, JoinedTurns DEF Turns
<1>11. /\ ~ToDev(s) /\ ~ToDev(t) /\ ~ToCtl(t) /\ ~ToCtl(s) /\ ~Repeats(z, "notify")
  BY <1>1, <1>6, <1>10 DEF ToCtl, ToDev, Going, Fresh, Repeats, x, y, z
<1>12. s.m.alpmi = "W_ACK" /\ s.c.last # None
  <2>1. s.m.alpmi = "W_ACK"
    BY <1>1, <1>10, DevFields DEF y
  <2> QED BY <1>11, <2>1 DEF Good
<1>13. Good(p, t)
  BY <1>1, <1>10, <1>11, <1>12 DEF Good, x, y, z
<1>14. CtlView(t) = CtlView(s)
  BY <1>11 DEF CtlView
<1>15. DevView(s) = [queue |-> << >> \o s.q, current |-> s.c.last, answered |-> FALSE]
  BY <1>11, <1>12 DEF DevView
<1>16. DevView(t) = [queue |-> << >> \o s.q, current |-> s.c.last, answered |-> TRUE]
  BY <1>11, <1>12 DEF DevView
<1>17. Serves(DevView(s), DevView(t))
  BY <1>12, <1>15, <1>16 DEF Serves
<1> QED BY <1>13, <1>14, <1>17 DEF Serving, Serves

\* The application queues an alarm.
LEMMA GoodQueues ==
    ASSUME NEW p \in Prios, NEW s \in AtType, NEW t \in AtType, Good(p, s), NEW a \in Alarms,
           t.m = s.m, t.c = s.c, t.F = s.F, t.B = s.B, t.q = Append(s.q, a), t.o = s.o
    PROVE  Good(p, t) /\ Serving(s, t)
<1>1. (ToCtl(t) <=> ToCtl(s)) /\ (ToDev(t) <=> ToDev(s))
  BY DEF ToCtl, ToDev
<1>2. Good(p, t)
  BY <1>1 DEF Good
<1>3. CtlView(t) = CtlView(s)
  BY <1>1 DEF CtlView
<1> DEFINE P == IF ToCtl(s) THEN <<s.m.rta.alarm>> ELSE << >>
<1>4. P \o Append(s.q, a) = Append(P \o s.q, a)
  <2> DEFINE h == s.m.rta.alarm
             q == s.q
  <2>1. q \in Seq(Alarms) /\ (P = <<h>> \/ P = << >>)
    BY DEF AtType
  <2> HIDE DEF P, h, q
  <2>2. CASE P = <<h>>
    <3>1. P \in Seq({h}) /\ q \in Seq(Alarms \cup {h}) /\ P \in Seq(Alarms \cup {h})
      BY <2>1, <2>2
    <3>2. P \o Append(q, a) = Append(P \o q, a)
      BY <3>1
    <3> QED BY <3>2 DEF q
  <2>3. CASE P = << >>
    <3>1. P \o Append(q, a) = Append(P \o q, a)
      BY <2>1, <2>3
    <3> QED BY <3>1 DEF q
  <2> QED BY <2>1, <2>2, <2>3
<1>5. DevView(s).queue = P \o s.q /\ DevView(t).queue = P \o Append(s.q, a)
  BY <1>1 DEF DevView
<1>6. DevView(t).current = DevView(s).current /\ DevView(t).answered = DevView(s).answered
  BY <1>1 DEF DevView
<1>7. Serves(DevView(s), DevView(t))
  BY <1>4, <1>5, <1>6 DEF Serves
<1> QED BY <1>2, <1>3, <1>7 DEF Serving, Serves

\* The alarm of the controller is indicated to the application.
LEMMA GoodIndicates ==
    ASSUME SeqMod > 2, NEW p \in Prios, NEW s \in AtType, NEW t \in AtType, Good(p, s),
           NEW f, f = s.c.out, f # None, f.kind = "notify", s.c.send = s.m.exp,
           s.m.alpmr = "W_NOTIFY", s.m.rta # None => f.ack # s.m.send,
           \A i \in 1 .. Len(s.B) : s.B[i].kind \in DataKinds => s.B[i].send # NextSeq(s.m.exp),
           t.m.exp = NextSeq(s.m.exp), t.m.exp_o = s.m.exp, t.m.alpmr = "W_USER_ACK",
           t.m.send = s.m.send, t.m.rta = s.m.rta, t.m.apms = s.m.apms, t.m.apmr = s.m.apmr,
           t.m.alpmi = s.m.alpmi, NEW h \in Frame, h.kind = "tack", h.ack = s.m.exp,
           t.c = s.c, t.F \in {s.F, Append(s.F, h)}, t.B = s.B, t.q = s.q, t.o = f.alarm
    PROVE  Good(p, t) /\ Serving(s, t)
<1> DEFINE x == DevSide(s.m)
           y == CtlSide(s.c)
           z == DevSide(t.m)
<1>1. /\ x \in SideType /\ y \in SideType /\ z \in SideType /\ s.m \in Machines /\ t.m \in Machines
      /\ s.F \in Seq(Frame) /\ s.B \in Seq(Frame) /\ y = CtlSide(t.c) /\ s.c \in Controllers
  BY SidesFacts
<1>2. /\ x.send = s.m.send /\ x.out = s.m.rta /\ x.exp = s.m.exp /\ x.exp_o = s.m.exp_o
      /\ (x.waits <=> s.m.alpmi = "W_ACK") /\ (x.owes <=> s.m.alpmr = "W_USER_ACK")
  BY <1>1, DevFields
<1>3. /\ z.send = t.m.send /\ z.out = t.m.rta /\ z.exp = t.m.exp /\ z.exp_o = t.m.exp_o
      /\ (z.waits <=> t.m.alpmi = "W_ACK") /\ (z.owes <=> t.m.alpmr = "W_USER_ACK")
  BY <1>1, DevFields
<1>4. y.send = s.c.send /\ y.out = f /\ (y.waits <=> s.c.alpmi = "W_ACK")
  BY <1>1, CtlFields
<1>5. Joined(x, y, s.F, s.B)
  BY DEF Good
<1> HIDE DEF x, y, z
<1>6. /\ y.out # None /\ Fresh(y, x) /\ (x.out # None => y.out.ack # x.send)
      /\ z.exp = NextSeq(x.exp) /\ z.exp_o = x.exp /\ z.send = x.send /\ z.out = x.out
      /\ z.owes /\ (z.waits <=> x.waits)
  BY <1>2, <1>3, <1>4 DEF Fresh
<1>7. z.owes = (x.owes \/ y.out.kind = "notify") /\ z.waits = (x.waits /\ y.out.kind = "notify")
  BY <1>1, <1>4, <1>6 DEF SideType
<1>8. Joined(z, y, s.F, s.B)
  BY <1>1, <1>2, <1>5, <1>6, <1>7, JoinedAccepts
<1>9. Joined(z, y, t.F, t.B)
  <2>1. Joined(z, y, Append(s.F, h), s.B)
    BY <1>1, <1>2, <1>6, <1>8, JoinedReplies DEF DataKinds
  <2> QED BY <1>8, <2>1
<1>10. y.waits /\ ~Fresh(y, z) /\ (Fresh(x, y) <=> Fresh(z, y))
  <2>1. y.waits
    BY <1>4, <1>5, <1>6, JoinedTurns DEF Turns, Repeats
  <2>2. NextSeq(x.exp) # x.exp
    BY <1>1, <1>5, AckBounds DEF Joined, Half
  <2> QED BY <1>6, <2>1, <2>2 DEF Fresh
<1>11. /\ ToDev(s) /\ ~ToDev(t) /\ (ToCtl(t) <=> ToCtl(s)) /\ (Repeats(z, "notify") <=> Repeats(x, "notify"))
       /\ (Repeats(z, "answer") <=> Repeats(x, "answer")) /\ Repeats(y, "notify")
  BY <1>1, <1>4, <1>6, <1>10 DEF ToCtl, ToDev, Going, Repeats, x, y, z
<1>12. /\ s.c.alpmi = "W_ACK" /\ s.c.asked # None /\ f.alarm = s.c.asked
  BY <1>4, <1>10, <1>11 DEF Good, y
<1>13. Good(p, t)
  BY <1>1, <1>9, <1>11, <1>12 DEF Good, x, y, z
<1>14. DevView(t) = DevView(s)
  BY <1>11 DEF DevView
<1>15. CtlView(s) = [queue |-> <<f.alarm>>, current |-> None, answered |-> FALSE]
  BY <1>11 DEF CtlView
<1>16. CtlView(t) = [queue |-> << >>, current |-> f.alarm, answered |-> FALSE]
  BY <1>11, <1>12 DEF CtlView
<1>17. Serves(CtlView(s), CtlView(t))
  BY <1>15, <1>16 DEF Serves
<1> QED BY <1>13, <1>14, <1>17 DEF Serving, Serves

\* The answer of the controller is confirmed to the application.
LEMMA GoodConfirms ==
    ASSUME SeqMod > 2, NEW p \in Prios, NEW s \in AtType, NEW t \in AtType, Good(p, s),
           NEW f, f = s.c.out, f # None, f.kind = "answer", s.c.send = s.m.exp,
           s.m.rta # None => f.ack # s.m.send,
           \A i \in 1 .. Len(s.B) : s.B[i].kind \in DataKinds => s.B[i].send # NextSeq(s.m.exp),
           t.m.exp = NextSeq(s.m.exp), t.m.exp_o = s.m.exp, t.m.alpmi = "W_ALARM",
           t.m.send = s.m.send, t.m.rta = s.m.rta, t.m.apms = s.m.apms, t.m.apmr = s.m.apmr,
           t.m.alpmr = s.m.alpmr, NEW h \in Frame, h.kind = "tack", h.ack = s.m.exp,
           t.c = s.c, t.F \in {s.F, Append(s.F, h)}, t.B = s.B, t.q = s.q, t.o = s.o
    PROVE  Good(p, t) /\ Serving(s, t)
<1> DEFINE x == DevSide(s.m)
           y == CtlSide(s.c)
           z == DevSide(t.m)
<1>1. /\ x \in SideType /\ y \in SideType /\ z \in SideType /\ s.m \in Machines /\ t.m \in Machines
      /\ s.F \in Seq(Frame) /\ s.B \in Seq(Frame) /\ y = CtlSide(t.c) /\ s.c \in Controllers
  BY SidesFacts
<1>2. /\ x.send = s.m.send /\ x.out = s.m.rta /\ x.exp = s.m.exp /\ x.exp_o = s.m.exp_o
      /\ (x.waits <=> s.m.alpmi = "W_ACK") /\ (x.owes <=> s.m.alpmr = "W_USER_ACK")
  BY <1>1, DevFields
<1>3. /\ z.send = t.m.send /\ z.out = t.m.rta /\ z.exp = t.m.exp /\ z.exp_o = t.m.exp_o
      /\ (z.waits <=> t.m.alpmi = "W_ACK") /\ (z.owes <=> t.m.alpmr = "W_USER_ACK")
  BY <1>1, DevFields
<1>4. y.send = s.c.send /\ y.out = f /\ (y.owes <=> s.c.got # None)
  BY <1>1, CtlFields
<1>5. Joined(x, y, s.F, s.B)
  BY DEF Good
<1> HIDE DEF x, y, z
<1>6. /\ y.out # None /\ Fresh(y, x) /\ (x.out # None => y.out.ack # x.send)
      /\ z.exp = NextSeq(x.exp) /\ z.exp_o = x.exp /\ z.send = x.send /\ z.out = x.out
      /\ (z.owes <=> x.owes) /\ ~z.waits
  BY <1>2, <1>3, <1>4 DEF Fresh
<1>7. z.owes = (x.owes \/ y.out.kind = "notify") /\ z.waits = (x.waits /\ y.out.kind = "notify")
  BY <1>1, <1>4, <1>6 DEF SideType
<1>8. Joined(z, y, s.F, s.B)
  BY <1>1, <1>2, <1>5, <1>6, <1>7, JoinedAccepts
<1>9. Joined(z, y, t.F, t.B)
  <2>1. Joined(z, y, Append(s.F, h), s.B)
    BY <1>1, <1>2, <1>6, <1>8, JoinedReplies DEF DataKinds
  <2> QED BY <1>8, <2>1
<1>10. x.waits /\ ~Going(x, y) /\ ~y.owes /\ ~Repeats(x, "notify")
       /\ (Fresh(x, y) <=> Fresh(z, y))
  <2>1. Coming(x, y)
    BY <1>4, <1>6 DEF Coming, Repeats
  <2>2. (Fresh(x, y) <=> Fresh(z, y)) /\ Turns(x, y)
    BY <1>5, <1>6, JoinedTurns DEF Fresh
  <2> QED BY <1>6, <2>1, <2>2 DEF Turns, Repeats
<1>11. /\ ~ToDev(s) /\ ~ToDev(t) /\ ~ToCtl(t) /\ ~ToCtl(s) /\ ~Repeats(z, "notify")
       /\ (Repeats(z, "answer") <=> Repeats(x, "answer"))
  BY <1>1, <1>4, <1>6, <1>10 DEF ToCtl, ToDev, Going, Repeats, x, y, z
<1>12. s.m.alpmi = "W_ACK" /\ s.c.got = None
  BY <1>2, <1>4, <1>10
<1>13. Good(p, t)
  BY <1>1, <1>9, <1>11 DEF Good, x, y, z
<1>14. CtlView(t) = CtlView(s)
  BY <1>11 DEF CtlView
<1>15. DevView(s) = [queue |-> << >> \o s.q, current |-> s.c.last, answered |-> TRUE]
  BY <1>11, <1>12 DEF DevView
<1>16. DevView(t) = [queue |-> << >> \o s.q, current |-> None, answered |-> FALSE]
  BY <1>11, <1>12 DEF DevView
<1>17. Serves(DevView(s), DevView(t))
  BY <1>15, <1>16 DEF Serves
<1> QED BY <1>13, <1>14, <1>17 DEF Serving, Serves

\* The alarm of the device is indicated to the user of the controller.
LEMMA GoodCtlIndicates ==
    ASSUME SeqMod > 2, NEW p \in Prios, NEW s \in AtType, NEW t \in AtType, Good(p, s),
           NEW f, f = s.m.rta, f # None, f.kind = "notify", s.m.send = s.c.exp,
           s.c.out # None => f.ack # s.c.send,
           \A i \in 1 .. Len(s.F) : s.F[i].kind \in DataKinds => s.F[i].send # NextSeq(s.c.exp),
           t.c.exp = NextSeq(s.c.exp), t.c.exp_o = s.c.exp, t.c.got = f.alarm, t.c.last = f.alarm,
           t.c.send = s.c.send, t.c.out = s.c.out, t.c.alpmi = s.c.alpmi, t.c.asked = s.c.asked,
           NEW h \in Frame, h.kind = "tack", h.ack = s.c.exp,
           t.m = s.m, t.F = s.F, t.B \in {s.B, Append(s.B, h)}, t.q = s.q, t.o = s.o
    PROVE  Good(p, t) /\ Serving(s, t)
<1> DEFINE x == CtlSide(s.c)
           y == DevSide(s.m)
           z == CtlSide(t.c)
<1>1. /\ x \in SideType /\ y \in SideType /\ z \in SideType /\ s.m \in Machines /\ t.c \in Controllers
      /\ s.F \in Seq(Frame) /\ s.B \in Seq(Frame) /\ y = DevSide(t.m) /\ s.c \in Controllers
  BY SidesFacts
<1>2. /\ x.send = s.c.send /\ x.out = s.c.out /\ x.exp = s.c.exp /\ x.exp_o = s.c.exp_o
      /\ (x.waits <=> s.c.alpmi = "W_ACK") /\ (x.owes <=> s.c.got # None)
  BY <1>1, CtlFields
<1>3. /\ z.send = t.c.send /\ z.out = t.c.out /\ z.exp = t.c.exp /\ z.exp_o = t.c.exp_o
      /\ (z.waits <=> t.c.alpmi = "W_ACK") /\ (z.owes <=> t.c.got # None)
  BY <1>1, CtlFields
<1>4. y.send = s.m.send /\ y.out = f /\ (y.waits <=> s.m.alpmi = "W_ACK")
  BY <1>1, DevFields
<1>5. Joined(x, y, s.B, s.F)
  BY DEF Good, Joined
<1> HIDE DEF x, y, z
<1>6. Repeats(y, "notify") /\ f.alarm # None
  <2>1. Repeats(y, "notify")
    BY <1>4 DEF Repeats
  <2> QED BY <2>1 DEF Good, y
<1>7. /\ y.out # None /\ Fresh(y, x) /\ (x.out # None => y.out.ack # x.send)
      /\ z.exp = NextSeq(x.exp) /\ z.exp_o = x.exp /\ z.send = x.send /\ z.out = x.out
      /\ z.owes /\ (z.waits <=> x.waits)
  BY <1>2, <1>3, <1>4, <1>6 DEF Fresh
<1>8. z.owes = (x.owes \/ y.out.kind = "notify") /\ z.waits = (x.waits /\ y.out.kind = "notify")
  BY <1>1, <1>4, <1>7 DEF SideType
<1>9. Joined(z, y, s.B, s.F)
  <2>1. \A i \in 1 .. Len(s.F) : s.F[i].kind \in DataKinds => s.F[i].send # NextSeq(x.exp)
    BY <1>2
  <2> QED BY <1>1, <1>5, <1>7, <1>8, <2>1, JoinedAccepts
<1>10. Joined(y, z, t.F, t.B)
  <2>1. Joined(z, y, Append(s.B, h), s.F)
    BY <1>1, <1>2, <1>7, <1>9, JoinedReplies DEF DataKinds
  <2> QED BY <1>9, <2>1, JoinedTurns
<1>11. y.waits /\ ~Fresh(y, z) /\ (Fresh(x, y) <=> Fresh(z, y))
  <2>1. y.waits
    BY <1>5, <1>6, JoinedTurns DEF Turns
  <2>2. NextSeq(x.exp) # x.exp
    BY <1>1, <1>5, AckBounds DEF Joined, Half
  <2> QED BY <1>7, <2>1, <2>2 DEF Fresh
<1>12. /\ ToCtl(s) /\ ~ToCtl(t) /\ (ToDev(t) <=> ToDev(s))
       /\ (Repeats(z, "notify") <=> Repeats(x, "notify"))
  BY <1>1, <1>6, <1>7, <1>11 DEF ToCtl, ToDev, Going, Repeats, x, y, z
<1>13. s.m.alpmi = "W_ACK"
  BY <1>4, <1>11
<1>14. Good(p, t)
  BY <1>1, <1>6, <1>10, <1>12 DEF Good, x, y, z
<1>15. CtlView(t) = CtlView(s)
  BY <1>12 DEF CtlView
<1>16. DevView(s) = [queue |-> <<f.alarm>> \o s.q, current |-> None, answered |-> FALSE]
  BY <1>12 DEF DevView
<1>17. DevView(t) = [queue |-> << >> \o s.q, current |-> f.alarm, answered |-> FALSE]
  BY <1>6, <1>12, <1>13 DEF DevView
<1>18. LET v == <<f.alarm>> \o s.q
       IN  v # << >> /\ Head(v) = f.alarm /\ Tail(v) = << >> \o s.q
  <2> DEFINE a == f.alarm
             q == s.q
  <2>1. q \in Seq(Alarms) /\ a \in Alarms
    BY <1>1, <1>6 DEF AtType, Machines, Frame
  <2> HIDE DEF a, q
  <2>2. <<a>> \o q # << >> /\ Head(<<a>> \o q) = a /\ Tail(<<a>> \o q) = << >> \o q
    BY <2>1
  <2> QED BY <2>2 DEF a, q
<1>19. Serves(DevView(s), DevView(t))
  BY <1>16, <1>17, <1>18 DEF Serves
<1> QED BY <1>14, <1>15, <1>19 DEF Serving, Serves

\* The answer of the application is confirmed to the user of the controller.
LEMMA GoodCtlConfirms ==
    ASSUME SeqMod > 2, NEW p \in Prios, NEW s \in AtType, NEW t \in AtType, Good(p, s),
           NEW f, f = s.m.rta, f # None, f.kind = "answer", s.m.send = s.c.exp,
           s.c.out # None => f.ack # s.c.send,
           \A i \in 1 .. Len(s.F) : s.F[i].kind \in DataKinds => s.F[i].send # NextSeq(s.c.exp),
           t.c.exp = NextSeq(s.c.exp), t.c.exp_o = s.c.exp, t.c.alpmi = "W_ALARM", t.c.asked = None,
           t.c.send = s.c.send, t.c.out = s.c.out, t.c.got = s.c.got, t.c.last = s.c.last,
           NEW h \in Frame, h.kind = "tack", h.ack = s.c.exp,
           t.m = s.m, t.F = s.F, t.B \in {s.B, Append(s.B, h)}, t.q = s.q, t.o = s.o
    PROVE  Good(p, t) /\ Serving(s, t)
<1> DEFINE x == CtlSide(s.c)
           y == DevSide(s.m)
           z == CtlSide(t.c)
<1>1. /\ x \in SideType /\ y \in SideType /\ z \in SideType /\ s.m \in Machines /\ t.c \in Controllers
      /\ s.F \in Seq(Frame) /\ s.B \in Seq(Frame) /\ y = DevSide(t.m) /\ s.c \in Controllers
  BY SidesFacts
<1>2. /\ x.send = s.c.send /\ x.out = s.c.out /\ x.exp = s.c.exp /\ x.exp_o = s.c.exp_o
      /\ (x.waits <=> s.c.alpmi = "W_ACK") /\ (x.owes <=> s.c.got # None)
  BY <1>1, CtlFields
<1>3. /\ z.send = t.c.send /\ z.out = t.c.out /\ z.exp = t.c.exp /\ z.exp_o = t.c.exp_o
      /\ (z.waits <=> t.c.alpmi = "W_ACK") /\ (z.owes <=> t.c.got # None)
  BY <1>1, CtlFields
<1>4. y.send = s.m.send /\ y.out = f /\ (y.owes <=> s.m.alpmr = "W_USER_ACK")
  BY <1>1, DevFields
<1>5. Joined(x, y, s.B, s.F)
  BY DEF Good, Joined
<1> HIDE DEF x, y, z
<1>6. /\ y.out # None /\ Fresh(y, x) /\ (x.out # None => y.out.ack # x.send)
      /\ z.exp = NextSeq(x.exp) /\ z.exp_o = x.exp /\ z.send = x.send /\ z.out = x.out
      /\ (z.owes <=> x.owes) /\ ~z.waits
  BY <1>2, <1>3, <1>4 DEF Fresh
<1>7. z.owes = (x.owes \/ y.out.kind = "notify") /\ z.waits = (x.waits /\ y.out.kind = "notify")
  BY <1>1, <1>4, <1>6 DEF SideType
<1>8. Joined(z, y, s.B, s.F)
  BY <1>1, <1>2, <1>5, <1>6, <1>7, JoinedAccepts
<1>9. Joined(y, z, t.F, t.B)
  <2>1. Joined(z, y, Append(s.B, h), s.F)
    BY <1>1, <1>2, <1>6, <1>8, JoinedReplies DEF DataKinds
  <2> QED BY <1>8, <2>1, JoinedTurns
<1>10. x.waits /\ ~Going(x, y) /\ ~y.owes /\ ~Repeats(x, "notify")
       /\ (Fresh(x, y) <=> Fresh(z, y))
  <2>1. Coming(x, y)
    BY <1>4, <1>6 DEF Coming, Repeats
  <2>2. (Fresh(x, y) <=> Fresh(z, y)) /\ Turns(x, y)
    BY <1>5, <1>6, JoinedTurns DEF Fresh
  <2> QED BY <1>6, <2>1, <2>2 DEF Turns, Repeats
<1>11. /\ ~ToDev(s) /\ ~ToDev(t) /\ ~ToCtl(t) /\ ~ToCtl(s) /\ ~Repeats(z, "notify")
  BY <1>1, <1>4, <1>6, <1>10 DEF ToCtl, ToDev, Going, Repeats, x, y, z
<1>12. s.c.alpmi = "W_ACK" /\ s.o = None
  <2>1. s.m.alpmr # "W_USER_ACK"
    BY <1>4, <1>10
  <2> QED BY <1>2, <1>10, <2>1 DEF Good
<1>13. Good(p, t)
  BY <1>1, <1>9, <1>11, <1>12 DEF Good, x, y, z
<1>14. DevView(t) = DevView(s)
  BY <1>11 DEF DevView
<1>15. CtlView(s) = [queue |-> << >>, current |-> s.c.asked, answered |-> TRUE]
  BY <1>11, <1>12 DEF CtlView
<1>16. CtlView(t) = [queue |-> << >>, current |-> None, answered |-> FALSE]
  BY <1>11 DEF CtlView
<1>17. Serves(CtlView(s), CtlView(t))
  BY <1>15, <1>16 DEF Serves
<1> QED BY <1>13, <1>14, <1>17 DEF Serving, Serves

-----------------------------------------------------------------------------
(***************************************************************************)
(* The same for the state of the device: a handler touches one priority,   *)
(* or closes the AR.                                                       *)
(***************************************************************************)
Nothing == [m |-> Closed, c |-> CtlStart, F |-> << >>, B |-> << >>, q |-> << >>, o |-> None]
Over(d) == ~d.up /\ \A p \in Prios : At(d, p) = Nothing

Channel(d) == (d.up => \A p \in Prios : Good(p, At(d, p))) /\ (~d.up => Over(d))

\* Nothing but the priority p differs.
Only(d, e, p) ==
    /\ e \in DevType /\ e.up = d.up
    /\ \A r \in Prios : r # p => At(e, r) = At(d, r)

\* What becomes of an AR that is up, and what its users see of it.
Goes(d, e, p) ==
    \/ Over(e)
    \/ Only(d, e, p) /\ Good(p, At(e, p)) /\ Serving(At(d, p), At(e, p))

LEMMA AtFacts ==
    ASSUME NEW d \in DevType, NEW p \in Prios
    PROVE  /\ At(d, p) \in AtType
           /\ At(d, p).m = d.ap[p] /\ At(d, p).c = d.ctl[p] /\ At(d, p).F = d.link[p]
           /\ At(d, p).B = d.recvq[p] /\ At(d, p).q = d.sendq[p] /\ At(d, p).o = d.owed[p]
           /\ d.ap[p] \in Machines /\ d.ctl[p] \in Controllers
           /\ d.link[p] \in Seq(Frame) /\ d.recvq[p] \in Seq(Frame)
           /\ d.sendq[p] \in Seq(Alarms) /\ d.owed[p] \in Alarms \cup {None}
BY DEF At, AtType, DevType

LEMMA OnlyTwice ==
    ASSUME NEW d, NEW e, NEW g, NEW p, Only(d, e, p), Only(e, g, p)
    PROVE  Only(d, g, p)
BY DEF Only

LEMMA ServingFacts ==
    ASSUME NEW s, NEW t, NEW u
    PROVE  /\ Serving(s, s) /\ Serving(s, Nothing)
           /\ Same(s, t) => Serving(s, t)
           /\ Same(s, t) /\ Same(t, u) => Same(s, u)
           /\ Same(s, t) /\ Serving(t, u) => Serving(s, u)
<1>1. /\ Nothing.m.rta = None /\ Nothing.c.out = None /\ Nothing.m.alpmi # "W_ACK"
      /\ Nothing.c.alpmi # "W_ACK" /\ Nothing.q = << >>
  BY DEF Nothing, Closed, CtlStart
<1>2. ~ToCtl(Nothing) /\ ~ToDev(Nothing)
  BY <1>1 DEF ToCtl, ToDev, Going, Repeats, DevSide, CtlSide
<1>3. << >> \o << >> = << >>
  OBVIOUS
<1>4. DevView(Nothing) = [queue |-> << >>, current |-> None, answered |-> FALSE]
  BY <1>1, <1>2, <1>3 DEF DevView
<1>5. CtlView(Nothing) = [queue |-> << >>, current |-> None, answered |-> FALSE]
  BY <1>1, <1>2 DEF CtlView
<1>6. Serving(s, Nothing)
  BY <1>4, <1>5 DEF Serving, Serves
<1>7. Serving(s, s)
  BY DEF Serving, Serves
<1>8. Same(s, t) => Serving(s, t)
  BY DEF Same, Serving, Serves
<1>9. /\ Same(s, t) /\ Same(t, u) => Same(s, u)
      /\ Same(s, t) /\ Serving(t, u) => Serving(s, u)
  BY DEF Same, Serving
<1> QED BY <1>6, <1>7, <1>8, <1>9

\* A handler that did nothing the users see, followed by another one.
LEMMA GoesOn ==
    ASSUME NEW d, NEW e, NEW g, NEW p, Only(d, e, p), Same(At(d, p), At(e, p)), Goes(e, g, p)
    PROVE  Goes(d, g, p)
BY ServingFacts, OnlyTwice DEF Goes

LEMMA GoesChannel ==
    ASSUME NEW d, NEW e, NEW p \in Prios, d.up, Channel(d), Goes(d, e, p)
    PROVE  Channel(e) /\ \A r \in Prios : Serving(At(d, r), At(e, r))
<1>1. CASE Over(e)
  <2>1. \A r \in Prios : Serving(At(d, r), At(e, r))
    BY <1>1, ServingFacts DEF Over
  <2> QED BY <1>1, <2>1 DEF Channel, Over
<1>2. CASE Only(d, e, p) /\ Good(p, At(e, p)) /\ Serving(At(d, p), At(e, p))
  <2>1. ASSUME NEW r \in Prios
        PROVE  Good(r, At(e, r)) /\ Serving(At(d, r), At(e, r))
    <3>1. CASE r = p
      BY <1>2, <3>1
    <3>2. CASE r # p
      <4>1. At(e, r) = At(d, r)
        BY <1>2, <3>2 DEF Only
      <4> QED BY <4>1, ServingFacts DEF Channel
    <3> QED BY <3>1, <3>2
  <2>2. e.up
    BY <1>2 DEF Only
  <2> QED BY <2>1, <2>2 DEF Channel
<1> QED BY <1>1, <1>2 DEF Goes

LEMMA CloseOver ==
    ASSUME NEW d \in DevType
    PROVE  Over(Close(d)) /\ Over([Close(d) EXCEPT !.halted = TRUE])
<1> DEFINE e == Close(d)
           h == [e EXCEPT !.halted = TRUE]
<1>1. /\ e.up = FALSE /\ e.ap = Each(Closed) /\ e.ctl = Each(CtlStart) /\ e.link = Each(<< >>)
      /\ e.recvq = Each(<< >>) /\ e.sendq = Each(<< >>) /\ e.owed = Each(None)
  BY DEF Close, DevType
<1>2. e \in DevType
  BY CloseFacts DEF Sound
<1> HIDE DEF e
<1>3. /\ h.up = e.up /\ h.ap = e.ap /\ h.ctl = e.ctl /\ h.link = e.link
      /\ h.recvq = e.recvq /\ h.sendq = e.sendq /\ h.owed = e.owed
  BY <1>2 DEF DevType
<1> HIDE DEF h
<1>4. \A p \in Prios : Each(Closed)[p] = Closed /\ Each(CtlStart)[p] = CtlStart
                       /\ Each(<< >>)[p] = << >> /\ Each(None)[p] = None
  BY DEF Each
<1>5. \A p \in Prios : At(e, p) = Nothing
  BY <1>1, <1>4 DEF At, Nothing
<1>6. \A p \in Prios : At(h, p) = At(e, p)
  BY <1>3 DEF At
<1>7. Over(e) /\ Over(h)
  BY <1>1, <1>3, <1>5, <1>6 DEF Over
<1> QED BY <1>7 DEF e, h

-----------------------------------------------------------------------------
\* What each change of one priority does to it.
WithLink(d, p, F) == [d EXCEPT !.link[p] = F]
WithRecvq(d, p, B) == [d EXCEPT !.recvq[p] = B]
WithSendq(d, p, q) == [d EXCEPT !.sendq[p] = q]
WithOwed(d, p, o) == [d EXCEPT !.owed[p] = o]

LEMMA OnlyWith ==
    ASSUME NEW d \in DevType, NEW p \in Prios, NEW m \in Machines, NEW e, e = With(d, p, m)
    PROVE  /\ Only(d, e, p) /\ e.halted = d.halted
           /\ e.ap[p] = m /\ e.ctl[p] = d.ctl[p] /\ e.link[p] = d.link[p]
           /\ e.recvq[p] = d.recvq[p] /\ e.sendq[p] = d.sendq[p] /\ e.owed[p] = d.owed[p]
<1>1. /\ e \in DevType /\ e.up = d.up /\ e.halted = d.halted /\ e.ap = [d.ap EXCEPT ![p] = m]
      /\ e.ctl = d.ctl /\ e.link = d.link /\ e.recvq = d.recvq /\ e.sendq = d.sendq
      /\ e.owed = d.owed
  BY DEF With, DevType
<1>2. e.ap[p] = m /\ \A r \in Prios : r # p => e.ap[r] = d.ap[r]
  BY <1>1 DEF DevType
<1> QED BY <1>1, <1>2 DEF Only, At

LEMMA OnlyCtl ==
    ASSUME NEW d \in DevType, NEW p \in Prios, NEW c \in Controllers, NEW e, e = WithCtl(d, p, c)
    PROVE  /\ Only(d, e, p) /\ e.halted = d.halted
           /\ e.ap[p] = d.ap[p] /\ e.ctl[p] = c /\ e.link[p] = d.link[p]
           /\ e.recvq[p] = d.recvq[p] /\ e.sendq[p] = d.sendq[p] /\ e.owed[p] = d.owed[p]
<1>1. /\ e \in DevType /\ e.up = d.up /\ e.halted = d.halted /\ e.ap = d.ap
      /\ e.ctl = [d.ctl EXCEPT ![p] = c] /\ e.link = d.link /\ e.recvq = d.recvq
      /\ e.sendq = d.sendq /\ e.owed = d.owed
  BY DEF WithCtl, DevType
<1>2. e.ctl[p] = c /\ \A r \in Prios : r # p => e.ctl[r] = d.ctl[r]
  BY <1>1 DEF DevType
<1> QED BY <1>1, <1>2 DEF Only, At

LEMMA OnlyTimer ==
    ASSUME NEW d \in DevType, NEW p \in Prios, NEW t \in TimerType, NEW e, e = WithTimer(d, p, t)
    PROVE  Only(d, e, p) /\ e.halted = d.halted /\ At(e, p) = At(d, p)
<1>1. /\ e \in DevType /\ e.up = d.up /\ e.halted = d.halted /\ e.ap = d.ap
      /\ e.ctl = d.ctl /\ e.link = d.link /\ e.recvq = d.recvq
      /\ e.sendq = d.sendq /\ e.owed = d.owed
  BY DEF WithTimer, DevType
<1> QED BY <1>1 DEF Only, At

LEMMA OnlyLink ==
    ASSUME NEW d \in DevType, NEW p \in Prios, NEW F \in Seq(Frame),
           NEW e, e = WithLink(d, p, F)
    PROVE  /\ Only(d, e, p) /\ e.halted = d.halted
           /\ e.ap[p] = d.ap[p] /\ e.ctl[p] = d.ctl[p] /\ e.link[p] = F
           /\ e.recvq[p] = d.recvq[p] /\ e.sendq[p] = d.sendq[p] /\ e.owed[p] = d.owed[p]
<1>1. /\ e \in DevType /\ e.up = d.up /\ e.halted = d.halted /\ e.ap = d.ap
      /\ e.ctl = d.ctl /\ e.link = [d.link EXCEPT ![p] = F] /\ e.recvq = d.recvq
      /\ e.sendq = d.sendq /\ e.owed = d.owed
  BY DEF WithLink, DevType
<1>2. e.link[p] = F /\ \A r \in Prios : r # p => e.link[r] = d.link[r]
  BY <1>1 DEF DevType
<1> QED BY <1>1, <1>2 DEF Only, At

LEMMA OnlyRecvq ==
    ASSUME NEW d \in DevType, NEW p \in Prios, NEW B \in Seq(Frame),
           NEW e, e = WithRecvq(d, p, B)
    PROVE  /\ Only(d, e, p) /\ e.halted = d.halted
           /\ e.ap[p] = d.ap[p] /\ e.ctl[p] = d.ctl[p] /\ e.link[p] = d.link[p]
           /\ e.recvq[p] = B /\ e.sendq[p] = d.sendq[p] /\ e.owed[p] = d.owed[p]
<1>1. /\ e \in DevType /\ e.up = d.up /\ e.halted = d.halted /\ e.ap = d.ap
      /\ e.ctl = d.ctl /\ e.link = d.link /\ e.recvq = [d.recvq EXCEPT ![p] = B]
      /\ e.sendq = d.sendq /\ e.owed = d.owed
  BY DEF WithRecvq, DevType
<1>2. e.recvq[p] = B /\ \A r \in Prios : r # p => e.recvq[r] = d.recvq[r]
  BY <1>1 DEF DevType
<1> QED BY <1>1, <1>2 DEF Only, At

LEMMA OnlySendq ==
    ASSUME NEW d \in DevType, NEW p \in Prios, NEW q \in Seq(Alarms),
           NEW e, e = WithSendq(d, p, q)
    PROVE  /\ Only(d, e, p) /\ e.halted = d.halted
           /\ e.ap[p] = d.ap[p] /\ e.ctl[p] = d.ctl[p] /\ e.link[p] = d.link[p]
           /\ e.recvq[p] = d.recvq[p] /\ e.sendq[p] = q /\ e.owed[p] = d.owed[p]
<1>1. /\ e \in DevType /\ e.up = d.up /\ e.halted = d.halted /\ e.ap = d.ap
      /\ e.ctl = d.ctl /\ e.link = d.link /\ e.recvq = d.recvq
      /\ e.sendq = [d.sendq EXCEPT ![p] = q] /\ e.owed = d.owed
  BY DEF WithSendq, DevType
<1>2. e.sendq[p] = q /\ \A r \in Prios : r # p => e.sendq[r] = d.sendq[r]
  BY <1>1 DEF DevType
<1> QED BY <1>1, <1>2 DEF Only, At

LEMMA OnlyOwed ==
    ASSUME NEW d \in DevType, NEW p \in Prios, NEW o \in Alarms \cup {None},
           NEW e, e = WithOwed(d, p, o)
    PROVE  /\ Only(d, e, p) /\ e.halted = d.halted
           /\ e.ap[p] = d.ap[p] /\ e.ctl[p] = d.ctl[p] /\ e.link[p] = d.link[p]
           /\ e.recvq[p] = d.recvq[p] /\ e.sendq[p] = d.sendq[p] /\ e.owed[p] = o
<1>1. /\ e \in DevType /\ e.up = d.up /\ e.halted = d.halted /\ e.ap = d.ap
      /\ e.ctl = d.ctl /\ e.link = d.link /\ e.recvq = d.recvq
      /\ e.sendq = d.sendq /\ e.owed = [d.owed EXCEPT ![p] = o]
  BY DEF WithOwed, DevType
<1>2. e.owed[p] = o /\ \A r \in Prios : r # p => e.owed[r] = d.owed[r]
  BY <1>1 DEF DevType
<1> QED BY <1>1, <1>2 DEF Only, At

\* A frame sent either way arrives or is lost.
LEMMA OnlyTransmit ==
    ASSUME NEW d \in DevType, NEW p \in Prios, NEW f \in Frame, NEW sent,
           NEW e, e = Transmit(d, p, f, sent)
    PROVE  /\ Only(d, e, p) /\ e.halted = d.halted
           /\ e.ap[p] = d.ap[p] /\ e.ctl[p] = d.ctl[p]
           /\ e.link[p] \in {d.link[p], Append(d.link[p], f)}
           /\ e.recvq[p] = d.recvq[p] /\ e.sendq[p] = d.sendq[p] /\ e.owed[p] = d.owed[p]
<1>1. CASE e = d
  BY <1>1 DEF Only
<1>2. CASE e = [d EXCEPT !.link[p] = Append(d.link[p], f)]
  <2> DEFINE G == Append(d.link[p], f)
  <2>1. G \in Seq(Frame) /\ e = WithLink(d, p, G)
    BY <1>2, AtFacts DEF WithLink
  <2>2. G = Append(d.link[p], f)
    OBVIOUS
  <2> HIDE DEF G
  <2>3. Only(d, e, p) /\ e.halted = d.halted /\ e.link[p] = G
        /\ e.ap[p] = d.ap[p] /\ e.ctl[p] = d.ctl[p] /\ e.sendq[p] = d.sendq[p]
        /\ e.owed[p] = d.owed[p] /\ e.recvq[p] = d.recvq[p]
    BY <2>1, OnlyLink
  <2> QED BY <2>2, <2>3
<1>3. e = d \/ e = [d EXCEPT !.link[p] = Append(d.link[p], f)]
  BY DEF Transmit, Put
<1> QED BY <1>1, <1>2, <1>3

LEMMA OnlyReceive ==
    ASSUME NEW d \in DevType, NEW p \in Prios, NEW f \in Frame, NEW arrives,
           NEW e, e = Receive(d, p, f, arrives)
    PROVE  /\ Only(d, e, p) /\ e.halted = d.halted
           /\ e.ap[p] = d.ap[p] /\ e.ctl[p] = d.ctl[p] /\ e.link[p] = d.link[p]
           /\ e.recvq[p] \in {d.recvq[p], Append(d.recvq[p], f)}
           /\ e.sendq[p] = d.sendq[p] /\ e.owed[p] = d.owed[p]
<1>1. CASE e = d
  BY <1>1 DEF Only
<1>2. CASE e = [d EXCEPT !.recvq[p] = Append(d.recvq[p], f)]
  <2> DEFINE G == Append(d.recvq[p], f)
  <2>1. G \in Seq(Frame) /\ e = WithRecvq(d, p, G)
    BY <1>2, AtFacts DEF WithRecvq
  <2>2. G = Append(d.recvq[p], f)
    OBVIOUS
  <2> HIDE DEF G
  <2>3. Only(d, e, p) /\ e.halted = d.halted /\ e.recvq[p] = G
        /\ e.ap[p] = d.ap[p] /\ e.ctl[p] = d.ctl[p] /\ e.sendq[p] = d.sendq[p]
        /\ e.owed[p] = d.owed[p] /\ e.link[p] = d.link[p]
    BY <2>1, OnlyRecvq
  <2> QED BY <2>2, <2>3
<1>3. e = d \/ e = [d EXCEPT !.recvq[p] = Append(d.recvq[p], f)]
  BY DEF Receive
<1> QED BY <1>1, <1>2, <1>3

-----------------------------------------------------------------------------
\* What is known of a frame f that the device takes from its receive queue.
AckKnown(d, p, f) ==
    /\ d.ap[p].send = d.ctl[p].exp => f.ack # d.ap[p].send
    /\ d.ap[p].send # d.ctl[p].exp /\ f.ack = d.ap[p].send =>
         \A i \in 1 .. Len(d.recvq[p]) : d.recvq[p][i].ack # NextSeq(d.ap[p].send)
DataKnown(d, p, f) ==
    f.kind \in DataKinds /\ f.send = d.ap[p].exp =>
      /\ f = d.ctl[p].out /\ d.ctl[p].send = d.ap[p].exp
      /\ \A i \in 1 .. Len(d.recvq[p]) :
            d.recvq[p][i].kind \in DataKinds => d.recvq[p][i].send # NextSeq(d.ap[p].exp)

LEMMA TackIndGoes ==
    ASSUME SeqMod > 2, NEW d \in DevType, NEW p \in Prios, NEW f, Good(p, At(d, p)),
           AckKnown(d, p, f), NEW e, e = TackInd(d, p, f)
    PROVE  /\ Only(d, e, p) /\ Good(p, At(e, p)) /\ Same(At(d, p), At(e, p))
           /\ e.ctl[p] = d.ctl[p] /\ e.recvq[p] = d.recvq[p]
           /\ e.ap[p].exp = d.ap[p].exp /\ e.ap[p].exp_o = d.ap[p].exp_o
           /\ e.ap[p].rta # None => f.ack # e.ap[p].send
<1> DEFINE s == At(d, p)
           t == At(e, p)
           m == d.ap[p]
<1>1. /\ s \in AtType /\ s.m = m /\ s.c = d.ctl[p] /\ s.F = d.link[p] /\ s.B = d.recvq[p]
      /\ s.q = d.sendq[p] /\ s.o = d.owed[p] /\ m \in Machines
  BY AtFacts
<1>2. m.apms = IF m.rta = None THEN "OPEN" ELSE "WTACK"
  BY <1>1 DEF Good
<1>3. CASE m.apms = "WTACK" /\ f.ack = m.send
  <2>1. m.rta # None /\ m.send # d.ctl[p].exp
    BY <1>2, <1>3 DEF AckKnown
  <2>2. Acknowledged(m) \in Machines /\ Acknowledged(m).exp = m.exp /\ Acknowledged(m).exp_o = m.exp_o
    <3>1. NextSeq(m.send) \in SeqNo
      BY <1>1, NextSeqType DEF Machines
    <3> QED BY <1>1, <3>1 DEF Acknowledged, Machines
  <2>3. e = With(d, p, Acknowledged(m))
    BY <1>3 DEF TackInd
  <2>4. /\ Only(d, e, p)
        /\ e.ap[p] = Acknowledged(m) /\ e.ctl[p] = d.ctl[p] /\ e.link[p] = d.link[p]
        /\ e.recvq[p] = d.recvq[p] /\ e.sendq[p] = d.sendq[p] /\ e.owed[p] = d.owed[p]
    BY <2>2, <2>3, OnlyWith
  <2>5. /\ t \in AtType /\ t.m = e.ap[p] /\ t.c = e.ctl[p] /\ t.F = e.link[p] /\ t.B = e.recvq[p]
        /\ t.q = e.sendq[p] /\ t.o = e.owed[p]
    BY <2>4, AtFacts DEF Only
  <2> HIDE DEF s, t, m
  <2>6. \A i \in 1 .. Len(s.B) : s.B[i].ack # NextSeq(s.m.send)
    BY <1>1, <1>3, <2>1 DEF AckKnown, m
  <2>7. Good(p, s)
    BY DEF s
  <2>8. Good(p, t) /\ Same(s, t) /\ t.m.rta = None
    BY <1>1, <2>1, <2>4, <2>5, <2>6, <2>7, GoodAcked
  <2> QED BY <2>2, <2>4, <2>5, <2>8 DEF s, t, m
<1>4. CASE ~(m.apms = "WTACK" /\ f.ack = m.send)
  <2>1. e = d
    BY <1>4 DEF TackInd
  <2> QED BY <1>2, <1>4, <2>1 DEF Only, Same
<1> QED BY <1>3, <1>4

\* The device sends a frame that is none of its DATA frames again, or none.
LEMMA FrameGoes ==
    ASSUME NEW d \in DevType, NEW p \in Prios, NEW h \in Frame, Good(p, At(d, p)), NEW sent,
           Joined(DevSide(d.ap[p]), CtlSide(d.ctl[p]), Append(d.link[p], h), d.recvq[p]),
           NEW e, e = Transmit(d, p, h, sent)
    PROVE  /\ Only(d, e, p) /\ Good(p, At(e, p)) /\ Same(At(d, p), At(e, p))
<1> DEFINE s == At(d, p)
           t == At(e, p)
<1>1. /\ s \in AtType /\ s.m = d.ap[p] /\ s.c = d.ctl[p] /\ s.F = d.link[p] /\ s.B = d.recvq[p]
      /\ s.q = d.sendq[p] /\ s.o = d.owed[p] /\ Good(p, s)
  BY AtFacts
<1>2. /\ Only(d, e, p) /\ e.ap[p] = d.ap[p] /\ e.ctl[p] = d.ctl[p]
      /\ e.link[p] \in {d.link[p], Append(d.link[p], h)}
      /\ e.recvq[p] = d.recvq[p] /\ e.sendq[p] = d.sendq[p] /\ e.owed[p] = d.owed[p]
  BY OnlyTransmit
<1>3. /\ t \in AtType /\ t.m = e.ap[p] /\ t.c = e.ctl[p] /\ t.F = e.link[p] /\ t.B = e.recvq[p]
      /\ t.q = e.sendq[p] /\ t.o = e.owed[p]
  BY <1>2, AtFacts DEF Only
<1> HIDE DEF s, t
<1>4. Joined(DevSide(s.m), CtlSide(s.c), s.F, s.B)
  BY <1>1 DEF Good
<1>5. Joined(DevSide(s.m), CtlSide(s.c), t.F, t.B)
  BY <1>1, <1>2, <1>3, <1>4
<1>6. Good(p, t) /\ Same(s, t)
  BY <1>1, <1>2, <1>3, <1>5, GoodAsWell
<1> QED BY <1>2, <1>6 DEF s, t

LEMMA ReplyGoes ==
    ASSUME SeqMod > 2, NEW d \in DevType, NEW p \in Prios, Good(p, At(d, p)),
           NEW kind \in {"tack", "nack"}, NEW sent, NEW e, e = Reply(d, p, kind, sent)
    PROVE  /\ Only(d, e, p) /\ Good(p, At(e, p)) /\ Same(At(d, p), At(e, p))
<1> DEFINE h == [kind |-> kind, alarm |-> None, send |-> d.ap[p].send_o, ack |-> d.ap[p].exp_o]
           x == DevSide(d.ap[p])
           y == CtlSide(d.ctl[p])
<1>1. /\ At(d, p).m = d.ap[p] /\ At(d, p).c = d.ctl[p] /\ At(d, p).F = d.link[p]
      /\ At(d, p).B = d.recvq[p] /\ d.ap[p] \in Machines /\ d.ctl[p] \in Controllers
      /\ d.link[p] \in Seq(Frame) /\ d.recvq[p] \in Seq(Frame)
  BY AtFacts
<1>2. h \in Frame /\ h.kind \notin DataKinds
  BY <1>1 DEF Frame, Machines, Kinds, DataKinds
<1>3. x \in SideType /\ y \in SideType /\ x.exp_o = d.ap[p].exp_o
  BY <1>1, DevFields, CtlFields
<1>4. Joined(x, y, d.link[p], d.recvq[p])
  BY <1>1 DEF Good
<1>5. h.ack = x.exp_o /\ e = Transmit(d, p, h, sent)
  BY <1>3 DEF Reply
<1> HIDE DEF h, x, y
<1>6. Joined(x, y, Append(d.link[p], h), d.recvq[p])
  BY <1>1, <1>2, <1>3, <1>4, <1>5, JoinedReplies
<1> QED BY <1>2, <1>5, <1>6, FrameGoes DEF x, y

\* APMR counts a frame and acknowledges it: what there is when it hands over
\* the contents.
Handed(d, p) == Reply(With(d, p, Counted(d.ap[p])), p, "tack", TRUE)

LEMMA HandedFacts ==
    ASSUME NEW d \in DevType, NEW p \in Prios, NEW e, e = Handed(d, p)
    PROVE  /\ Only(d, e, p)
           /\ e.ap[p] \in Machines /\ e.ap[p].exp = NextSeq(d.ap[p].exp) /\ e.ap[p].exp_o = d.ap[p].exp
           /\ e.ap[p].send = d.ap[p].send /\ e.ap[p].rta = d.ap[p].rta
           /\ e.ap[p].apms = d.ap[p].apms /\ e.ap[p].apmr = d.ap[p].apmr
           /\ e.ap[p].alpmi = d.ap[p].alpmi /\ e.ap[p].alpmr = d.ap[p].alpmr
           /\ e.ctl[p] = d.ctl[p] /\ e.recvq[p] = d.recvq[p]
           /\ e.sendq[p] = d.sendq[p] /\ e.owed[p] = d.owed[p]
           /\ \E h \in Frame : /\ h.kind = "tack" /\ h.ack = d.ap[p].exp
                               /\ e.link[p] \in {d.link[p], Append(d.link[p], h)}
<1> DEFINE n == Counted(d.ap[p])
           g == With(d, p, n)
           h == [kind |-> "tack", alarm |-> None, send |-> g.ap[p].send_o, ack |-> g.ap[p].exp_o]
<1>1. d.ap[p] \in Machines /\ NextSeq(d.ap[p].exp) \in SeqNo
  BY AtFacts, NextSeqType DEF Machines
<1>2. /\ n \in Machines /\ n.exp = NextSeq(d.ap[p].exp) /\ n.exp_o = d.ap[p].exp
      /\ n.send = d.ap[p].send /\ n.rta = d.ap[p].rta
      /\ n.apms = d.ap[p].apms /\ n.apmr = d.ap[p].apmr
      /\ n.alpmi = d.ap[p].alpmi /\ n.alpmr = d.ap[p].alpmr
  BY <1>1 DEF Counted, Machines
<1> HIDE DEF n
<1>3. /\ Only(d, g, p) /\ g \in DevType
      /\ g.ap[p] = n /\ g.ctl[p] = d.ctl[p] /\ g.link[p] = d.link[p]
      /\ g.recvq[p] = d.recvq[p] /\ g.sendq[p] = d.sendq[p] /\ g.owed[p] = d.owed[p]
  BY <1>2, OnlyWith DEF Only
<1>4. PICK sent \in BOOLEAN : e = Transmit(g, p, h, sent)
  BY DEF Handed, Reply, n
<1> HIDE DEF g
<1>5. h \in Frame /\ h.kind = "tack" /\ h.ack = d.ap[p].exp
  BY <1>2, <1>3 DEF Frame, Machines, Kinds
<1> HIDE DEF h
<1>6. /\ Only(g, e, p)
      /\ e.ap[p] = g.ap[p] /\ e.ctl[p] = g.ctl[p]
      /\ e.link[p] \in {g.link[p], Append(g.link[p], h)}
      /\ e.recvq[p] = g.recvq[p] /\ e.sendq[p] = g.sendq[p] /\ e.owed[p] = g.owed[p]
  BY <1>3, <1>4, <1>5, OnlyTransmit
<1>7. Only(d, e, p)
  BY <1>3, <1>6, OnlyTwice
<1> QED BY <1>2, <1>3, <1>5, <1>6, <1>7

\* The acknowledgement in the frame has been seen to: d is what it left.
LEMMA NotifyGoes ==
    ASSUME SeqMod > 2, NEW d \in DevType, NEW p \in Prios, NEW f \in Frame, Good(p, At(d, p)),
           f.kind = "notify", f.send = d.ap[p].exp, DataKnown(d, p, f),
           d.ap[p].rta # None => f.ack # d.ap[p].send
    PROVE  Goes(d, NotifyInd(Handed(d, p), p, f), p)
<1> DEFINE r == Handed(d, p)
           k == [r.ap[p] EXCEPT !.alpmr = "W_USER_ACK"]
           w == With(r, p, k)
           g == WithOwed(w, p, f.alarm)
           s == At(d, p)
           t == At(g, p)
<1>1. /\ Only(d, r, p) /\ r \in DevType
      /\ r.ap[p] \in Machines /\ r.ap[p].exp = NextSeq(d.ap[p].exp) /\ r.ap[p].exp_o = d.ap[p].exp
      /\ r.ap[p].send = d.ap[p].send /\ r.ap[p].rta = d.ap[p].rta
      /\ r.ap[p].apms = d.ap[p].apms /\ r.ap[p].apmr = d.ap[p].apmr
      /\ r.ap[p].alpmi = d.ap[p].alpmi /\ r.ap[p].alpmr = d.ap[p].alpmr
      /\ r.ctl[p] = d.ctl[p] /\ r.recvq[p] = d.recvq[p]
      /\ r.sendq[p] = d.sendq[p] /\ r.owed[p] = d.owed[p]
      /\ \E h \in Frame : /\ h.kind = "tack" /\ h.ack = d.ap[p].exp
                          /\ r.link[p] \in {d.link[p], Append(d.link[p], h)}
  BY HandedFacts DEF Only
<1>2. /\ s \in AtType /\ s.m = d.ap[p] /\ s.c = d.ctl[p] /\ s.F = d.link[p] /\ s.B = d.recvq[p]
      /\ s.q = d.sendq[p] /\ s.o = d.owed[p] /\ Good(p, s)
  BY AtFacts
<1> HIDE DEF r
<1>3. CASE r.ap[p].alpmr = "W_NOTIFY"
  <2>1. /\ k \in Machines /\ k.alpmr = "W_USER_ACK" /\ k.exp = r.ap[p].exp /\ k.exp_o = r.ap[p].exp_o
        /\ k.send = r.ap[p].send /\ k.rta = r.ap[p].rta /\ k.apms = r.ap[p].apms
        /\ k.apmr = r.ap[p].apmr /\ k.alpmi = r.ap[p].alpmi
    BY <1>1 DEF Machines
  <2>2. NotifyInd(r, p, f) = g
    BY <1>3 DEF NotifyInd, WithOwed
  <2> HIDE DEF k
  <2>3. /\ Only(r, w, p) /\ w \in DevType
        /\ w.ap[p] = k /\ w.ctl[p] = r.ctl[p] /\ w.link[p] = r.link[p]
        /\ w.recvq[p] = r.recvq[p] /\ w.sendq[p] = r.sendq[p] /\ w.owed[p] = r.owed[p]
    BY <1>1, <2>1, OnlyWith DEF Only
  <2> HIDE DEF w
  <2>4. f.alarm \in Alarms \cup {None}
    BY DEF Frame
  <2>5. /\ Only(w, g, p) /\ g \in DevType
        /\ g.ap[p] = w.ap[p] /\ g.ctl[p] = w.ctl[p] /\ g.link[p] = w.link[p]
        /\ g.recvq[p] = w.recvq[p] /\ g.sendq[p] = w.sendq[p] /\ g.owed[p] = f.alarm
    BY <2>3, <2>4, OnlyOwed DEF Only
  <2> HIDE DEF g
  <2>6. /\ t \in AtType /\ t.m = g.ap[p] /\ t.c = g.ctl[p] /\ t.F = g.link[p] /\ t.B = g.recvq[p]
        /\ t.q = g.sendq[p] /\ t.o = g.owed[p]
    BY <2>5, AtFacts
  <2> HIDE DEF s, t
  <2>7. f = s.c.out /\ f # None /\ s.c.send = s.m.exp
    BY <1>2, FrameAssumption DEF DataKnown, DataKinds
  <2>8. \A i \in 1 .. Len(s.B) : s.B[i].kind \in DataKinds => s.B[i].send # NextSeq(s.m.exp)
    BY <1>2 DEF DataKnown, DataKinds
  <2>9. PICK h \in Frame : /\ h.kind = "tack" /\ h.ack = s.m.exp
                           /\ t.F \in {s.F, Append(s.F, h)}
    BY <1>1, <1>2, <2>3, <2>5, <2>6
  <2>10. /\ t.m.exp = NextSeq(s.m.exp) /\ t.m.exp_o = s.m.exp /\ t.m.alpmr = "W_USER_ACK"
         /\ t.m.send = s.m.send /\ t.m.rta = s.m.rta /\ t.m.apms = s.m.apms /\ t.m.apmr = s.m.apmr
         /\ t.m.alpmi = s.m.alpmi /\ s.m.alpmr = "W_NOTIFY"
         /\ t.c = s.c /\ t.B = s.B /\ t.q = s.q /\ t.o = f.alarm
    BY <1>1, <1>2, <1>3, <2>1, <2>3, <2>5, <2>6
  <2>11. s.m.rta # None => f.ack # s.m.send
    BY <1>2
  <2>12. Good(p, t) /\ Serving(s, t)
    BY <1>2, <2>6, <2>7, <2>8, <2>9, <2>10, <2>11, GoodIndicates
  <2>13. Only(d, g, p)
    BY <1>1, <2>3, <2>5, OnlyTwice
  <2> QED BY <2>2, <2>12, <2>13 DEF Goes, s, t, r
<1>4. CASE r.ap[p].alpmr # "W_NOTIFY"
  <2>1. r.ap[p].alpmr # "W_START"
    BY <1>1, <1>2 DEF Good
  <2>2. NotifyInd(r, p, f) = Close(r)
    BY <1>4, <2>1 DEF NotifyInd
  <2> QED BY <1>1, <2>2, CloseOver DEF Goes, r
<1> QED BY <1>3, <1>4

LEMMA AnswerGoes ==
    ASSUME SeqMod > 2, NEW d \in DevType, NEW p \in Prios, NEW f \in Frame, Good(p, At(d, p)),
           f.kind = "answer", f.send = d.ap[p].exp, DataKnown(d, p, f),
           d.ap[p].rta # None => f.ack # d.ap[p].send
    PROVE  Goes(d, AnswerInd(Handed(d, p), p), p)
<1> DEFINE r == Handed(d, p)
           k == [r.ap[p] EXCEPT !.alpmi = "W_ALARM"]
           g == AnswerInd(r, p)
           s == At(d, p)
           t == At(g, p)
<1>1. /\ Only(d, r, p) /\ r \in DevType
      /\ r.ap[p] \in Machines /\ r.ap[p].exp = NextSeq(d.ap[p].exp) /\ r.ap[p].exp_o = d.ap[p].exp
      /\ r.ap[p].send = d.ap[p].send /\ r.ap[p].rta = d.ap[p].rta
      /\ r.ap[p].apms = d.ap[p].apms /\ r.ap[p].apmr = d.ap[p].apmr
      /\ r.ap[p].alpmi = d.ap[p].alpmi /\ r.ap[p].alpmr = d.ap[p].alpmr
      /\ r.ctl[p] = d.ctl[p] /\ r.recvq[p] = d.recvq[p]
      /\ r.sendq[p] = d.sendq[p] /\ r.owed[p] = d.owed[p]
      /\ \E h \in Frame : /\ h.kind = "tack" /\ h.ack = d.ap[p].exp
                          /\ r.link[p] \in {d.link[p], Append(d.link[p], h)}
  BY HandedFacts DEF Only
<1>2. /\ s \in AtType /\ s.m = d.ap[p] /\ s.c = d.ctl[p] /\ s.F = d.link[p] /\ s.B = d.recvq[p]
      /\ s.q = d.sendq[p] /\ s.o = d.owed[p] /\ Good(p, s)
  BY AtFacts
<1> HIDE DEF r
<1>3. /\ k \in Machines /\ k.alpmi = "W_ALARM" /\ k.exp = r.ap[p].exp /\ k.exp_o = r.ap[p].exp_o
      /\ k.send = r.ap[p].send /\ k.rta = r.ap[p].rta /\ k.apms = r.ap[p].apms
      /\ k.apmr = r.ap[p].apmr /\ k.alpmr = r.ap[p].alpmr
  BY <1>1 DEF Machines
<1>4. r.ap[p].alpmi \in {"W_ALARM", "W_ACK"}
  BY <1>1, <1>2 DEF Good, Machines
<1>5. g = IF r.ap[p].alpmi = "W_ACK" THEN With(r, p, k) ELSE r
  BY DEF AnswerInd
<1> HIDE DEF g, k
<1>6. /\ Only(r, g, p) /\ g \in DevType
      /\ g.ap[p].alpmi = "W_ALARM" /\ g.ap[p].exp = r.ap[p].exp /\ g.ap[p].exp_o = r.ap[p].exp_o
      /\ g.ap[p].send = r.ap[p].send /\ g.ap[p].rta = r.ap[p].rta /\ g.ap[p].apms = r.ap[p].apms
      /\ g.ap[p].apmr = r.ap[p].apmr /\ g.ap[p].alpmr = r.ap[p].alpmr
      /\ g.ctl[p] = r.ctl[p] /\ g.link[p] = r.link[p]
      /\ g.recvq[p] = r.recvq[p] /\ g.sendq[p] = r.sendq[p] /\ g.owed[p] = r.owed[p]
  <2>1. CASE r.ap[p].alpmi = "W_ACK"
    BY <1>1, <1>3, <1>5, <2>1, OnlyWith DEF Only
  <2>2. CASE r.ap[p].alpmi = "W_ALARM"
    BY <1>1, <1>5, <2>2 DEF Only
  <2> QED BY <1>4, <2>1, <2>2
<1>7. /\ t \in AtType /\ t.m = g.ap[p] /\ t.c = g.ctl[p] /\ t.F = g.link[p] /\ t.B = g.recvq[p]
      /\ t.q = g.sendq[p] /\ t.o = g.owed[p]
  BY <1>6, AtFacts
<1> HIDE DEF s, t
<1>8. f = s.c.out /\ f # None /\ s.c.send = s.m.exp
  BY <1>2, FrameAssumption DEF DataKnown, DataKinds
<1>9. \A i \in 1 .. Len(s.B) : s.B[i].kind \in DataKinds => s.B[i].send # NextSeq(s.m.exp)
  BY <1>2 DEF DataKnown, DataKinds
<1>10. PICK h \in Frame : /\ h.kind = "tack" /\ h.ack = s.m.exp
                          /\ t.F \in {s.F, Append(s.F, h)}
  BY <1>1, <1>2, <1>6, <1>7
<1>11. /\ t.m.exp = NextSeq(s.m.exp) /\ t.m.exp_o = s.m.exp /\ t.m.alpmi = "W_ALARM"
       /\ t.m.send = s.m.send /\ t.m.rta = s.m.rta /\ t.m.apms = s.m.apms /\ t.m.apmr = s.m.apmr
       /\ t.m.alpmr = s.m.alpmr /\ t.c = s.c /\ t.B = s.B /\ t.q = s.q /\ t.o = s.o
  BY <1>1, <1>2, <1>6, <1>7
<1>12. s.m.rta # None => f.ack # s.m.send
  BY <1>2
<1>13. Good(p, t) /\ Serving(s, t)
  BY <1>2, <1>7, <1>8, <1>9, <1>10, <1>11, <1>12, GoodConfirms
<1>14. Only(d, g, p)
  BY <1>1, <1>6, OnlyTwice
<1> QED BY <1>13, <1>14 DEF Goes, s, t, r, g

LEMMA AcceptedGoes ==
    ASSUME SeqMod > 2, NEW d \in DevType, NEW p \in Prios, NEW f \in Frame, Good(p, At(d, p)),
           AckKnown(d, p, f), DataKnown(d, p, f), f.kind \in DataKinds, f.send = d.ap[p].exp
    PROVE  Goes(d, Accepted(d, p, f, TRUE), p)
<1> DEFINE t == TackInd(d, p, f)
           x == DevSide(d.ap[p])
           y == CtlSide(d.ctl[p])
<1>1. f.kind \in {"notify", "answer"}
  <2>1. /\ At(d, p).m = d.ap[p] /\ At(d, p).c = d.ctl[p] /\ At(d, p).F = d.link[p]
        /\ At(d, p).B = d.recvq[p] /\ d.ctl[p] \in Controllers
    BY AtFacts
  <2>2. Joined(x, y, d.link[p], d.recvq[p])
    BY <2>1 DEF Good
  <2>3. y.out = f /\ f # None
    BY <2>1, CtlFields, FrameAssumption DEF DataKnown
  <2> HIDE DEF x, y
  <2> QED BY <2>2, <2>3 DEF Joined, Half, Stands
<1>2. /\ Only(d, t, p) /\ Good(p, At(t, p)) /\ Same(At(d, p), At(t, p))
      /\ t.ctl[p] = d.ctl[p] /\ t.recvq[p] = d.recvq[p]
      /\ t.ap[p].exp = d.ap[p].exp /\ t.ap[p].exp_o = d.ap[p].exp_o
      /\ t.ap[p].rta # None => f.ack # t.ap[p].send
  BY TackIndGoes
<1>3. Accepted(d, p, f, TRUE) = IF f.kind = "notify" THEN NotifyInd(Handed(t, p), p, f)
                                ELSE AnswerInd(Handed(t, p), p)
  BY <1>1 DEF Accepted, Handed
<1> HIDE DEF t
<1>4. t \in DevType /\ f.send = t.ap[p].exp /\ DataKnown(t, p, f)
  BY <1>2 DEF Only, DataKnown
<1>5. Goes(t, Accepted(d, p, f, TRUE), p)
  <2>1. CASE f.kind = "notify"
    BY <1>2, <1>3, <1>4, <2>1, NotifyGoes
  <2>2. CASE f.kind = "answer"
    BY <1>2, <1>3, <1>4, <2>2, AnswerGoes
  <2> QED BY <1>1, <2>1, <2>2
<1> QED BY <1>2, <1>5, GoesOn

LEMMA HandleGoes ==
    ASSUME SeqMod > 2, NEW d \in DevType, NEW p \in Prios, NEW f \in Frame, Good(p, At(d, p)),
           AckKnown(d, p, f), DataKnown(d, p, f)
    PROVE  Goes(d, Handle(d, p, f, TRUE), p)
<1> DEFINE t == TackInd(d, p, f)
           u == Reply(t, p, "tack", TRUE)
           n == Reply(d, p, "nack", TRUE)
<1>1. /\ Only(d, t, p) /\ Good(p, At(t, p)) /\ Same(At(d, p), At(t, p)) /\ t \in DevType
  BY TackIndGoes DEF Only
<1>2. Goes(d, d, p)
  BY ServingFacts DEF Goes, Only
<1>3. Goes(d, t, p)
  BY <1>1, ServingFacts DEF Goes
<1>4. Goes(d, n, p)
  <2>1. Only(d, n, p) /\ Good(p, At(n, p)) /\ Same(At(d, p), At(n, p))
    <3>1. PICK sent \in BOOLEAN : n = Reply(d, p, "nack", sent)
      OBVIOUS
    <3> HIDE DEF n
    <3> QED BY <3>1, ReplyGoes
  <2> HIDE DEF n
  <2> QED BY <2>1, ServingFacts DEF Goes
<1>5. Goes(d, u, p)
  <2>1. Only(t, u, p) /\ Good(p, At(u, p)) /\ Same(At(t, p), At(u, p))
    <3>1. PICK sent \in BOOLEAN : u = Reply(t, p, "tack", sent)
      OBVIOUS
    <3> HIDE DEF u, t
    <3> QED BY <1>1, <3>1, ReplyGoes
  <2> HIDE DEF u, t
  <2>2. Goes(t, u, p)
    BY <2>1, ServingFacts DEF Goes
  <2> QED BY <1>1, <2>2, GoesOn
<1>6. Goes(d, Close(d), p)
  BY CloseOver DEF Goes
<1>7. CASE f.kind \in DataKinds
  <2>1. Handle(d, p, f, TRUE) = DataInd(d, p, f, TRUE)
    BY <1>7 DEF Handle, DataKinds
  <2>2. d.ap[p].apmr = "OPEN"
    BY AtFacts DEF Good
  <2>3. CASE f.send = d.ap[p].exp
    <3>1. DataInd(d, p, f, TRUE) = Accepted(d, p, f, TRUE)
      BY <2>2, <2>3 DEF DataInd
    <3> QED BY <1>7, <2>1, <2>3, <3>1, AcceptedGoes
  <2>4. CASE f.send # d.ap[p].exp
    <3>1. DataInd(d, p, f, TRUE) = u \/ DataInd(d, p, f, TRUE) = n
      BY <2>2, <2>4 DEF DataInd
    <3> QED BY <1>4, <1>5, <2>1, <3>1
  <2> QED BY <2>3, <2>4
<1>8. CASE f.kind \notin DataKinds
  <2>1. Handle(d, p, f, TRUE) \in {t, d, Close(d)}
    <3>1. f.kind \in Kinds
      BY DEF Frame
    <3> QED BY <1>8, <3>1 DEF Handle, Kinds
  <2> QED BY <1>2, <1>3, <1>6, <2>1
<1> QED BY <1>7, <1>8

Taken(d, p) == [d EXCEPT !.recvq[p] = Tail(d.recvq[p])]

LEMMA TakenFacts ==
    ASSUME NEW d \in DevType, NEW p \in Prios, Tail(d.recvq[p]) \in Seq(Frame)
    PROVE  /\ Only(d, Taken(d, p), p)
           /\ Taken(d, p).ap[p] = d.ap[p] /\ Taken(d, p).ctl[p] = d.ctl[p]
           /\ Taken(d, p).link[p] = d.link[p] /\ Taken(d, p).recvq[p] = Tail(d.recvq[p])
           /\ Taken(d, p).sendq[p] = d.sendq[p] /\ Taken(d, p).owed[p] = d.owed[p]
<1> DEFINE e == Taken(d, p)
<1>1. /\ e \in DevType /\ e.up = d.up /\ e.ap = d.ap
      /\ e.ctl = d.ctl /\ e.link = d.link /\ e.recvq = [d.recvq EXCEPT ![p] = Tail(d.recvq[p])]
      /\ e.sendq = d.sendq /\ e.owed = d.owed
  BY DEF Taken, DevType
<1> HIDE DEF e
<1>2. e.recvq[p] = Tail(d.recvq[p]) /\ \A r \in Prios : r # p => e.recvq[r] = d.recvq[r]
  BY <1>1 DEF DevType
<1>3. Only(d, e, p)
  BY <1>1, <1>2 DEF Only, At
<1> QED BY <1>1, <1>2, <1>3 DEF e

\* A frame is taken from the receive queue.
LEMMA TakenGoes ==
    ASSUME SeqMod > 2, NEW d \in DevType, NEW p \in Prios, Good(p, At(d, p)), d.recvq[p] # << >>
    PROVE  LET f == Head(d.recvq[p])
               e == Taken(d, p)
           IN  /\ Only(d, e, p) /\ Good(p, At(e, p)) /\ Same(At(d, p), At(e, p)) /\ f \in Frame
               /\ AckKnown(e, p, f) /\ DataKnown(e, p, f)
<1> DEFINE f == Head(d.recvq[p])
           e == Taken(d, p)
           s == At(d, p)
           t == At(e, p)
           x == DevSide(d.ap[p])
           y == CtlSide(d.ctl[p])
           F == d.link[p]
           B == d.recvq[p]
<1>1. /\ s \in AtType /\ s.m = d.ap[p] /\ s.c = d.ctl[p] /\ s.F = F /\ s.B = B
      /\ s.q = d.sendq[p] /\ s.o = d.owed[p] /\ Good(p, s)
      /\ F \in Seq(Frame) /\ B \in Seq(Frame) /\ d.ap[p] \in Machines /\ d.ctl[p] \in Controllers
  BY AtFacts
<1>2. Tail(B) \in Seq(Frame) /\ f \in Frame
  BY <1>1
<1>3. /\ Only(d, e, p)
      /\ e.ap[p] = d.ap[p] /\ e.ctl[p] = d.ctl[p] /\ e.link[p] = F
      /\ e.recvq[p] = Tail(B) /\ e.sendq[p] = d.sendq[p] /\ e.owed[p] = d.owed[p]
  BY <1>2, TakenFacts
<1> HIDE DEF e
<1>4. /\ t \in AtType /\ t.m = e.ap[p] /\ t.c = e.ctl[p] /\ t.F = e.link[p] /\ t.B = e.recvq[p]
      /\ t.q = e.sendq[p] /\ t.o = e.owed[p]
  BY <1>3, AtFacts DEF Only
<1>5. /\ x \in SideType /\ y \in SideType
      /\ x.send = d.ap[p].send /\ x.exp = d.ap[p].exp
      /\ y.exp = d.ctl[p].exp /\ y.send = d.ctl[p].send /\ y.out = d.ctl[p].out
  BY <1>1, DevFields, CtlFields
<1>6. Joined(x, y, F, B)
  BY <1>1 DEF Good
<1>7. B # << >> /\ f = Head(B) /\ x = DevSide(s.m) /\ y = CtlSide(s.c)
  BY <1>1
<1> HIDE DEF f, s, t, x, y, F, B
<1>8. Joined(x, y, F, Tail(B))
  BY <1>1, <1>5, <1>6, <1>7, JoinedLoses
<1>9. Good(p, t) /\ Same(s, t)
  BY <1>1, <1>3, <1>4, <1>7, <1>8, GoodAsWell
<1>10. AckKnown(e, p, f)
  <2>1. /\ Fresh(x, y) => f.ack # x.send
        /\ ~Fresh(x, y) /\ f.ack = x.send =>
             \A i \in 1 .. Len(Tail(B)) : Tail(B)[i].ack # NextSeq(x.send)
    BY <1>1, <1>5, <1>6, <1>7, TailAcks DEF Joined, Half
  <2> QED BY <1>3, <1>5, <2>1 DEF AckKnown, Fresh
<1>11. DataKnown(e, p, f)
  <2>1. f.kind \in DataKinds /\ f.send = x.exp =>
          /\ Fresh(y, x) /\ f = y.out
          /\ \A i \in 1 .. Len(Tail(B)) :
                Tail(B)[i].kind \in DataKinds => Tail(B)[i].send # NextSeq(x.exp)
    BY <1>1, <1>5, <1>6, <1>7, TailInOrder DEF Joined, Half
  <2> QED BY <1>3, <1>5, <2>1 DEF DataKnown, Fresh
<1> QED BY <1>2, <1>3, <1>9, <1>10, <1>11 DEF s, t, f, e

-----------------------------------------------------------------------------
\* A step of the module, for the users of every priority.
Moves == \A r \in Prios : Serving(At(Dev, r), At(Dev, r)')

LEMMA BecomesAt ==
    ASSUME NEW e, Becomes(e)
    PROVE  /\ Dev.up' = e.up /\ \A r \in Prios : At(Dev, r)' = At(e, r)
           /\ Channel(e) => Channel(Dev)'
<1>1. /\ up' = e.up /\ ap' = e.ap /\ sendq' = e.sendq /\ recvq' = e.recvq /\ owed' = e.owed
      /\ link' = e.link /\ ctl' = e.ctl
  BY DEF Becomes
<1>2. Dev.up' = e.up
  BY <1>1 DEF Dev
<1>3. \A r \in Prios : At(Dev, r)' = At(e, r)
  BY <1>1 DEF At, Dev
<1>4. ASSUME Channel(e) PROVE Channel(Dev)'
  BY <1>2, <1>3, <1>4 DEF Channel, Over
<1> QED BY <1>2, <1>3, <1>4

LEMMA GoesStep ==
    ASSUME Channel(Dev), up, NEW p \in Prios, NEW e, Goes(Dev, e, p), Becomes(e)
    PROVE  Channel(Dev)' /\ Moves
<1>1. Dev.up
  BY DEF Dev
<1>2. Channel(e) /\ \A r \in Prios : Serving(At(Dev, r), At(e, r))
  BY <1>1, GoesChannel
<1> QED BY <1>2, BecomesAt DEF Moves

\* A step that changes nothing here.
LEMMA StaysStep ==
    ASSUME Channel(Dev), NEW e, e.up = Dev.up, \A r \in Prios : At(e, r) = At(Dev, r), Becomes(e)
    PROVE  Channel(Dev)' /\ Moves
<1>1. Channel(e)
  BY DEF Channel, Over
<1>2. \A r \in Prios : At(Dev, r)' = At(Dev, r)
  BY BecomesAt
<1> QED BY <1>1, <1>2, BecomesAt, ServingFacts DEF Moves

LEMMA UpGood ==
    ASSUME Sound(Dev), Channel(Dev), up, NEW p \in Prios
    PROVE  /\ Dev \in DevType /\ Good(p, At(Dev, p)) /\ At(Dev, p) \in AtType
           /\ At(Dev, p).m = ap[p] /\ At(Dev, p).c = ctl[p] /\ At(Dev, p).F = link[p]
           /\ At(Dev, p).B = recvq[p] /\ At(Dev, p).q = sendq[p] /\ At(Dev, p).o = owed[p]
<1>1. Dev.up
  BY DEF Dev
<1> QED BY <1>1, DevFacts, AtFacts DEF Channel

LEMMA FetchChannel ==
    ASSUME SeqMod > 2, Sound(Dev), Channel(Dev), NEW p \in Prios, Fetch(p, TRUE)
    PROVE  Channel(Dev)' /\ Moves
<1> DEFINE e == Taken(Dev, p)
           f == Head(Dev.recvq[p])
<1>1. up /\ Dev.recvq[p] # << >> /\ Becomes(Handle(e, p, f, TRUE))
  BY DevFacts DEF Fetch, Taken
<1>2. Dev \in DevType /\ Good(p, At(Dev, p))
  BY <1>1, UpGood
<1>3. /\ Only(Dev, e, p) /\ Good(p, At(e, p)) /\ Same(At(Dev, p), At(e, p)) /\ f \in Frame
      /\ AckKnown(e, p, f) /\ DataKnown(e, p, f)
  BY <1>1, <1>2, TakenGoes
<1> HIDE DEF e, f
<1>4. Goes(e, Handle(e, p, f, TRUE), p)
  BY <1>3, HandleGoes DEF Only
<1>5. Goes(Dev, Handle(e, p, f, TRUE), p)
  BY <1>3, <1>4, GoesOn
<1> QED BY <1>1, <1>5, GoesStep

\* A DATA frame of the device is sent and retained.
LEMMA DataReqOnly ==
    ASSUME NEW d \in DevType, NEW p \in Prios, NEW kind \in DataKinds, NEW a \in Alarms,
           d.ap[p].apms = "OPEN", d.ap[p].rta = None, NEW sent \in BOOLEAN,
           NEW e, e = DataReq(d, p, kind, a, sent)
    PROVE  /\ Only(d, e, p) /\ e.halted = d.halted
           /\ e.ap[p] \in Machines /\ e.ap[p].apms = "WTACK"
           /\ e.ap[p].send = d.ap[p].send /\ e.ap[p].exp = d.ap[p].exp
           /\ e.ap[p].exp_o = d.ap[p].exp_o /\ e.ap[p].apmr = d.ap[p].apmr
           /\ e.ap[p].alpmi = d.ap[p].alpmi /\ e.ap[p].alpmr = d.ap[p].alpmr
           /\ e.ctl[p] = d.ctl[p] /\ e.recvq[p] = d.recvq[p]
           /\ e.sendq[p] = d.sendq[p] /\ e.owed[p] = d.owed[p]
           /\ \E f \in Frame : /\ f.kind = kind /\ f.alarm = a
                               /\ f.send = d.ap[p].send /\ f.ack = d.ap[p].exp_o
                               /\ e.ap[p].rta = f
                               /\ e.link[p] \in {d.link[p], Append(d.link[p], f)}
<1> DEFINE m == d.ap[p]
           f == [kind |-> kind, alarm |-> a, send |-> m.send, ack |-> m.exp_o]
           x == Transmit(d, p, f, sent)
           t == Added(d.timer[p])
           g == WithTimer(x, p, t)
           n == [m EXCEPT !.rta = IF m.rta = None THEN f ELSE m.rta,
                          !.left = Retries, !.apms = "WTACK"]
<1>1. m \in Machines /\ t \in TimerType
  BY TimerTypes DEF DevType
<1>2. /\ f \in Frame /\ f.kind = kind /\ f.alarm = a /\ f.send = m.send /\ f.ack = m.exp_o
  BY <1>1 DEF Frame, Machines, Kinds
<1>3. e = With(g, p, n)
  BY DEF DataReq
<1> HIDE DEF f, t
<1>4. /\ n \in Machines /\ n.apms = "WTACK" /\ n.rta = f
      /\ n.send = m.send /\ n.exp = m.exp
      /\ n.exp_o = m.exp_o /\ n.apmr = m.apmr
      /\ n.alpmi = m.alpmi /\ n.alpmr = m.alpmr
  <2>1. Retries \in 0 .. Retries
    BY AlarmAssumption
  <2> QED BY <1>1, <1>2, <2>1 DEF Machines
<1> HIDE DEF n
<1>5. /\ Only(d, x, p) /\ x \in DevType /\ x.halted = d.halted
      /\ x.ap[p] = d.ap[p] /\ x.ctl[p] = d.ctl[p]
      /\ x.link[p] \in {d.link[p], Append(d.link[p], f)}
      /\ x.recvq[p] = d.recvq[p] /\ x.sendq[p] = d.sendq[p] /\ x.owed[p] = d.owed[p]
  BY <1>2, OnlyTransmit DEF Only
<1> HIDE DEF x
<1>6. /\ Only(x, g, p) /\ g \in DevType /\ g.halted = x.halted /\ At(g, p) = At(x, p)
  BY <1>1, <1>5, OnlyTimer DEF Only
<1> HIDE DEF g
<1>7. /\ g.ctl[p] = x.ctl[p] /\ g.link[p] = x.link[p]
      /\ g.recvq[p] = x.recvq[p] /\ g.sendq[p] = x.sendq[p] /\ g.owed[p] = x.owed[p]
  BY <1>5, <1>6, AtFacts
<1>8. /\ Only(g, e, p) /\ e.halted = g.halted
      /\ e.ap[p] = n /\ e.ctl[p] = g.ctl[p] /\ e.link[p] = g.link[p]
      /\ e.recvq[p] = g.recvq[p] /\ e.sendq[p] = g.sendq[p] /\ e.owed[p] = g.owed[p]
  BY <1>3, <1>4, <1>6, OnlyWith
<1>9. Only(d, e, p)
  BY <1>5, <1>6, <1>8, OnlyTwice
<1> QED BY <1>2, <1>4, <1>5, <1>6, <1>7, <1>8, <1>9

Popped(d, p) == [d EXCEPT !.sendq[p] = Tail(d.sendq[p])]

LEMMA PoppedFacts ==
    ASSUME NEW d \in DevType, NEW p \in Prios, Tail(d.sendq[p]) \in Seq(Alarms)
    PROVE  /\ Only(d, Popped(d, p), p) /\ Popped(d, p).halted = d.halted
           /\ Popped(d, p).ap[p] = d.ap[p] /\ Popped(d, p).ctl[p] = d.ctl[p]
           /\ Popped(d, p).link[p] = d.link[p] /\ Popped(d, p).recvq[p] = d.recvq[p]
           /\ Popped(d, p).sendq[p] = Tail(d.sendq[p]) /\ Popped(d, p).owed[p] = d.owed[p]
<1> DEFINE e == Popped(d, p)
<1>1. /\ e \in DevType /\ e.up = d.up /\ e.ap = d.ap /\ e.halted = d.halted
      /\ e.ctl = d.ctl /\ e.link = d.link /\ e.sendq = [d.sendq EXCEPT ![p] = Tail(d.sendq[p])]
      /\ e.recvq = d.recvq /\ e.owed = d.owed
  BY DEF Popped, DevType
<1> HIDE DEF e
<1>2. e.sendq[p] = Tail(d.sendq[p]) /\ \A r \in Prios : r # p => e.sendq[r] = d.sendq[r]
  BY <1>1 DEF DevType
<1>3. Only(d, e, p)
  BY <1>1, <1>2 DEF Only, At
<1> QED BY <1>1, <1>2, <1>3 DEF e

\* An error of APMS while it sends ends the AR.
LEMMA DataReqOver ==
    ASSUME NEW d \in DevType, NEW p \in Prios, NEW kind, NEW a, NEW sent, d.ap[p].apms # "OPEN"
    PROVE  Over(DataReq(d, p, kind, a, sent)) /\ DataReq(d, p, kind, a, sent).halted
<1> DEFINE e == Close(d)
           h == [e EXCEPT !.halted = TRUE]
<1>1. DataReq(d, p, kind, a, sent) = h
  BY DEF DataReq
<1>2. Over(h)
  BY CloseOver
<1>3. e \in DevType
  BY CloseFacts DEF Sound
<1> HIDE DEF e
<1>4. h.halted
  BY <1>3 DEF DevType
<1> HIDE DEF h
<1> QED BY <1>1, <1>2, <1>4

LEMMA AlmpiChannel ==
    ASSUME SeqMod > 2, Sound(Dev), Channel(Dev), NEW p \in Prios, Almpi(p, TRUE)
    PROVE  Channel(Dev)' /\ Moves
<1> DEFINE a == Head(Dev.sendq[p])
           g == Popped(Dev, p)
           d == DataReq(g, p, "notify", a, TRUE)
           m == [d.ap[p] EXCEPT !.alpmi = "W_ACK"]
           r == IF ~d.halted THEN With(d, p, m) ELSE d
<1>1. /\ up /\ Dev.sendq[p] # << >> /\ ~Dev.halted /\ Dev.ap[p].alpmi = "W_ALARM"
      /\ Becomes(r)
  BY DevFacts DEF Almpi, CanSend, Popped, Becomes
<1>2. /\ Dev \in DevType /\ Good(p, At(Dev, p)) /\ Dev.sendq[p] \in Seq(Alarms)
      /\ At(Dev, p) \in AtType /\ At(Dev, p).m = Dev.ap[p] /\ At(Dev, p).c = Dev.ctl[p]
      /\ At(Dev, p).F = Dev.link[p] /\ At(Dev, p).B = Dev.recvq[p]
      /\ At(Dev, p).q = Dev.sendq[p] /\ At(Dev, p).o = Dev.owed[p]
  BY <1>1, UpGood, AtFacts
<1>3. a \in Alarms /\ Tail(Dev.sendq[p]) \in Seq(Alarms)
  BY <1>1, <1>2
<1>4. /\ Only(Dev, g, p) /\ g.halted = Dev.halted /\ g \in DevType
      /\ g.ap[p] = Dev.ap[p] /\ g.ctl[p] = Dev.ctl[p]
      /\ g.link[p] = Dev.link[p] /\ g.recvq[p] = Dev.recvq[p]
      /\ g.sendq[p] = Tail(Dev.sendq[p]) /\ g.owed[p] = Dev.owed[p]
  BY <1>2, <1>3, PoppedFacts DEF Only
<1> HIDE DEF g
<1>5. CASE g.ap[p].apms = "OPEN"
  <2>1. g.ap[p].rta = None
    BY <1>2, <1>4, <1>5 DEF Good
  <2>2. PICK sent \in BOOLEAN : d = DataReq(g, p, "notify", a, sent)
    OBVIOUS
  <2> HIDE DEF d, a
  <2>17. "notify" \in DataKinds
    BY DEF DataKinds
  <2>18. g \in DevType /\ a \in Alarms
    BY <1>3, <1>4
  <2>3. /\ Only(g, d, p) /\ d.halted = g.halted
        /\ d.ap[p] \in Machines /\ d.ap[p].apms = "WTACK"
        /\ d.ap[p].send = g.ap[p].send /\ d.ap[p].exp = g.ap[p].exp
        /\ d.ap[p].exp_o = g.ap[p].exp_o /\ d.ap[p].apmr = g.ap[p].apmr
        /\ d.ap[p].alpmi = g.ap[p].alpmi /\ d.ap[p].alpmr = g.ap[p].alpmr
        /\ d.ctl[p] = g.ctl[p] /\ d.recvq[p] = g.recvq[p]
        /\ d.sendq[p] = g.sendq[p] /\ d.owed[p] = g.owed[p]
        /\ \E f \in Frame : /\ f.kind = "notify" /\ f.alarm = a
                            /\ f.send = g.ap[p].send /\ f.ack = g.ap[p].exp_o
                            /\ d.ap[p].rta = f
                            /\ d.link[p] \in {g.link[p], Append(g.link[p], f)}
    BY <1>5, <2>1, <2>2, <2>17, <2>18, DataReqOnly
  <2>4. /\ m \in Machines /\ m.alpmi = "W_ACK" /\ m.apms = d.ap[p].apms /\ m.rta = d.ap[p].rta
        /\ m.send = d.ap[p].send /\ m.exp = d.ap[p].exp /\ m.exp_o = d.ap[p].exp_o
        /\ m.apmr = d.ap[p].apmr /\ m.alpmr = d.ap[p].alpmr
    BY <2>3 DEF Machines
  <2> HIDE DEF m
  <2>5. r = With(d, p, m) /\ d \in DevType
    BY <1>1, <1>4, <2>3 DEF Only
  <2> HIDE DEF r
  <2>6. /\ Only(d, r, p)
        /\ r.ap[p] = m /\ r.ctl[p] = d.ctl[p] /\ r.link[p] = d.link[p]
        /\ r.recvq[p] = d.recvq[p] /\ r.sendq[p] = d.sendq[p] /\ r.owed[p] = d.owed[p]
    BY <2>4, <2>5, OnlyWith
  <2> DEFINE s == At(Dev, p)
             t == At(r, p)
  <2>7. /\ t \in AtType /\ t.m = m /\ t.c = r.ctl[p] /\ t.F = r.link[p] /\ t.B = r.recvq[p]
        /\ t.q = r.sendq[p] /\ t.o = r.owed[p]
    BY <2>6, AtFacts DEF Only
  <2>8. PICK f \in Frame : /\ f.kind = "notify" /\ f.alarm = a
                           /\ f.send = g.ap[p].send /\ f.ack = g.ap[p].exp_o
                           /\ d.ap[p].rta = f
                           /\ d.link[p] \in {g.link[p], Append(g.link[p], f)}
    BY <2>3
  <2> HIDE DEF s, t
  <2>9. /\ s \in AtType /\ Good(p, s) /\ s.m = Dev.ap[p] /\ s.c = Dev.ctl[p]
        /\ s.F = Dev.link[p] /\ s.B = Dev.recvq[p] /\ s.q = Dev.sendq[p] /\ s.o = Dev.owed[p]
    BY <1>2 DEF s
  <2>10. /\ s.m.rta = None /\ s.m.alpmi = "W_ALARM" /\ s.q # << >> /\ f.alarm = Head(s.q)
         /\ f.send = s.m.send /\ f.ack = s.m.exp_o
    BY <1>1, <1>4, <2>1, <2>8, <2>9 DEF a
  <2>11. /\ t.m.rta = f /\ t.m.apms = "WTACK" /\ t.m.alpmi = "W_ACK" /\ t.m.send = s.m.send
         /\ t.m.exp = s.m.exp /\ t.m.exp_o = s.m.exp_o /\ t.m.apmr = s.m.apmr
         /\ t.m.alpmr = s.m.alpmr
    BY <1>4, <2>3, <2>4, <2>7, <2>8, <2>9
  <2>12. /\ t.c = s.c /\ t.B = s.B /\ t.q = Tail(s.q) /\ t.o = s.o
    BY <1>4, <2>3, <2>6, <2>7, <2>9
  <2>13. t.F \in {s.F, Append(s.F, f)}
    BY <1>4, <2>6, <2>7, <2>8, <2>9
  <2>14. Good(p, t) /\ Same(s, t)
    BY <2>7, <2>8, <2>9, <2>10, <2>11, <2>12, <2>13, GoodNotifies
  <2>15. Only(Dev, r, p)
    BY <1>4, <2>3, <2>6, OnlyTwice
  <2>16. Goes(Dev, r, p)
    BY <2>14, <2>15, ServingFacts DEF Goes, s, t
  <2> QED BY <1>1, <2>16, GoesStep DEF r
<1>6. CASE g.ap[p].apms # "OPEN"
  <2>1. Over(d) /\ d.halted
    BY <1>4, <1>6, DataReqOver
  <2> HIDE DEF d
  <2>2. r = d
    BY <2>1
  <2>3. Goes(Dev, r, p)
    BY <2>1, <2>2 DEF Goes
  <2> QED BY <1>1, <2>3, GoesStep
<1> QED BY <1>5, <1>6

LEMMA AppSendChannel ==
    ASSUME Sound(Dev), Channel(Dev), NEW p \in Prios, NEW a \in Alarms, AppSend(p, a)
    PROVE  Channel(Dev)' /\ Moves
<1> DEFINE q == Append(Dev.sendq[p], a)
           e == WithSendq(Dev, p, q)
           s == At(Dev, p)
           t == At(e, p)
<1>1. up /\ Becomes(e)
  BY DevFacts DEF AppSend, WithSendq
<1>2. /\ Dev \in DevType /\ Good(p, s) /\ Dev.sendq[p] \in Seq(Alarms)
      /\ s \in AtType /\ s.m = Dev.ap[p] /\ s.c = Dev.ctl[p] /\ s.F = Dev.link[p]
      /\ s.B = Dev.recvq[p] /\ s.q = Dev.sendq[p] /\ s.o = Dev.owed[p]
  BY <1>1, UpGood, AtFacts
<1>3. q \in Seq(Alarms) /\ e = WithSendq(Dev, p, q)
  BY <1>2
<1>8. q = Append(s.q, a)
  BY <1>2
<1> HIDE DEF q, e
<1>4. /\ Only(Dev, e, p)
      /\ e.ap[p] = Dev.ap[p] /\ e.ctl[p] = Dev.ctl[p] /\ e.link[p] = Dev.link[p]
      /\ e.recvq[p] = Dev.recvq[p] /\ e.sendq[p] = q /\ e.owed[p] = Dev.owed[p]
  BY <1>2, <1>3, OnlySendq
<1>5. /\ t \in AtType /\ t.m = e.ap[p] /\ t.c = e.ctl[p] /\ t.F = e.link[p] /\ t.B = e.recvq[p]
      /\ t.q = e.sendq[p] /\ t.o = e.owed[p]
  BY <1>4, AtFacts DEF Only
<1> HIDE DEF s, t
<1>6. Good(p, t) /\ Serving(s, t)
  BY <1>2, <1>4, <1>5, <1>8, GoodQueues
<1>7. Goes(Dev, e, p)
  BY <1>4, <1>6 DEF Goes, s, t
<1> QED BY <1>1, <1>7, GoesStep

\* The controller sends alarms of high priority only, and the application owes
\* answers to these only.
LEMMA OwesHigh ==
    ASSUME NEW d \in DevType, NEW p \in Prios, Good(p, At(d, p)), d.owed[p] # None
    PROVE  p = High /\ d.ap[p].alpmr = "W_USER_ACK"
<1> DEFINE x == DevSide(d.ap[p])
           y == CtlSide(d.ctl[p])
<1>1. /\ At(d, p).m = d.ap[p] /\ At(d, p).c = d.ctl[p] /\ At(d, p).F = d.link[p]
      /\ At(d, p).B = d.recvq[p] /\ At(d, p).o = d.owed[p]
      /\ d.ap[p] \in Machines /\ d.ctl[p] \in Controllers
  BY AtFacts
<1>2. /\ Joined(x, y, d.link[p], d.recvq[p]) /\ d.ap[p].alpmr = "W_USER_ACK"
      /\ p = Low => d.ctl[p].alpmi = "W_ALARM"
  BY <1>1 DEF Good
<1>3. x.owes /\ (y.waits <=> d.ctl[p].alpmi = "W_ACK")
  BY <1>1, <1>2, DevFields, CtlFields
<1> HIDE DEF x, y
<1>4. y.waits
  BY <1>2, <1>3, JoinedTurns DEF Turns
<1> QED BY <1>2, <1>3, <1>4 DEF Prios

LEMMA AppAckChannel ==
    ASSUME SeqMod > 2, Sound(Dev), Channel(Dev), NEW p \in Prios, AppAck(p, TRUE)
    PROVE  Channel(Dev)' /\ Moves
<1> DEFINE a == Dev.owed[High]
           g == WithOwed(Dev, High, None)
           d == DataReq(g, High, "answer", a, TRUE)
           m == [d.ap[High] EXCEPT !.alpmr = "W_TACK"]
           r == IF d.halted THEN d ELSE With(d, High, m)
           s == At(Dev, High)
<1>1. /\ up /\ Dev.owed[p] # None /\ ~Dev.halted
      /\ Dev.ap[High].alpmr = "W_USER_ACK" /\ p = High => Becomes(r)
  <2>1. Dev.ap = ap /\ Dev.owed = owed /\ Dev.halted = halted
    BY DevFacts
  <2>2. up /\ owed[p] # None /\ ~halted
    BY DEF AppAck, Becomes
  <2>3. ASSUME ap[High].alpmr = "W_USER_ACK", p = High PROVE Becomes(r)
    BY <2>1, <2>3 DEF AppAck, WithOwed
  <2> QED BY <2>1, <2>2, <2>3
<1>2. High \in Prios
  BY DEF Prios
<1>3. p = High /\ Dev.ap[High].alpmr = "W_USER_ACK"
  BY <1>1, UpGood, OwesHigh
<1>4. /\ Dev \in DevType /\ Good(High, s)
      /\ s \in AtType /\ s.m = Dev.ap[High] /\ s.c = Dev.ctl[High] /\ s.F = Dev.link[High]
      /\ s.B = Dev.recvq[High] /\ s.q = Dev.sendq[High] /\ s.o = Dev.owed[High]
  BY <1>1, <1>2, UpGood, AtFacts
<1>5. a \in Alarms
  BY <1>1, <1>2, <1>3, <1>4, AtFacts
<1>6. /\ Only(Dev, g, High) /\ g.halted = Dev.halted /\ g \in DevType
      /\ g.ap[High] = Dev.ap[High] /\ g.ctl[High] = Dev.ctl[High]
      /\ g.link[High] = Dev.link[High] /\ g.recvq[High] = Dev.recvq[High]
      /\ g.sendq[High] = Dev.sendq[High] /\ g.owed[High] = None
  BY <1>2, <1>4, OnlyOwed DEF Only
<1>7. Becomes(r)
  BY <1>1, <1>3
<1> HIDE DEF a, g, s
<1>8. CASE g.ap[High].apms = "OPEN"
  <2>1. g.ap[High].rta = None /\ "answer" \in DataKinds
    BY <1>4, <1>6, <1>8 DEF Good, DataKinds
  <2>2. PICK sent \in BOOLEAN : d = DataReq(g, High, "answer", a, sent)
    OBVIOUS
  <2> HIDE DEF d
  <2>9. g \in DevType
    BY <1>6
  <2>3. /\ Only(g, d, High) /\ d.halted = g.halted
        /\ d.ap[High] \in Machines /\ d.ap[High].apms = "WTACK"
        /\ d.ap[High].send = g.ap[High].send /\ d.ap[High].exp = g.ap[High].exp
        /\ d.ap[High].exp_o = g.ap[High].exp_o /\ d.ap[High].apmr = g.ap[High].apmr
        /\ d.ap[High].alpmi = g.ap[High].alpmi /\ d.ap[High].alpmr = g.ap[High].alpmr
        /\ d.ctl[High] = g.ctl[High] /\ d.recvq[High] = g.recvq[High]
        /\ d.sendq[High] = g.sendq[High] /\ d.owed[High] = g.owed[High]
        /\ \E f \in Frame : /\ f.kind = "answer" /\ f.alarm = a
                            /\ f.send = g.ap[High].send /\ f.ack = g.ap[High].exp_o
                            /\ d.ap[High].rta = f
                            /\ d.link[High] \in {g.link[High], Append(g.link[High], f)}
    BY <1>2, <1>5, <1>8, <2>1, <2>2, <2>9, DataReqOnly
  <2>4. /\ m \in Machines /\ m.alpmr = "W_TACK" /\ m.apms = d.ap[High].apms
        /\ m.rta = d.ap[High].rta
        /\ m.send = d.ap[High].send /\ m.exp = d.ap[High].exp /\ m.exp_o = d.ap[High].exp_o
        /\ m.apmr = d.ap[High].apmr /\ m.alpmi = d.ap[High].alpmi
    BY <2>3 DEF Machines
  <2> HIDE DEF m
  <2>5. r = With(d, High, m) /\ d \in DevType
    BY <1>1, <1>6, <2>3 DEF Only
  <2> HIDE DEF r
  <2>6. /\ Only(d, r, High)
        /\ r.ap[High] = m /\ r.ctl[High] = d.ctl[High] /\ r.link[High] = d.link[High]
        /\ r.recvq[High] = d.recvq[High] /\ r.sendq[High] = d.sendq[High]
        /\ r.owed[High] = d.owed[High]
    BY <1>2, <2>4, <2>5, OnlyWith
  <2> DEFINE t == At(r, High)
  <2>7. /\ t \in AtType /\ t.m = m /\ t.c = r.ctl[High] /\ t.F = r.link[High]
        /\ t.B = r.recvq[High] /\ t.q = r.sendq[High] /\ t.o = r.owed[High]
    BY <1>2, <2>6, AtFacts DEF Only
  <2>8. PICK f \in Frame : /\ f.kind = "answer" /\ f.alarm = a
                           /\ f.send = g.ap[High].send /\ f.ack = g.ap[High].exp_o
                           /\ d.ap[High].rta = f
                           /\ d.link[High] \in {g.link[High], Append(g.link[High], f)}
    BY <2>3
  <2> HIDE DEF t
  <2>10. /\ s.m.rta = None /\ s.m.alpmr = "W_USER_ACK"
         /\ f.send = s.m.send /\ f.ack = s.m.exp_o
    BY <1>3, <1>4, <1>6, <2>1, <2>8
  <2>11. /\ t.m.rta = f /\ t.m.apms = "WTACK" /\ t.m.alpmr = "W_TACK" /\ t.m.send = s.m.send
         /\ t.m.exp = s.m.exp /\ t.m.exp_o = s.m.exp_o /\ t.m.apmr = s.m.apmr
         /\ t.m.alpmi = s.m.alpmi
    BY <1>4, <1>6, <2>3, <2>4, <2>7, <2>8
  <2>12. /\ t.c = s.c /\ t.B = s.B /\ t.q = s.q /\ t.o = None
    BY <1>4, <1>6, <2>3, <2>6, <2>7
  <2>13. t.F \in {s.F, Append(s.F, f)}
    BY <1>4, <1>6, <2>6, <2>7, <2>8
  <2>14. Good(High, t) /\ Serving(s, t)
    BY <1>2, <1>4, <2>7, <2>8, <2>10, <2>11, <2>12, <2>13, GoodAnswers
  <2>15. Only(Dev, r, High)
    BY <1>6, <2>3, <2>6, OnlyTwice
  <2>16. Goes(Dev, r, High)
    BY <2>14, <2>15 DEF Goes, s, t
  <2> QED BY <1>1, <1>2, <1>7, <2>16, GoesStep
<1>9. CASE g.ap[High].apms # "OPEN"
  <2>1. Over(d) /\ d.halted
    BY <1>2, <1>6, <1>9, DataReqOver
  <2> HIDE DEF d
  <2>2. r = d
    BY <2>1
  <2>3. Goes(Dev, r, High)
    BY <2>1, <2>2 DEF Goes
  <2> HIDE DEF r
  <2> QED BY <1>1, <1>2, <1>7, <2>3, GoesStep
<1> QED BY <1>8, <1>9

-----------------------------------------------------------------------------
\* The resend timer of the device, which may expire after the end of the AR.
LEMMA ResentGoes ==
    ASSUME SeqMod > 2, NEW d \in DevType, NEW p \in Prios, Good(p, At(d, p)), NEW sent \in BOOLEAN,
           d.ap[p].rta # None, d.ap[p].left > 0, NEW e, e = Resent(d, p, sent)
    PROVE  Only(d, e, p) /\ Good(p, At(e, p)) /\ Same(At(d, p), At(e, p))
<1> DEFINE m == d.ap[p]
           h == m.rta
           x == Transmit(d, p, h, sent)
           u == Added(d.timer[p])
           g == WithTimer(x, p, u)
           n == [m EXCEPT !.left = m.left - 1]
           y == DevSide(m)
           z == CtlSide(d.ctl[p])
<1>1. /\ m \in Machines /\ d.ctl[p] \in Controllers /\ u \in TimerType
      /\ At(d, p).m = m /\ At(d, p).c = d.ctl[p] /\ At(d, p).F = d.link[p]
      /\ At(d, p).B = d.recvq[p] /\ d.link[p] \in Seq(Frame) /\ d.recvq[p] \in Seq(Frame)
  BY AtFacts, TimerTypes DEF DevType
<1>2. h \in Frame /\ m.left - 1 \in 0 .. Retries
  <2>1. m.rta \in Frame \cup {None} /\ m.left \in 0 .. Retries
    BY <1>1 DEF Machines
  <2>2. Retries \in Nat
    BY AlarmAssumption
  <2> HIDE DEF m
  <2> QED BY <2>1, <2>2 DEF m
<1>3. /\ n \in Machines /\ n.send = m.send /\ n.rta = m.rta /\ n.exp = m.exp
      /\ n.exp_o = m.exp_o /\ n.alpmi = m.alpmi /\ n.alpmr = m.alpmr
      /\ n.apms = m.apms /\ n.apmr = m.apmr
  BY <1>1, <1>2 DEF Machines
<1>4. e = With(g, p, n)
  BY DEF Resent
<1>5. y \in SideType /\ z \in SideType /\ y.out = h
  BY <1>1, DevFields, CtlFields
<1>6. Joined(y, z, d.link[p], d.recvq[p])
  BY <1>1 DEF Good
<1>12. h # None
  OBVIOUS
<1> HIDE DEF h, u, n
<1>7. Joined(y, z, Append(d.link[p], h), d.recvq[p])
  <2> HIDE DEF y, z
  <2> QED BY <1>1, <1>5, <1>6, <1>12, JoinedResends
<1>8. Only(d, x, p) /\ Good(p, At(x, p)) /\ Same(At(d, p), At(x, p)) /\ x \in DevType
      /\ x.ap[p] = m
  BY <1>2, <1>7, FrameGoes, OnlyTransmit DEF Only
<1> HIDE DEF x, y, z
<1>9. Only(x, g, p) /\ g \in DevType /\ At(g, p) = At(x, p)
  BY <1>1, <1>8, OnlyTimer DEF Only
<1> HIDE DEF g
<1>10. g.ap[p] = m
  BY <1>8, <1>9, AtFacts
<1>11. /\ Only(g, e, p) /\ e.ap[p] = n /\ e.ctl[p] = g.ctl[p] /\ e.link[p] = g.link[p]
       /\ e.recvq[p] = g.recvq[p] /\ e.sendq[p] = g.sendq[p] /\ e.owed[p] = g.owed[p]
  BY <1>3, <1>4, <1>9, OnlyWith
<1> DEFINE s == At(g, p)
           t == At(e, p)
<1>13. /\ s \in AtType /\ s.m = m /\ s.c = g.ctl[p] /\ s.F = g.link[p]
       /\ s.B = g.recvq[p] /\ s.q = g.sendq[p] /\ s.o = g.owed[p]
  BY <1>9, <1>10, AtFacts
<1>14. /\ t \in AtType /\ t.m = n /\ t.c = e.ctl[p] /\ t.F = e.link[p]
       /\ t.B = e.recvq[p] /\ t.q = e.sendq[p] /\ t.o = e.owed[p]
  BY <1>11, AtFacts DEF Only
<1>15. Good(p, s) /\ Same(At(d, p), s)
  BY <1>8, <1>9
<1> HIDE DEF s, t, m
<1>16. DevSide(t.m) = DevSide(s.m)
  BY <1>3, <1>13, <1>14 DEF DevSide
<1>17. Joined(DevSide(s.m), CtlSide(s.c), t.F, t.B)
  BY <1>11, <1>13, <1>14, <1>15 DEF Good
<1>18. Good(p, t) /\ Same(s, t)
  BY <1>3, <1>11, <1>13, <1>14, <1>15, <1>16, <1>17, GoodAsWell
<1>19. Same(At(d, p), t)
  BY <1>15, <1>18, ServingFacts
<1>20. Only(d, e, p)
  BY <1>8, <1>9, <1>11, OnlyTwice
<1> QED BY <1>18, <1>19, <1>20 DEF t

\* The same machines: nothing else is there to change.
LEMMA SameWith ==
    ASSUME NEW d \in DevType, NEW p \in Prios, d.ap[p].rta = None,
           NEW e, e = With(d, p, [d.ap[p] EXCEPT !.rta = None])
    PROVE  Only(d, e, p) /\ At(e, p) = At(d, p)
<1> DEFINE m == [d.ap[p] EXCEPT !.rta = None]
<1>1. d.ap[p] \in Machines
  BY AtFacts
<1>2. m = d.ap[p] /\ m \in Machines
  BY <1>1 DEF Machines
<1> HIDE DEF m
<1>3. e = With(d, p, m)
  BY DEF m
<1>4. /\ Only(d, e, p)
      /\ e.ap[p] = m /\ e.ctl[p] = d.ctl[p] /\ e.link[p] = d.link[p]
      /\ e.recvq[p] = d.recvq[p] /\ e.sendq[p] = d.sendq[p] /\ e.owed[p] = d.owed[p]
  BY <1>2, <1>3, OnlyWith
<1>5. At(e, p) = At(d, p)
  BY <1>2, <1>4 DEF At
<1> QED BY <1>4, <1>5

LEMMA ExpiredGoes ==
    ASSUME SeqMod > 2, NEW d \in DevType, NEW p \in Prios, Good(p, At(d, p))
    PROVE  Goes(d, Expired(d, p, TRUE), p)
<1> DEFINE e == Expired(d, p, TRUE)
           m == d.ap[p]
<1>1. m \in Machines /\ m.apms = IF m.rta = None THEN "OPEN" ELSE "WTACK"
  BY AtFacts DEF Good
<1>2. CASE m.rta = None
  <2>1. e = With(d, p, [d.ap[p] EXCEPT !.rta = None])
    BY <1>1, <1>2 DEF Expired
  <2> HIDE DEF e, m
  <2>2. Only(d, e, p) /\ At(e, p) = At(d, p)
    BY <1>2, <2>1, SameWith DEF m
  <2>3. Goes(d, e, p)
    BY <2>2, ServingFacts DEF Goes
  <2> QED BY <2>3 DEF e
<1>3. CASE m.rta # None /\ m.left > 0
  <2>1. e = Resent(d, p, TRUE)
    BY <1>1, <1>3 DEF Expired
  <2>2. PICK sent \in BOOLEAN : e = Resent(d, p, sent)
    BY <2>1
  <2> HIDE DEF e, m
  <2>3. Only(d, e, p) /\ Good(p, At(e, p)) /\ Same(At(d, p), At(e, p))
    BY <1>3, <2>2, ResentGoes DEF m
  <2>4. Goes(d, e, p)
    BY <2>3, ServingFacts DEF Goes
  <2> QED BY <2>4 DEF e
<1>4. CASE m.rta # None /\ ~(m.left > 0)
  <2>1. e = Close(d)
    BY <1>1, <1>4 DEF Expired
  <2> HIDE DEF e
  <2>2. Goes(d, e, p)
    BY <2>1, CloseOver DEF Goes
  <2> QED BY <2>2 DEF e
<1> QED BY <1>2, <1>3, <1>4

LEMMA TimeoutChannel ==
    ASSUME SeqMod > 2, Sound(Dev), Channel(Dev), NEW p \in Prios, ApmsTimeout(p, TRUE)
    PROVE  Channel(Dev)' /\ Moves
<1>1. PICK t \in Expiring(timer[p]) : Becomes(Expired(WithTimer(Dev, p, Orphan(t)), p, TRUE))
  BY DEF ApmsTimeout
<1>2. Orphan(t) \in TimerType /\ Dev \in DevType
  <2>1. t \in TimerType
    BY DevFacts, ExpiringType
  <2> QED BY <2>1, TimerTypes, DevFacts
<1> DEFINE d == WithTimer(Dev, p, Orphan(t))
           e == Expired(d, p, TRUE)
<1>3. Only(Dev, d, p) /\ At(d, p) = At(Dev, p) /\ d \in DevType
  BY <1>2, OnlyTimer DEF Only
<1> HIDE DEF d
<1>4. Becomes(e)
  BY <1>1 DEF d
<1>5. CASE up
  <2>1. Good(p, At(d, p)) /\ Same(At(Dev, p), At(d, p))
    BY <1>3, <1>5, UpGood DEF Same
  <2>2. Goes(d, e, p)
    BY <1>3, <2>1, ExpiredGoes
  <2> HIDE DEF e
  <2>3. Goes(Dev, e, p)
    BY <1>3, <2>1, <2>2, GoesOn
  <2> QED BY <1>4, <1>5, <2>3, GoesStep
<1>6. CASE ~up
  <2>1. ~Dev.up /\ Over(Dev)
    BY <1>6 DEF Dev, Channel
  <2>2. d.ap[p] = Closed
    <3>1. At(d, p).m = d.ap[p]
      BY <1>3, AtFacts
    <3> QED BY <1>3, <2>1, <3>1 DEF Over, Nothing
  <2>3. d.ap[p].apms = "CLOSED" /\ d.ap[p].rta = None
    BY <2>2 DEF Closed
  <2>4. e = With(d, p, [d.ap[p] EXCEPT !.rta = None])
    BY <2>3 DEF Expired
  <2> HIDE DEF e
  <2>5. Only(d, e, p) /\ At(e, p) = At(d, p)
    BY <1>3, <2>3, <2>4, SameWith
  <2>6. Only(Dev, e, p)
    BY <1>3, <2>5, OnlyTwice
  <2>7. e.up = Dev.up /\ \A r \in Prios : At(e, r) = At(Dev, r)
    BY <1>3, <2>5, <2>6 DEF Only
  <2> QED BY <1>4, <2>7, StaysStep
<1> QED BY <1>5, <1>6

-----------------------------------------------------------------------------
\* The AR begins and ends.
Begun == [Nothing EXCEPT !.m = Opened]

LEMMA BegunGood == ASSUME NEW p \in Prios PROVE Good(p, Begun) /\ Serving(Nothing, Begun)
<1> DEFINE x == DevSide(Begun.m)
           y == CtlSide(Begun.c)
<1>1. /\ Begun.m = Opened /\ Begun.c = CtlStart /\ Begun.F = << >> /\ Begun.B = << >>
      /\ Begun.q = << >> /\ Begun.o = None
  BY DEF Begun, Nothing
<1>2. /\ x.send = FirstSeq /\ x.out = None /\ x.exp = FirstSeq /\ x.exp_o = BeforeSeq
      /\ ~x.waits /\ ~x.owes
      /\ y.send = FirstSeq /\ y.out = None /\ y.exp = FirstSeq /\ y.exp_o = BeforeSeq
      /\ ~y.waits /\ ~y.owes
  <2>1. /\ Opened.send = FirstSeq /\ Opened.rta = None /\ Opened.exp = FirstSeq
        /\ Opened.exp_o = BeforeSeq /\ Opened.alpmi = "W_ALARM" /\ Opened.alpmr = "W_NOTIFY"
        /\ CtlStart.send = FirstSeq /\ CtlStart.out = None /\ CtlStart.exp = FirstSeq
        /\ CtlStart.exp_o = BeforeSeq /\ CtlStart.alpmi = "W_ALARM" /\ CtlStart.got = None
    BY DEF Opened, CtlStart
  <2>2. x = DevSide(Opened) /\ y = CtlSide(CtlStart)
    BY <1>1
  <2> HIDE DEF x, y
  <2> QED BY <2>1, <2>2, StartTypes, DevFields, CtlFields
<1>3. Opened.rta = None /\ Opened.apms = "OPEN" /\ Opened.apmr = "OPEN"
      /\ Opened.alpmi = "W_ALARM" /\ Opened.alpmr = "W_NOTIFY"
      /\ CtlStart.alpmi = "W_ALARM" /\ CtlStart.out = None /\ CtlStart.got = None
  BY DEF Opened, CtlStart
<1> HIDE DEF x, y
<1>4. Joined(x, y, << >>, << >>)
  BY <1>2 DEF Joined, Half, Stands, Succ, Fresh, InOrder, AcksInOrder, Aged, Turns,
                       Going, Coming, Repeats
<1>5. ~Repeats(x, "notify") /\ ~Repeats(x, "answer") /\ ~Repeats(y, "notify")
  BY <1>2 DEF Repeats
<1>6. Good(p, Begun)
  BY <1>1, <1>3, <1>4, <1>5 DEF Good, x, y
<1>7. ~ToCtl(Begun) /\ ~ToDev(Begun)
  BY <1>5 DEF ToCtl, ToDev, Going, x, y
<1>8. /\ Nothing.m.rta = None /\ Nothing.c.out = None /\ Nothing.m.alpmi = "W_START"
      /\ Nothing.c.alpmi = "W_ALARM" /\ Nothing.q = << >>
  BY DEF Nothing, Closed, CtlStart
<1>9. ~ToCtl(Nothing) /\ ~ToDev(Nothing)
  BY <1>8 DEF ToCtl, ToDev, Going, Repeats, DevSide, CtlSide
<1>10. DevView(Begun) = DevView(Nothing)
  BY <1>1, <1>3, <1>7, <1>8, <1>9 DEF DevView
<1>11. CtlView(Begun) = CtlView(Nothing)
  BY <1>1, <1>3, <1>7, <1>8, <1>9 DEF CtlView
<1> QED BY <1>6, <1>10, <1>11 DEF Serving, Serves

LEMMA ArChannel ==
    ASSUME Sound(Dev), Channel(Dev), ArStep
    PROVE  Channel(Dev)' /\ Moves
<1>1. CASE Activate
  <2> DEFINE e == [Dev EXCEPT !.up = TRUE, !.ap = Each(Opened)]
  <2>1. ~Dev.up /\ Becomes(e)
    BY <1>1 DEF Activate, Dev
  <2>2. Over(Dev)
    BY <2>1 DEF Channel
  <2>3. /\ e.up /\ e.ap = Each(Opened) /\ e.ctl = Dev.ctl /\ e.link = Dev.link
        /\ e.recvq = Dev.recvq /\ e.sendq = Dev.sendq /\ e.owed = Dev.owed
    BY DevFacts DEF DevType
  <2> HIDE DEF e
  <2>4. ASSUME NEW r \in Prios PROVE At(e, r) = Begun /\ At(Dev, r) = Nothing
    <3>1. At(Dev, r) = Nothing
      BY <2>2 DEF Over
    <3>2. At(e, r) = [At(Dev, r) EXCEPT !.m = Opened]
      BY <2>3 DEF At, Each
    <3> QED BY <3>1, <3>2 DEF Begun
  <2>5. Channel(e)
    BY <2>3, <2>4, BegunGood DEF Channel
  <2>6. \A r \in Prios : Serving(At(Dev, r), At(Dev, r)')
    BY <2>1, <2>4, BecomesAt, BegunGood
  <2> QED BY <2>1, <2>5, <2>6, BecomesAt DEF Moves
<1>2. CASE Enable
  <2> DEFINE e == [Dev EXCEPT !.enabled = TRUE]
  <2>1. Becomes(e)
    BY <1>2 DEF Enable
  <2>2. /\ e.up = Dev.up /\ e.ap = Dev.ap /\ e.ctl = Dev.ctl /\ e.link = Dev.link
        /\ e.recvq = Dev.recvq /\ e.sendq = Dev.sendq /\ e.owed = Dev.owed
    BY DevFacts DEF DevType
  <2> HIDE DEF e
  <2>3. \A r \in Prios : At(e, r) = At(Dev, r)
    BY <2>2 DEF At
  <2> QED BY <2>1, <2>2, <2>3, StaysStep
<1>3. CASE End
  <2> DEFINE e == Close(Dev)
  <2>1. up /\ Becomes(e) /\ Over(e)
    BY <1>3, CloseOver, DevFacts DEF End
  <2> HIDE DEF e
  <2>2. High \in Prios /\ Goes(Dev, e, High)
    BY <2>1 DEF Goes, Prios
  <2> QED BY <2>1, <2>2, GoesStep
<1> QED BY <1>1, <1>2, <1>3 DEF ArStep

-----------------------------------------------------------------------------
\* The controller sends, and repeats what it sent.
LEMMA CtlDataOnly ==
    ASSUME Dev \in DevType, NEW p \in Prios, NEW c \in Controllers, NEW kind \in DataKinds,
           NEW a \in Alarms, NEW arrives, NEW e, e = CtlData(p, c, kind, a, arrives)
    PROVE  /\ Only(Dev, e, p)
           /\ e.ctl[p].send = c.send /\ e.ctl[p].exp = c.exp /\ e.ctl[p].exp_o = c.exp_o
           /\ e.ctl[p].alpmi = c.alpmi /\ e.ctl[p].asked = c.asked /\ e.ctl[p].got = c.got
           /\ e.ctl[p].last = c.last
           /\ e.ap[p] = Dev.ap[p] /\ e.link[p] = Dev.link[p]
           /\ e.sendq[p] = Dev.sendq[p] /\ e.owed[p] = Dev.owed[p]
           /\ \E f \in Frame : /\ f.kind = kind /\ f.alarm = a /\ f.send = c.send /\ f.ack = c.exp_o
                               /\ e.ctl[p].out = f
                               /\ e.recvq[p] \in {Dev.recvq[p], Append(Dev.recvq[p], f)}
<1> DEFINE f == [kind |-> kind, alarm |-> a, send |-> c.send, ack |-> c.exp_o]
           n == [c EXCEPT !.out = f, !.left = Retries]
           g == WithCtl(Dev, p, n)
<1>1. /\ f \in Frame /\ f.kind = kind /\ f.alarm = a /\ f.send = c.send /\ f.ack = c.exp_o
  BY DEF Frame, Controllers, Kinds
<1>2. e = Receive(g, p, f, arrives)
  BY DEF CtlData
<1> HIDE DEF f
<1>3. /\ n \in Controllers /\ n.out = f /\ n.send = c.send /\ n.exp = c.exp /\ n.exp_o = c.exp_o
      /\ n.alpmi = c.alpmi /\ n.asked = c.asked /\ n.got = c.got /\ n.last = c.last
  <2>1. Retries \in 0 .. Retries
    BY AlarmAssumption
  <2> QED BY <1>1, <2>1 DEF Controllers
<1> HIDE DEF n
<1>4. /\ Only(Dev, g, p) /\ g \in DevType
      /\ g.ap[p] = Dev.ap[p] /\ g.ctl[p] = n /\ g.link[p] = Dev.link[p]
      /\ g.recvq[p] = Dev.recvq[p] /\ g.sendq[p] = Dev.sendq[p] /\ g.owed[p] = Dev.owed[p]
  BY <1>3, OnlyCtl DEF Only
<1> HIDE DEF g
<1>5. /\ Only(g, e, p) /\ e.ap[p] = g.ap[p] /\ e.ctl[p] = g.ctl[p] /\ e.link[p] = g.link[p]
      /\ e.recvq[p] \in {g.recvq[p], Append(g.recvq[p], f)}
      /\ e.sendq[p] = g.sendq[p] /\ e.owed[p] = g.owed[p]
  BY <1>1, <1>2, <1>4, OnlyReceive
<1>6. Only(Dev, e, p)
  BY <1>4, <1>5, OnlyTwice
<1> QED BY <1>1, <1>3, <1>4, <1>5, <1>6

LEMMA CtlNotifyChannel ==
    ASSUME SeqMod > 2, Sound(Dev), Channel(Dev), NEW p \in Prios, CtlSends \subseteq {High},
           NEW a \in Alarms, NEW arrives, CtlNotify(p, a, arrives)
    PROVE  Channel(Dev)' /\ Moves
<1> DEFINE c == [Dev.ctl[p] EXCEPT !.alpmi = "W_ACK", !.asked = a]
           e == CtlData(p, c, "notify", a, arrives)
           s == At(Dev, p)
           t == At(e, p)
<1>1. /\ up /\ p = High /\ Dev.ctl[p].out = None /\ Dev.ctl[p].alpmi = "W_ALARM" /\ Becomes(e)
  BY DevFacts DEF CtlNotify
<1>2. /\ Dev \in DevType /\ Good(p, s) /\ Dev.ctl[p] \in Controllers
      /\ s \in AtType /\ s.m = Dev.ap[p] /\ s.c = Dev.ctl[p] /\ s.F = Dev.link[p]
      /\ s.B = Dev.recvq[p] /\ s.q = Dev.sendq[p] /\ s.o = Dev.owed[p]
  BY <1>1, UpGood, AtFacts
<1>3. /\ c \in Controllers /\ c.alpmi = "W_ACK" /\ c.asked = a /\ c.send = s.c.send
      /\ c.exp = s.c.exp /\ c.exp_o = s.c.exp_o /\ c.got = s.c.got /\ c.last = s.c.last
  BY <1>2 DEF Controllers
<1>4. "notify" \in DataKinds
  BY DEF DataKinds
<1> HIDE DEF c, s
<1>5. /\ Only(Dev, e, p)
      /\ e.ctl[p].send = c.send /\ e.ctl[p].exp = c.exp /\ e.ctl[p].exp_o = c.exp_o
      /\ e.ctl[p].alpmi = c.alpmi /\ e.ctl[p].asked = c.asked /\ e.ctl[p].got = c.got
      /\ e.ctl[p].last = c.last
      /\ e.ap[p] = Dev.ap[p] /\ e.link[p] = Dev.link[p]
      /\ e.sendq[p] = Dev.sendq[p] /\ e.owed[p] = Dev.owed[p]
      /\ \E f \in Frame : /\ f.kind = "notify" /\ f.alarm = a /\ f.send = c.send /\ f.ack = c.exp_o
                          /\ e.ctl[p].out = f
                          /\ e.recvq[p] \in {Dev.recvq[p], Append(Dev.recvq[p], f)}
  BY <1>2, <1>3, <1>4, CtlDataOnly
<1> HIDE DEF e
<1>6. /\ t \in AtType /\ t.m = e.ap[p] /\ t.c = e.ctl[p] /\ t.F = e.link[p] /\ t.B = e.recvq[p]
      /\ t.q = e.sendq[p] /\ t.o = e.owed[p]
  BY <1>5, AtFacts DEF Only
<1>7. PICK f \in Frame : /\ f.kind = "notify" /\ f.alarm = a /\ f.send = c.send /\ f.ack = c.exp_o
                         /\ e.ctl[p].out = f
                         /\ e.recvq[p] \in {Dev.recvq[p], Append(Dev.recvq[p], f)}
  BY <1>5
<1> HIDE DEF t
<1>8. /\ s.c.out = None /\ s.c.alpmi = "W_ALARM" /\ f.send = s.c.send /\ f.ack = s.c.exp_o
      /\ t.c.out = f /\ t.c.alpmi = "W_ACK" /\ t.c.asked = a /\ t.c.send = s.c.send
      /\ t.c.exp = s.c.exp /\ t.c.exp_o = s.c.exp_o /\ t.c.got = s.c.got /\ t.c.last = s.c.last
  BY <1>1, <1>2, <1>3, <1>5, <1>6, <1>7
<1>9. /\ t.m = s.m /\ t.B \in {s.B, Append(s.B, f)} /\ t.F = s.F /\ t.q = s.q /\ t.o = s.o
  BY <1>2, <1>5, <1>6, <1>7
<1>10. Good(p, t) /\ Serving(s, t)
  BY <1>1, <1>2, <1>6, <1>7, <1>8, <1>9, GoodCtlNotifies
<1>11. Goes(Dev, e, p)
  BY <1>5, <1>10 DEF Goes, s, t
<1> QED BY <1>1, <1>11, GoesStep

LEMMA CtlAnswerChannel ==
    ASSUME SeqMod > 2, Sound(Dev), Channel(Dev), NEW p \in Prios, NEW arrives,
           CtlAnswer(p, arrives)
    PROVE  Channel(Dev)' /\ Moves
<1> DEFINE a == Dev.ctl[p].got
           c == [Dev.ctl[p] EXCEPT !.got = None]
           e == CtlData(p, c, "answer", a, arrives)
           s == At(Dev, p)
           t == At(e, p)
<1>1. /\ up /\ Dev.ctl[p].out = None /\ Dev.ctl[p].got # None /\ Becomes(e)
  <2>1. Dev.ctl = ctl
    BY DevFacts
  <2> QED BY <2>1 DEF CtlAnswer
<1>2. /\ Dev \in DevType /\ Good(p, s) /\ Dev.ctl[p] \in Controllers
      /\ s \in AtType /\ s.m = Dev.ap[p] /\ s.c = Dev.ctl[p] /\ s.F = Dev.link[p]
      /\ s.B = Dev.recvq[p] /\ s.q = Dev.sendq[p] /\ s.o = Dev.owed[p]
  BY <1>1, UpGood, AtFacts
<1>3. /\ c \in Controllers /\ c.alpmi = s.c.alpmi /\ c.asked = s.c.asked /\ c.send = s.c.send
      /\ c.exp = s.c.exp /\ c.exp_o = s.c.exp_o /\ c.got = None /\ c.last = s.c.last
  BY <1>2 DEF Controllers
<1>4. "answer" \in DataKinds /\ a \in Alarms
  BY <1>1, <1>2 DEF DataKinds, Controllers
<1>12. s.c.out = None /\ s.c.got # None
  BY <1>1, <1>2
<1> HIDE DEF a, c, s
<1>5. /\ Only(Dev, e, p)
      /\ e.ctl[p].send = c.send /\ e.ctl[p].exp = c.exp /\ e.ctl[p].exp_o = c.exp_o
      /\ e.ctl[p].alpmi = c.alpmi /\ e.ctl[p].asked = c.asked /\ e.ctl[p].got = c.got
      /\ e.ctl[p].last = c.last
      /\ e.ap[p] = Dev.ap[p] /\ e.link[p] = Dev.link[p]
      /\ e.sendq[p] = Dev.sendq[p] /\ e.owed[p] = Dev.owed[p]
      /\ \E f \in Frame : /\ f.kind = "answer" /\ f.alarm = a /\ f.send = c.send /\ f.ack = c.exp_o
                          /\ e.ctl[p].out = f
                          /\ e.recvq[p] \in {Dev.recvq[p], Append(Dev.recvq[p], f)}
  BY <1>2, <1>3, <1>4, CtlDataOnly
<1> HIDE DEF e
<1>6. /\ t \in AtType /\ t.m = e.ap[p] /\ t.c = e.ctl[p] /\ t.F = e.link[p] /\ t.B = e.recvq[p]
      /\ t.q = e.sendq[p] /\ t.o = e.owed[p]
  BY <1>5, AtFacts DEF Only
<1>7. PICK f \in Frame : /\ f.kind = "answer" /\ f.alarm = a /\ f.send = c.send /\ f.ack = c.exp_o
                         /\ e.ctl[p].out = f
                         /\ e.recvq[p] \in {Dev.recvq[p], Append(Dev.recvq[p], f)}
  BY <1>5
<1> HIDE DEF t
<1>8. /\ f.send = s.c.send /\ f.ack = s.c.exp_o
      /\ t.c.out = f /\ t.c.got = None /\ t.c.alpmi = s.c.alpmi /\ t.c.asked = s.c.asked
      /\ t.c.send = s.c.send /\ t.c.exp = s.c.exp /\ t.c.exp_o = s.c.exp_o
      /\ t.c.last = s.c.last
  BY <1>3, <1>5, <1>6, <1>7
<1>9. /\ t.m = s.m /\ t.B \in {s.B, Append(s.B, f)} /\ t.F = s.F /\ t.q = s.q /\ t.o = s.o
  BY <1>2, <1>5, <1>6, <1>7
<1>10. Good(p, t) /\ Serving(s, t)
  BY <1>2, <1>6, <1>7, <1>8, <1>9, <1>12, GoodCtlAnswers
<1>11. Goes(Dev, e, p)
  BY <1>5, <1>10 DEF Goes, s, t
<1> QED BY <1>1, <1>11, GoesStep

\* A frame on the way to the device, none that changes the controller.
LEMMA ReceiveGoes ==
    ASSUME NEW d \in DevType, NEW p \in Prios, NEW h \in Frame, Good(p, At(d, p)), NEW arrives,
           Joined(CtlSide(d.ctl[p]), DevSide(d.ap[p]), Append(d.recvq[p], h), d.link[p]),
           NEW e, e = Receive(d, p, h, arrives)
    PROVE  /\ Only(d, e, p) /\ Good(p, At(e, p)) /\ Same(At(d, p), At(e, p))
<1> DEFINE s == At(d, p)
           t == At(e, p)
<1>1. /\ s \in AtType /\ s.m = d.ap[p] /\ s.c = d.ctl[p] /\ s.F = d.link[p] /\ s.B = d.recvq[p]
      /\ s.q = d.sendq[p] /\ s.o = d.owed[p] /\ Good(p, s)
  BY AtFacts
<1>2. /\ Only(d, e, p) /\ e.ap[p] = d.ap[p] /\ e.ctl[p] = d.ctl[p] /\ e.link[p] = d.link[p]
      /\ e.recvq[p] \in {d.recvq[p], Append(d.recvq[p], h)}
      /\ e.sendq[p] = d.sendq[p] /\ e.owed[p] = d.owed[p]
  BY OnlyReceive
<1>3. /\ t \in AtType /\ t.m = e.ap[p] /\ t.c = e.ctl[p] /\ t.F = e.link[p] /\ t.B = e.recvq[p]
      /\ t.q = e.sendq[p] /\ t.o = e.owed[p]
  BY <1>2, AtFacts DEF Only
<1> HIDE DEF s, t
<1>4. Joined(DevSide(s.m), CtlSide(s.c), s.F, s.B)
  BY <1>1 DEF Good
<1>5. Joined(DevSide(s.m), CtlSide(s.c), s.F, Append(s.B, h))
  BY <1>1, JoinedTurns
<1>6. Joined(DevSide(s.m), CtlSide(s.c), t.F, t.B)
  BY <1>1, <1>2, <1>3, <1>4, <1>5
<1>7. Good(p, t) /\ Same(s, t)
  BY <1>1, <1>2, <1>3, <1>6, GoodAsWell
<1> QED BY <1>2, <1>7 DEF s, t

LEMMA CtlResendChannel ==
    ASSUME SeqMod > 2, Sound(Dev), Channel(Dev), NEW p \in Prios, NEW arrives,
           CtlResend(p, arrives)
    PROVE  Channel(Dev)' /\ Moves
<1> DEFINE c == Dev.ctl[p]
           n == [c EXCEPT !.left = c.left - 1]
           g == WithCtl(Dev, p, n)
           h == c.out
           e == Receive(g, p, h, arrives)
           s == At(Dev, p)
           t == At(g, p)
<1>1. /\ up /\ c.out # None /\ c.left > 0 /\ Becomes(e)
  BY DevFacts DEF CtlResend
<1>2. /\ Dev \in DevType /\ Good(p, s) /\ c \in Controllers
      /\ s \in AtType /\ s.m = Dev.ap[p] /\ s.c = c /\ s.F = Dev.link[p]
      /\ s.B = Dev.recvq[p] /\ s.q = Dev.sendq[p] /\ s.o = Dev.owed[p]
  BY <1>1, UpGood, AtFacts
<1>3. h \in Frame /\ c.left - 1 \in 0 .. Retries
  <2>1. c.out \in Frame \cup {None} /\ c.left \in 0 .. Retries /\ Retries \in Nat
    BY <1>2, AlarmAssumption DEF Controllers
  <2> HIDE DEF c
  <2> QED BY <1>1, <2>1 DEF c
<1>4. /\ n \in Controllers /\ n.send = c.send /\ n.exp = c.exp /\ n.exp_o = c.exp_o
      /\ n.out = c.out /\ n.alpmi = c.alpmi /\ n.asked = c.asked /\ n.got = c.got
      /\ n.last = c.last
  BY <1>2, <1>3 DEF Controllers
<1> HIDE DEF n, c, s, h
<1>5. /\ Only(Dev, g, p) /\ g \in DevType
      /\ g.ap[p] = Dev.ap[p] /\ g.ctl[p] = n /\ g.link[p] = Dev.link[p]
      /\ g.recvq[p] = Dev.recvq[p] /\ g.sendq[p] = Dev.sendq[p] /\ g.owed[p] = Dev.owed[p]
  BY <1>2, <1>4, OnlyCtl DEF Only
<1> HIDE DEF g
<1>6. /\ t \in AtType /\ t.m = g.ap[p] /\ t.c = g.ctl[p] /\ t.F = g.link[p] /\ t.B = g.recvq[p]
      /\ t.q = g.sendq[p] /\ t.o = g.owed[p]
  BY <1>5, AtFacts
<1> HIDE DEF t
<1>7. CtlSide(t.c) = CtlSide(s.c)
  BY <1>2, <1>4, <1>5, <1>6 DEF CtlSide
<1>8. Joined(DevSide(s.m), CtlSide(s.c), t.F, t.B)
  BY <1>2, <1>5, <1>6 DEF Good
<1>9. Good(p, t) /\ Same(s, t)
  BY <1>2, <1>4, <1>5, <1>6, <1>7, <1>8, GoodAsWell
<1> DEFINE x == CtlSide(g.ctl[p])
           y == DevSide(g.ap[p])
<1>10. /\ x \in SideType /\ y \in SideType /\ x.out = h /\ h # None
       /\ g.recvq[p] \in Seq(Frame) /\ g.link[p] \in Seq(Frame)
  BY <1>1, <1>4, <1>5, AtFacts, DevFields, CtlFields DEF h
<1>11. Joined(x, y, g.recvq[p], g.link[p])
  BY <1>6, <1>9, JoinedTurns DEF Good
<1>12. Joined(x, y, Append(g.recvq[p], h), g.link[p])
  <2> HIDE DEF x, y
  <2> QED BY <1>10, <1>11, JoinedResends
<1>13. Only(g, e, p) /\ Good(p, At(e, p)) /\ Same(At(g, p), At(e, p))
  <2> HIDE DEF e
  <2>1. Good(p, At(g, p)) /\ e = Receive(g, p, h, arrives)
    BY <1>9 DEF t, e
  <2> QED BY <1>3, <1>5, <1>12, <2>1, ReceiveGoes
<1> HIDE DEF e
<1>14. Goes(g, e, p)
  BY <1>13, ServingFacts DEF Goes
<1>15. Goes(Dev, e, p)
  BY <1>5, <1>9, <1>14, GoesOn DEF s, t
<1> QED BY <1>1, <1>15, GoesStep

LEMMA CtlGiveUpChannel ==
    ASSUME SeqMod > 2, Sound(Dev), Channel(Dev), NEW p \in Prios, CtlGiveUp(p)
    PROVE  Channel(Dev)' /\ Moves
<1> DEFINE h == [Dev.ctl[p].out EXCEPT !.kind = "err"]
           e == Receive(Dev, p, h, TRUE)
           x == CtlSide(Dev.ctl[p])
           y == DevSide(Dev.ap[p])
           s == At(Dev, p)
<1>1. /\ up /\ Dev.ctl[p].out # None /\ Becomes(e)
  BY DevFacts DEF CtlGiveUp
<1>2. /\ Dev \in DevType /\ Good(p, s) /\ Dev.ctl[p] \in Controllers /\ Dev.ap[p] \in Machines
      /\ s \in AtType /\ s.m = Dev.ap[p] /\ s.c = Dev.ctl[p] /\ s.F = Dev.link[p]
      /\ s.B = Dev.recvq[p] /\ Dev.recvq[p] \in Seq(Frame) /\ Dev.link[p] \in Seq(Frame)
  BY <1>1, UpGood, AtFacts
<1>3. h \in Frame /\ h.kind \notin DataKinds /\ h.ack = Dev.ctl[p].out.ack
  <2>1. Dev.ctl[p].out \in Frame
    BY <1>1, <1>2 DEF Controllers
  <2> QED BY <2>1 DEF Frame, Kinds, DataKinds
<1>4. x \in SideType /\ y \in SideType /\ x.out = Dev.ctl[p].out
  BY <1>2, DevFields, CtlFields
<1>5. Joined(x, y, Dev.recvq[p], Dev.link[p])
  BY <1>2, JoinedTurns DEF Good
<1> HIDE DEF h, x, y
<1>6. Joined(x, y, Append(Dev.recvq[p], h), Dev.link[p])
  BY <1>1, <1>2, <1>3, <1>4, <1>5, JoinedReplies
<1>7. Only(Dev, e, p) /\ Good(p, At(e, p)) /\ Same(At(Dev, p), At(e, p))
  <2>1. PICK arrives \in BOOLEAN : e = Receive(Dev, p, h, arrives)
    OBVIOUS
  <2> HIDE DEF e
  <2> QED BY <1>2, <1>3, <1>6, <2>1, ReceiveGoes DEF x, y
<1> HIDE DEF e
<1>8. Goes(Dev, e, p)
  BY <1>7, ServingFacts DEF Goes
<1> QED BY <1>1, <1>8, GoesStep

-----------------------------------------------------------------------------
\* The same as Taken for a frame that the controller takes from the link.
Passed(d, p) == [d EXCEPT !.link[p] = Tail(d.link[p])]

LEMMA PassedFacts ==
    ASSUME NEW d \in DevType, NEW p \in Prios, Tail(d.link[p]) \in Seq(Frame)
    PROVE  /\ Only(d, Passed(d, p), p)
           /\ Passed(d, p).ap[p] = d.ap[p] /\ Passed(d, p).ctl[p] = d.ctl[p]
           /\ Passed(d, p).link[p] = Tail(d.link[p]) /\ Passed(d, p).recvq[p] = d.recvq[p]
           /\ Passed(d, p).sendq[p] = d.sendq[p] /\ Passed(d, p).owed[p] = d.owed[p]
<1> DEFINE e == Passed(d, p)
<1>1. /\ e \in DevType /\ e.up = d.up /\ e.ap = d.ap
      /\ e.ctl = d.ctl /\ e.recvq = d.recvq /\ e.link = [d.link EXCEPT ![p] = Tail(d.link[p])]
      /\ e.sendq = d.sendq /\ e.owed = d.owed
  BY DEF Passed, DevType
<1> HIDE DEF e
<1>2. e.link[p] = Tail(d.link[p]) /\ \A r \in Prios : r # p => e.link[r] = d.link[r]
  BY <1>1 DEF DevType
<1>3. Only(d, e, p)
  BY <1>1, <1>2 DEF Only, At
<1> QED BY <1>1, <1>2, <1>3 DEF e

\* What is known of a frame f that the controller takes from the link.
CtlAckKnown(d, p, f) ==
    /\ d.ctl[p].send = d.ap[p].exp => f.ack # d.ctl[p].send
    /\ d.ctl[p].send # d.ap[p].exp /\ f.ack = d.ctl[p].send =>
         \A i \in 1 .. Len(d.link[p]) : d.link[p][i].ack # NextSeq(d.ctl[p].send)
CtlDataKnown(d, p, f) ==
    f.kind \in DataKinds /\ f.send = d.ctl[p].exp =>
      /\ f = d.ap[p].rta /\ d.ap[p].send = d.ctl[p].exp
      /\ \A i \in 1 .. Len(d.link[p]) :
            d.link[p][i].kind \in DataKinds => d.link[p][i].send # NextSeq(d.ctl[p].exp)

LEMMA PassedGoes ==
    ASSUME SeqMod > 2, NEW d \in DevType, NEW p \in Prios, Good(p, At(d, p)), d.link[p] # << >>
    PROVE  LET f == Head(d.link[p])
               e == Passed(d, p)
           IN  /\ Only(d, e, p) /\ Good(p, At(e, p)) /\ Same(At(d, p), At(e, p)) /\ f \in Frame
               /\ CtlAckKnown(e, p, f) /\ CtlDataKnown(e, p, f) /\ e.ctl[p] = d.ctl[p]
<1> DEFINE f == Head(d.link[p])
           e == Passed(d, p)
           s == At(d, p)
           t == At(e, p)
           x == CtlSide(d.ctl[p])
           y == DevSide(d.ap[p])
           F == d.link[p]
           B == d.recvq[p]
<1>1. /\ s \in AtType /\ s.m = d.ap[p] /\ s.c = d.ctl[p] /\ s.F = F /\ s.B = B
      /\ s.q = d.sendq[p] /\ s.o = d.owed[p] /\ Good(p, s)
      /\ F \in Seq(Frame) /\ B \in Seq(Frame) /\ d.ap[p] \in Machines /\ d.ctl[p] \in Controllers
  BY AtFacts
<1>2. Tail(F) \in Seq(Frame) /\ f \in Frame
  BY <1>1
<1>3. /\ Only(d, e, p)
      /\ e.ap[p] = d.ap[p] /\ e.ctl[p] = d.ctl[p] /\ e.link[p] = Tail(F)
      /\ e.recvq[p] = B /\ e.sendq[p] = d.sendq[p] /\ e.owed[p] = d.owed[p]
  BY <1>2, PassedFacts
<1> HIDE DEF e
<1>4. /\ t \in AtType /\ t.m = e.ap[p] /\ t.c = e.ctl[p] /\ t.F = e.link[p] /\ t.B = e.recvq[p]
      /\ t.q = e.sendq[p] /\ t.o = e.owed[p]
  BY <1>3, AtFacts DEF Only
<1>5. /\ x \in SideType /\ y \in SideType
      /\ x.send = d.ctl[p].send /\ x.exp = d.ctl[p].exp
      /\ y.exp = d.ap[p].exp /\ y.send = d.ap[p].send /\ y.out = d.ap[p].rta
  BY <1>1, DevFields, CtlFields
<1>6. Joined(x, y, B, F)
  BY <1>1, JoinedTurns DEF Good
<1>7. F # << >> /\ f = Head(F) /\ x = CtlSide(s.c) /\ y = DevSide(s.m)
  BY <1>1
<1> HIDE DEF f, s, t, x, y, F, B
<1>8. Joined(x, y, B, Tail(F))
  BY <1>1, <1>5, <1>6, <1>7, JoinedLoses
<1>12. Joined(y, x, Tail(F), B)
  BY <1>8, JoinedTurns
<1>9. Good(p, t) /\ Same(s, t)
  BY <1>1, <1>3, <1>4, <1>7, <1>12, GoodAsWell
<1>10. CtlAckKnown(e, p, f)
  <2>1. /\ Fresh(x, y) => f.ack # x.send
        /\ ~Fresh(x, y) /\ f.ack = x.send =>
             \A i \in 1 .. Len(Tail(F)) : Tail(F)[i].ack # NextSeq(x.send)
    BY <1>1, <1>5, <1>6, <1>7, TailAcks DEF Joined, Half
  <2> QED BY <1>3, <1>5, <2>1 DEF CtlAckKnown, Fresh
<1>11. CtlDataKnown(e, p, f)
  <2>1. f.kind \in DataKinds /\ f.send = x.exp =>
          /\ Fresh(y, x) /\ f = y.out
          /\ \A i \in 1 .. Len(Tail(F)) :
                Tail(F)[i].kind \in DataKinds => Tail(F)[i].send # NextSeq(x.exp)
    BY <1>1, <1>5, <1>6, <1>7, TailInOrder DEF Joined, Half
  <2> QED BY <1>3, <1>5, <2>1 DEF CtlDataKnown, Fresh
<1> QED BY <1>2, <1>3, <1>9, <1>10, <1>11 DEF s, t, f, e

LEMMA LinkLosesChannel ==
    ASSUME SeqMod > 2, Sound(Dev), Channel(Dev), NEW p \in Prios, LinkLoses(p)
    PROVE  Channel(Dev)' /\ Moves
<1> DEFINE e == Passed(Dev, p)
<1>1. Dev.link[p] # << >> /\ Becomes(e) /\ Dev \in DevType
  BY DevFacts DEF LinkLoses, Passed
<1>2. up
  <2> SUFFICES ASSUME ~up PROVE FALSE
    OBVIOUS
  <2>1. At(Dev, p) = Nothing
    BY DEF Dev, Channel, Over
  <2>2. Dev.link[p] = << >>
    BY <1>1, <2>1, AtFacts DEF Nothing
  <2> QED BY <1>1, <2>2
<1>3. Only(Dev, e, p) /\ Good(p, At(e, p)) /\ Same(At(Dev, p), At(e, p))
  BY <1>1, <1>2, UpGood, PassedGoes
<1> HIDE DEF e
<1>4. Goes(Dev, e, p)
  BY <1>3, ServingFacts DEF Goes
<1> QED BY <1>1, <1>2, <1>4, GoesStep

\* The acknowledgement in the frame.
LEMMA CtlTackedGoes ==
    ASSUME SeqMod > 2, NEW d \in DevType, NEW p \in Prios, NEW f, Good(p, At(d, p)),
           CtlAckKnown(d, p, f), NEW c, c = CtlTacked(d.ctl[p], f),
           NEW e, e = WithCtl(d, p, c)
    PROVE  /\ Only(d, e, p) /\ Good(p, At(e, p)) /\ Same(At(d, p), At(e, p))
           /\ c \in Controllers /\ e.ctl[p] = c
           /\ e.ap[p] = d.ap[p] /\ e.link[p] = d.link[p]
           /\ c.exp = d.ctl[p].exp /\ c.exp_o = d.ctl[p].exp_o
           /\ f.kind # "nack" /\ c.out # None => f.ack # c.send
<1> DEFINE s == At(d, p)
           t == At(e, p)
           k == d.ctl[p]
<1>1. /\ s \in AtType /\ s.m = d.ap[p] /\ s.c = k /\ s.F = d.link[p] /\ s.B = d.recvq[p]
      /\ s.q = d.sendq[p] /\ s.o = d.owed[p] /\ k \in Controllers
  BY AtFacts
<1>2. CASE f.kind # "nack" /\ k.out # None /\ f.ack = k.send
  <2>1. c = [k EXCEPT !.out = None, !.send = NextSeq(k.send)]
    BY <1>2 DEF CtlTacked
  <2>2. c \in Controllers /\ c.exp = k.exp /\ c.exp_o = k.exp_o /\ c.out = None
    <3>1. NextSeq(k.send) \in SeqNo
      BY <1>1, NextSeqType DEF Controllers
    <3> QED BY <1>1, <2>1, <3>1 DEF Controllers
  <2>3. /\ Only(d, e, p)
        /\ e.ap[p] = d.ap[p] /\ e.ctl[p] = c /\ e.link[p] = d.link[p]
        /\ e.recvq[p] = d.recvq[p] /\ e.sendq[p] = d.sendq[p] /\ e.owed[p] = d.owed[p]
    BY <2>2, OnlyCtl
  <2>4. /\ t \in AtType /\ t.m = e.ap[p] /\ t.c = e.ctl[p] /\ t.F = e.link[p] /\ t.B = e.recvq[p]
        /\ t.q = e.sendq[p] /\ t.o = e.owed[p]
    BY <2>3, AtFacts DEF Only
  <2>5. /\ k.send # d.ap[p].exp
        /\ \A i \in 1 .. Len(s.F) : s.F[i].ack # NextSeq(s.c.send)
    BY <1>1, <1>2 DEF CtlAckKnown
  <2> HIDE DEF s, t, k
  <2>6. s.c.out # None /\ s.c.send # s.m.exp /\ Good(p, s)
        /\ t.c = [s.c EXCEPT !.out = None, !.send = NextSeq(s.c.send)]
    BY <1>1, <1>2, <2>1, <2>3, <2>4, <2>5 DEF s
  <2>7. t.m = s.m /\ t.F = s.F /\ t.B = s.B /\ t.q = s.q /\ t.o = s.o
    BY <1>1, <2>3, <2>4
  <2>8. Good(p, t) /\ Same(s, t)
    BY <1>1, <2>4, <2>5, <2>6, <2>7, GoodCtlAcked
  <2> QED BY <2>2, <2>3, <2>8 DEF s, t, k
<1>3. CASE ~(f.kind # "nack" /\ k.out # None /\ f.ack = k.send)
  <2>1. c = k
    BY <1>3 DEF CtlTacked
  <2>2. /\ Only(d, e, p)
        /\ e.ap[p] = d.ap[p] /\ e.ctl[p] = c /\ e.link[p] = d.link[p]
        /\ e.recvq[p] = d.recvq[p] /\ e.sendq[p] = d.sendq[p] /\ e.owed[p] = d.owed[p]
    BY <1>1, <2>1, OnlyCtl
  <2>3. t = s
    BY <2>1, <2>2 DEF At
  <2> QED BY <1>1, <1>3, <2>1, <2>2, <2>3 DEF Same
<1> QED BY <1>2, <1>3

LEMMA CtlTwice ==
    ASSUME NEW d \in DevType, NEW p \in Prios, NEW c, NEW e
    PROVE  WithCtl(WithCtl(d, p, c), p, e) = WithCtl(d, p, e)
BY DEF WithCtl, DevType

\* The controller accepts the frame that the device repeats, and acknowledges it with h.
CtlTakes(s, t, h) ==
    LET f == s.m.rta IN
    /\ f # None /\ f.kind \in {"notify", "answer"} /\ s.m.send = s.c.exp
    /\ s.c.out # None => f.ack # s.c.send
    /\ \A i \in 1 .. Len(s.F) : s.F[i].kind \in DataKinds => s.F[i].send # NextSeq(s.c.exp)
    /\ t.c.exp = NextSeq(s.c.exp) /\ t.c.exp_o = s.c.exp
    /\ t.c.send = s.c.send /\ t.c.out = s.c.out
    /\ f.kind = "notify" => /\ t.c.got = f.alarm /\ t.c.last = f.alarm
                            /\ t.c.alpmi = s.c.alpmi /\ t.c.asked = s.c.asked
    /\ f.kind = "answer" => /\ t.c.alpmi = "W_ALARM" /\ t.c.asked = None
                            /\ t.c.got = s.c.got /\ t.c.last = s.c.last
    /\ h.kind = "tack" /\ h.ack = s.c.exp
    /\ t.m = s.m /\ t.F = s.F /\ t.B \in {s.B, Append(s.B, h)} /\ t.q = s.q /\ t.o = s.o

LEMMA GoodCtlTakes ==
    ASSUME SeqMod > 2, NEW p \in Prios, NEW s \in AtType, NEW t \in AtType, Good(p, s),
           NEW h \in Frame, CtlTakes(s, t, h)
    PROVE  Good(p, t) /\ Serving(s, t)
<1> DEFINE f == s.m.rta
<1>1. /\ f # None /\ s.m.send = s.c.exp
      /\ s.c.out # None => f.ack # s.c.send
      /\ \A i \in 1 .. Len(s.F) : s.F[i].kind \in DataKinds => s.F[i].send # NextSeq(s.c.exp)
      /\ t.c.exp = NextSeq(s.c.exp) /\ t.c.exp_o = s.c.exp
      /\ t.c.send = s.c.send /\ t.c.out = s.c.out
      /\ h.kind = "tack" /\ h.ack = s.c.exp
      /\ t.m = s.m /\ t.F = s.F /\ t.B \in {s.B, Append(s.B, h)} /\ t.q = s.q /\ t.o = s.o
  BY DEF CtlTakes
<1>2. CASE f.kind = "notify"
  <2>1. t.c.got = f.alarm /\ t.c.last = f.alarm /\ t.c.alpmi = s.c.alpmi /\ t.c.asked = s.c.asked
    BY <1>2 DEF CtlTakes
  <2> QED BY <1>1, <1>2, <2>1, GoodCtlIndicates
<1>3. CASE f.kind = "answer"
  <2>1. t.c.alpmi = "W_ALARM" /\ t.c.asked = None /\ t.c.got = s.c.got /\ t.c.last = s.c.last
    BY <1>3 DEF CtlTakes
  <2> QED BY <1>1, <1>3, <2>1, GoodCtlConfirms
<1> QED BY <1>2, <1>3 DEF CtlTakes

\* A frame with the expected number: the controller accepts and acknowledges it.
LEMMA CtlAcceptsGoes ==
    ASSUME SeqMod > 2, NEW d \in DevType, NEW p \in Prios, NEW f \in Frame, Good(p, At(d, p)),
           CtlDataKnown(d, p, f), f.kind \in DataKinds, f.send = d.ctl[p].exp,
           d.ctl[p].out # None => f.ack # d.ctl[p].send,
           NEW e, e = CtlAccepts(d.ctl[p], f), NEW h \in Frame, h.kind = "tack", h.ack = e.exp_o,
           NEW arrives, NEW r, r = Receive(WithCtl(d, p, e), p, h, arrives)
    PROVE  Goes(d, r, p)
<1> DEFINE c == d.ctl[p]
           g == WithCtl(d, p, e)
           s == At(d, p)
           t == At(r, p)
           x == CtlSide(c)
           y == DevSide(d.ap[p])
<1>1. /\ s \in AtType /\ s.m = d.ap[p] /\ s.c = c /\ s.F = d.link[p] /\ s.B = d.recvq[p]
      /\ s.q = d.sendq[p] /\ s.o = d.owed[p] /\ c \in Controllers /\ d.ap[p] \in Machines
      /\ Good(p, s)
  BY AtFacts
<1>2. f = d.ap[p].rta /\ f # None /\ d.ap[p].send = c.exp
  BY FrameAssumption DEF CtlDataKnown
<1>3. f.kind \in {"notify", "answer"}
  <2>1. Joined(y, x, d.link[p], d.recvq[p])
    BY <1>1 DEF Good
  <2>2. y.out = f
    BY <1>1, <1>2, DevFields
  <2> HIDE DEF x, y
  <2> QED BY <1>2, <2>1, <2>2 DEF Joined, Half, Stands
<1>4. f.alarm \in Alarms \cup {None} /\ NextSeq(c.exp) \in SeqNo
  BY <1>1, NextSeqType DEF Frame, Controllers
<1>5. /\ e \in Controllers /\ e.exp = NextSeq(c.exp) /\ e.exp_o = c.exp /\ e.send = c.send
      /\ e.out = c.out
      /\ f.kind = "notify" => /\ e.got = f.alarm /\ e.last = f.alarm /\ e.alpmi = c.alpmi
                              /\ e.asked = c.asked
      /\ f.kind = "answer" => /\ e.alpmi = "W_ALARM" /\ e.asked = None /\ e.got = c.got
                              /\ e.last = c.last
  BY <1>1, <1>3, <1>4 DEF CtlAccepts, Controllers
<1>6. /\ Only(d, g, p) /\ g \in DevType
      /\ g.ap[p] = d.ap[p] /\ g.ctl[p] = e /\ g.link[p] = d.link[p]
      /\ g.recvq[p] = d.recvq[p] /\ g.sendq[p] = d.sendq[p] /\ g.owed[p] = d.owed[p]
  BY <1>5, OnlyCtl DEF Only
<1>7. r = Receive(g, p, h, arrives)
  OBVIOUS
<1> HIDE DEF g, c, s
<1>15. g \in DevType
  BY <1>6
<1>8. /\ Only(g, r, p) /\ r.ap[p] = g.ap[p] /\ r.ctl[p] = g.ctl[p] /\ r.link[p] = g.link[p]
      /\ r.recvq[p] \in {g.recvq[p], Append(g.recvq[p], h)}
      /\ r.sendq[p] = g.sendq[p] /\ r.owed[p] = g.owed[p]
  BY <1>7, <1>15, OnlyReceive
<1>9. /\ t \in AtType /\ t.m = r.ap[p] /\ t.c = r.ctl[p] /\ t.F = r.link[p] /\ t.B = r.recvq[p]
      /\ t.q = r.sendq[p] /\ t.o = r.owed[p]
  BY <1>8, AtFacts DEF Only
<1>10. /\ f = s.m.rta /\ s.m.send = s.c.exp /\ s.c.out # None => f.ack # s.c.send
       /\ h.ack = s.c.exp
  BY <1>1, <1>2, <1>5 DEF c
<1>11. \A i \in 1 .. Len(s.F) : s.F[i].kind \in DataKinds => s.F[i].send # NextSeq(s.c.exp)
  BY <1>1 DEF CtlDataKnown, c
<1> HIDE DEF t
<1>12. /\ t.c = e /\ t.m = s.m /\ t.F = s.F /\ t.B \in {s.B, Append(s.B, h)}
       /\ t.q = s.q /\ t.o = s.o
  BY <1>1, <1>6, <1>8, <1>9
<1>13. CtlTakes(s, t, h)
  BY <1>1, <1>2, <1>3, <1>5, <1>10, <1>11, <1>12 DEF CtlTakes
<1>16. s \in AtType /\ t \in AtType /\ Good(p, s)
  BY <1>1, <1>9
<1>17. Good(p, t) /\ Serving(s, t)
  BY <1>13, <1>16, GoodCtlTakes
<1>14. Only(d, r, p)
  BY <1>6, <1>8, OnlyTwice
<1> QED BY <1>14, <1>17 DEF Goes, s, t

\* The controller acknowledges a frame once more.
LEMMA CtlRepliesGoes ==
    ASSUME SeqMod > 2, NEW d \in DevType, NEW p \in Prios, Good(p, At(d, p)),
           NEW h \in Frame, h.kind = "tack", h.ack = d.ctl[p].exp_o,
           NEW arrives, NEW r, r = Receive(d, p, h, arrives)
    PROVE  Goes(d, r, p)
<1> DEFINE x == CtlSide(d.ctl[p])
           y == DevSide(d.ap[p])
<1>1. /\ At(d, p).m = d.ap[p] /\ At(d, p).c = d.ctl[p] /\ At(d, p).F = d.link[p]
      /\ At(d, p).B = d.recvq[p] /\ d.ap[p] \in Machines /\ d.ctl[p] \in Controllers
      /\ d.link[p] \in Seq(Frame) /\ d.recvq[p] \in Seq(Frame)
  BY AtFacts
<1>2. x \in SideType /\ y \in SideType /\ h.ack = x.exp_o /\ h.kind \notin DataKinds
  BY <1>1, DevFields, CtlFields DEF DataKinds
<1>3. Joined(x, y, d.recvq[p], d.link[p])
  BY <1>1, JoinedTurns DEF Good
<1> HIDE DEF x, y
<1>4. Joined(x, y, Append(d.recvq[p], h), d.link[p])
  BY <1>1, <1>2, <1>3, JoinedReplies
<1>5. Only(d, r, p) /\ Good(p, At(r, p)) /\ Same(At(d, p), At(r, p))
  BY <1>4, ReceiveGoes DEF x, y
<1> QED BY <1>5, ServingFacts DEF Goes

LEMMA CtlReceiveChannel ==
    ASSUME SeqMod > 2, Sound(Dev), Channel(Dev), NEW p \in Prios, NEW arrives,
           CtlReceive(p, arrives)
    PROVE  Channel(Dev)' /\ Moves
<1> DEFINE f == Head(Dev.link[p])
           g == Passed(Dev, p)
           c == CtlTacked(Dev.ctl[p], f)
           d == WithCtl(g, p, c)
           e == IF f.kind \in DataKinds /\ f.send = c.exp THEN CtlAccepts(c, f) ELSE c
           h == [kind |-> "tack", alarm |-> None, send |-> e.send, ack |-> e.exp_o]
           r == IF f.kind \in DataKinds /\ f.send \in {c.exp, c.exp_o}
                THEN Receive(WithCtl(g, p, e), p, h, arrives) ELSE WithCtl(g, p, e)
<1>1. /\ up /\ Dev.link[p] # << >> /\ Becomes(r)
  <2>1. Dev.ctl = ctl /\ Dev.link = link
    BY DevFacts
  <2> QED BY <2>1 DEF CtlReceive, Passed
<1>2. Dev \in DevType /\ Good(p, At(Dev, p))
  BY <1>1, UpGood
<1>3. /\ Only(Dev, g, p) /\ g \in DevType /\ Good(p, At(g, p)) /\ Same(At(Dev, p), At(g, p))
      /\ f \in Frame /\ CtlAckKnown(g, p, f) /\ CtlDataKnown(g, p, f) /\ g.ctl[p] = Dev.ctl[p]
  BY <1>1, <1>2, PassedGoes DEF Only
<1> HIDE DEF g, f
<1>4. c = CtlTacked(g.ctl[p], f)
  BY <1>3
<1> HIDE DEF c
<1>5. /\ Only(g, d, p) /\ d \in DevType /\ Good(p, At(d, p)) /\ Same(At(g, p), At(d, p))
      /\ c \in Controllers /\ d.ctl[p] = c /\ d.ap[p] = g.ap[p] /\ d.link[p] = g.link[p]
      /\ c.exp = g.ctl[p].exp /\ c.exp_o = g.ctl[p].exp_o
      /\ f.kind # "nack" /\ c.out # None => f.ack # c.send
  BY <1>3, <1>4, CtlTackedGoes DEF Only
<1>6. CtlDataKnown(d, p, f) /\ (f.kind \in DataKinds => f.kind # "nack")
  BY <1>3, <1>5 DEF CtlDataKnown, DataKinds
<1>7. WithCtl(g, p, e) = WithCtl(d, p, e)
  BY <1>3, CtlTwice
<1> HIDE DEF d
<1>8. Goes(d, r, p)
  <2>1. CASE f.kind \in DataKinds /\ f.send = c.exp
    <3>1. e = CtlAccepts(d.ctl[p], f) /\ r = Receive(WithCtl(d, p, e), p, h, arrives)
      BY <1>5, <1>7, <2>1
    <3>2. e.send = c.send /\ e.exp_o = c.exp
      BY <1>5, <2>1 DEF CtlAccepts, Controllers
    <3>3. h \in Frame /\ h.kind = "tack" /\ h.ack = e.exp_o
      BY <1>5, <3>2 DEF Frame, Controllers, Kinds
    <3> HIDE DEF e, h, r
    <3> QED BY <1>3, <1>5, <1>6, <2>1, <3>1, <3>3, CtlAcceptsGoes
  <2>2. CASE ~(f.kind \in DataKinds /\ f.send = c.exp)
    <3>1. e = c
      BY <2>2
    <3>2. h \in Frame /\ h.kind = "tack" /\ h.ack = c.exp_o
      BY <1>5, <3>1 DEF Frame, Controllers, Kinds
    <3>3. WithCtl(g, p, e) = d
      BY <3>1 DEF d
    <3> HIDE DEF e
    <3>4. r = Receive(d, p, h, arrives) \/ r = d
      BY <3>3
    <3> HIDE DEF h, r
    <3>5. Goes(d, d, p)
      BY <1>5, ServingFacts DEF Goes, Only
    <3>6. ASSUME r = Receive(d, p, h, arrives) PROVE Goes(d, r, p)
      BY <1>5, <3>2, <3>6, CtlRepliesGoes
    <3> QED BY <3>4, <3>5, <3>6
  <2> QED BY <2>1, <2>2
<1> HIDE DEF r
<1>9. Goes(g, r, p)
  BY <1>5, <1>8, GoesOn
<1>10. Goes(Dev, r, p)
  BY <1>3, <1>9, GoesOn
<1> QED BY <1>1, <1>10, GoesStep

-----------------------------------------------------------------------------
\* The invariant of the channel.
Holds == Sound(Dev) /\ Channel(Dev)

LEMMA InitChannel == Init => Channel(Dev)
<1> SUFFICES ASSUME Init PROVE Channel(Dev)
  OBVIOUS
<1>1. ~Dev.up
  BY DEF Init, Dev
<1>2. \A p \in Prios : At(Dev, p) = Nothing
  BY DEF Init, Dev, At, Each, Nothing
<1> QED BY <1>1, <1>2 DEF Channel, Over

LEMMA MainChannel == ASSUME Discipline, Holds, MainStep PROVE Channel(Dev)' /\ Moves
<1>1. SeqMod > 2 /\ Sendings = {TRUE} /\ Sound(Dev) /\ Channel(Dev)
  BY DEF Discipline, Sendings, Holds
<1> QED BY <1>1, FetchChannel, AlmpiChannel, TimeoutChannel, AppAckChannel, AppSendChannel
        DEF MainStep

LEMMA ControllerChannel == ASSUME Discipline, Holds, ControllerStep PROVE Channel(Dev)' /\ Moves
<1>1. SeqMod > 2 /\ KeptTo = Prios /\ Sound(Dev) /\ Channel(Dev) /\ CtlSends \subseteq {High}
  BY DEF Discipline, KeptTo, Holds
<1> QED BY <1>1, CtlNotifyChannel, CtlAnswerChannel, CtlResendChannel, CtlReceiveChannel,
           CtlGiveUpChannel, LinkLosesChannel DEF ControllerStep

LEMMA NextChannel == ASSUME Discipline PROVE Holds /\ [Next]_vars => Channel(Dev)' /\ Moves
<1> SUFFICES ASSUME Holds, [Next]_vars PROVE Channel(Dev)' /\ Moves
  OBVIOUS
<1>1. CASE Next
  <2>1. ~WildStep
    BY DEF Discipline, WildStep
  <2> QED BY <1>1, <2>1, ArChannel, MainChannel, ControllerChannel DEF Next, Holds
<1>2. CASE UNCHANGED vars
  <2>1. Dev' = Dev /\ \A r \in Prios : At(Dev, r)' = At(Dev, r)
    BY <1>2 DEF vars, Dev, At
  <2>2. Channel(Dev')
    BY <2>1 DEF Holds
  <2>3. Channel(Dev)'
    BY <2>2 DEF Channel, Over
  <2>4. Moves
    BY <2>1, ServingFacts DEF Moves
  <2> QED BY <2>3, <2>4
<1> QED BY <1>1, <1>2

LEMMA AlwaysHolds == Discipline => (Spec => []Holds)
<1> SUFFICES ASSUME Discipline PROVE Spec => []Holds
  OBVIOUS
<1>1. Init => Channel(Dev)
  BY InitChannel
<1>2. Holds /\ [Next]_vars => Channel(Dev)'
  BY NextChannel
<1>3. IInv /\ Channel(Dev) <=> Holds
  BY DEF IInv, Holds
<1> QED BY <1>1, <1>2, <1>3, AlwaysIInv, PTL DEF Spec

\* While an alarm is sent and repeated ALPMI waits for its answer: however the
\* alarms and the answers of the two sides cross on the link, whatever is lost
\* and repeated, no answer is taken for that of another alarm
\* (pf_alarm_almpi_periodic, pf_alarm_alpmi_apmr_a_data_ind).
THEOREM WaitsForAnswer == Discipline => (Spec => []WaitsForAck)
<1> SUFFICES ASSUME Discipline PROVE Spec => []WaitsForAck
  OBVIOUS
<1>1. Holds => WaitsForAck
  <2> SUFFICES ASSUME Holds, NEW p \in Prios, ap[p].rta # None, ap[p].rta.kind = "notify"
               PROVE  ap[p].alpmi = "W_ACK"
    BY DEF WaitsForAck
  <2>1. Sound(Dev) /\ Channel(Dev) /\ Dev \in DevType /\ Dev.ap = ap
    BY DevFacts DEF Holds
  <2>2. up
    <3> SUFFICES ASSUME ~up PROVE FALSE
      OBVIOUS
    <3>1. At(Dev, p) = Nothing
      BY <2>1 DEF Dev, Channel, Over
    <3>2. ap[p] = Closed
      BY <2>1, <3>1, AtFacts DEF Nothing
    <3> QED BY <3>2 DEF Closed
  <2> DEFINE s == At(Dev, p)
  <2>3. Good(p, s) /\ s.m = ap[p] /\ s.c = ctl[p] /\ s.F = link[p] /\ s.B = recvq[p]
        /\ ap[p] \in Machines
    BY <2>1, <2>2, UpGood, DevFacts
  <2> DEFINE x == DevSide(ap[p])
             y == CtlSide(ctl[p])
  <2>4. Joined(x, y, link[p], recvq[p])
    BY <2>3 DEF Good
  <2>5. x.out = ap[p].rta /\ (x.waits <=> ap[p].alpmi = "W_ACK")
    BY <2>3, DevFields
  <2> HIDE DEF x, y
  <2> QED BY <2>4, <2>5, JoinedTurns DEF Turns, Repeats
<1> QED BY <1>1, AlwaysHolds, PTL

-----------------------------------------------------------------------------
\* What the users see at high priority is the state of AlarmService.
LEMMA DevViewIs ==
    DevView(At(Dev, High)) =
      [queue |-> ToIndicate(High), current |-> Current(High), answered |-> Answered(High)]
<1>1. /\ At(Dev, High).m = ap[High] /\ At(Dev, High).c = ctl[High]
      /\ At(Dev, High).q = sendq[High]
  BY DEF At, Dev
<1>2. ToCtl(At(Dev, High)) <=> SendingTo(High)
  BY <1>1, SideFields DEF ToCtl, Going, Repeats, Fresh, SendingTo
<1> QED BY <1>1, <1>2 DEF DevView, ToIndicate, OnTheWay, Current, Answered, Indicated

LEMMA CtlViewIs ==
    ASSUME Channel(Dev)
    PROVE  CtlView(At(Dev, High)) =
             [queue |-> IF up /\ Asking THEN <<ctl[High].out.alarm>> ELSE << >>,
              current |-> IF Asked THEN ctl[High].asked ELSE None,
              answered |-> Asked /\ owed[High] = None]
<1>1. /\ At(Dev, High).m = ap[High] /\ At(Dev, High).c = ctl[High]
      /\ At(Dev, High).o = owed[High] /\ Dev.up = up
  BY DEF At, Dev
<1>2. ToDev(At(Dev, High)) <=> Asking
  BY <1>1, SideFields DEF ToDev, Going, Repeats, Fresh, Asking
<1>3. CASE up
  BY <1>1, <1>2, <1>3 DEF CtlView, Asked
<1>4. CASE ~up
  <2>1. At(Dev, High) = Nothing
    BY <1>1, <1>4 DEF Channel, Over, Prios
  <2>2. ctl[High] = CtlStart
    BY <1>1, <2>1 DEF Nothing
  <2>3. ctl[High].out = None /\ ctl[High].alpmi = "W_ALARM"
    BY <2>2 DEF CtlStart
  <2>4. ~Asking
    BY <2>3 DEF Asking
  <2> QED BY <1>1, <1>2, <1>4, <2>3, <2>4 DEF CtlView, Asked
<1> QED BY <1>3, <1>4

NoAlarms == [queue |-> << >>, current |-> None, answered |-> FALSE]

LEMMA NothingViews == DevView(Nothing) = NoAlarms /\ CtlView(Nothing) = NoAlarms
<1>1. /\ Nothing.m.rta = None /\ Nothing.c.out = None /\ Nothing.m.alpmi = "W_START"
      /\ Nothing.c.alpmi = "W_ALARM" /\ Nothing.q = << >>
  BY DEF Nothing, Closed, CtlStart
<1>2. ~ToCtl(Nothing) /\ ~ToDev(Nothing)
  BY <1>1 DEF ToCtl, ToDev, Going, Repeats, DevSide, CtlSide
<1>3. << >> \o << >> = << >>
  OBVIOUS
<1> QED BY <1>1, <1>2, <1>3 DEF DevView, CtlView, NoAlarms

LEMMA InitViews ==
    ASSUME Init
    PROVE  DevView(At(Dev, High)) = NoAlarms /\ CtlView(At(Dev, High)) = NoAlarms
<1>1. At(Dev, High) = Nothing
  BY DEF Init, Dev, At, Each, Nothing, Prios
<1> QED BY <1>1, NothingViews

\* Whatever is lost, repeated or crosses: each process alarm of the application
\* is indicated to the controller once, in order, and confirmed only after the
\* controller has answered it, until the AR ends (pf_alarm_send_alarm,
\* pf_alarm_almpi_periodic, pf_alarm_apms_timeout, pf_alarm_alpmi_apmr_a_data_ind).
THEOREM AlarmsReachController == Discipline => (Spec => ProcessAlarmsReach)
<1> SUFFICES ASSUME Discipline PROVE Spec => ProcessAlarmsReach
  OBVIOUS
<1>1. Init => Process!Init
  <2> SUFFICES ASSUME Init PROVE Process!Init
    OBVIOUS
  <2>1. [queue |-> ToIndicate(High), current |-> Current(High), answered |-> Answered(High)]
        = NoAlarms
    BY InitViews, DevViewIs
  <2>2. Answered(High) \in BOOLEAN
    BY DEF Answered, Indicated
  <2>3. ToIndicate(High) = << >> /\ Current(High) = None /\ Answered(High) = FALSE
    BY <2>1 DEF NoAlarms
  <2> QED BY <2>3 DEF Process!Init
<1>2. Holds /\ [Next]_vars => [Process!Next]_(Process!vars)
  <2> SUFFICES ASSUME Holds, [Next]_vars PROVE [Process!Next]_(Process!vars)
    OBVIOUS
  <2> DEFINE v == DevView(At(Dev, High))
             w == DevView(At(Dev, High)')
  <2>1. Serves(v, w)
    BY NextChannel DEF Moves, Serving, Prios
  <2>2. v.queue = ToIndicate(High) /\ v.current = Current(High) /\ v.answered = Answered(High)
    BY DevViewIs
  <2>3. (DevView(At(Dev, High)) =
           [queue |-> ToIndicate(High), current |-> Current(High), answered |-> Answered(High)])'
    BY DevViewIs, PTL
  <2>4. w = DevView(At(Dev, High))'
    BY DEF DevView, ToCtl
  <2>5. w.queue = ToIndicate(High)' /\ w.current = Current(High)' /\ w.answered = Answered(High)'
    BY <2>3, <2>4
  <2> HIDE DEF v, w
  <2> QED BY <2>1, <2>2, <2>5
      DEF Serves, Process!Next, Process!Send, Process!Indicate, Process!Answer, Process!Confirm,
          Process!End, Process!vars
<1> QED BY <1>1, <1>2, AlwaysHolds, PTL DEF Spec, ProcessAlarmsReach, Process!Spec

\* The same for the alarms of the controller: each is indicated to the
\* application once, and answered by it before the controller takes the answer
\* (pf_alarm_apmr_a_data_ind, pf_alarm_alpmr_apmr_a_data_ind,
\* pf_alarm_alpmr_alarm_ack).
THEOREM ControllerAlarmsReach == Discipline => (Spec => AlarmsReachApplication)
<1> SUFFICES ASSUME Discipline PROVE Spec => AlarmsReachApplication
  OBVIOUS
<1> DEFINE q == IF up /\ Asking THEN <<ctl[High].out.alarm>> ELSE << >>
           c == IF Asked THEN ctl[High].asked ELSE None
           a == Asked /\ owed[High] = None
<1>1. Init => FromController!Init
  <2> SUFFICES ASSUME Init PROVE FromController!Init
    OBVIOUS
  <2>1. [queue |-> q, current |-> c, answered |-> a] = NoAlarms
    BY InitChannel, InitViews, CtlViewIs
  <2>2. a \in BOOLEAN
    OBVIOUS
  <2> HIDE DEF q, c, a
  <2>3. q = << >> /\ c = None /\ a = FALSE
    BY <2>1 DEF NoAlarms
  <2> QED BY <2>3 DEF FromController!Init, q, c, a
<1>2. Channel(Dev) => CtlView(At(Dev, High)) = [queue |-> q, current |-> c, answered |-> a]
  BY CtlViewIs
<1>3. (Channel(Dev) => CtlView(At(Dev, High)) = [queue |-> q, current |-> c, answered |-> a])'
  BY <1>2, PTL
<1>4. Holds /\ [Next]_vars => [FromController!Next]_(FromController!vars)
  <2> SUFFICES ASSUME Holds, [Next]_vars
               PROVE  [FromController!Next]_(FromController!vars)
    OBVIOUS
  <2> DEFINE v == CtlView(At(Dev, High))
             w == CtlView(At(Dev, High)')
  <2>1. Serves(v, w) /\ Channel(Dev)'
    BY NextChannel DEF Moves, Serving, Prios
  <2>2. v = [queue |-> q, current |-> c, answered |-> a]
    BY <1>2 DEF Holds
  <2>3. w = CtlView(At(Dev, High))'
    BY DEF CtlView, ToDev
  <2>4. w = [queue |-> q, current |-> c, answered |-> a]'
    BY <1>3, <2>1, <2>3
  <2> HIDE DEF v, w, q, c, a
  <2>5. v.queue = q /\ v.current = c /\ v.answered = a
    BY <2>2
  <2>6. w.queue = q' /\ w.current = c' /\ w.answered = a'
    BY <2>4
  <2>7. [\/ \E b \in Alarms : q' = Append(q, b) /\ UNCHANGED <<c, a>>
         \/ /\ q # << >> /\ c = None /\ c' = Head(q) /\ q' = Tail(q) /\ UNCHANGED a
         \/ /\ c # None /\ ~a /\ a' = TRUE /\ UNCHANGED <<q, c>>
         \/ /\ a /\ c' = None /\ a' = FALSE /\ UNCHANGED q
         \/ q' = << >> /\ c' = None /\ a' = FALSE]_<<q, c, a>>
    BY <2>1, <2>5, <2>6 DEF Serves
  <2> QED BY <2>7
      DEF FromController!Next, FromController!Send, FromController!Indicate,
          FromController!Answer, FromController!Confirm, FromController!End,
          FromController!vars, q, c, a
<1> QED BY <1>1, <1>4, AlwaysHolds, PTL DEF Spec, AlarmsReachApplication, FromController!Spec
=============================================================================
