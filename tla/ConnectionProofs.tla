-------------------------- MODULE ConnectionProofs --------------------------
(***************************************************************************)
(* Proofs about Connection, for any number of sessions, consumers, AR      *)
(* UUIDs and activities, and whatever the controllers send on them.        *)
(*                                                                         *)
(* A handler is a composition of functions on the device state, so the     *)
(* invariant is stated for such a record, Sound(d), and each function is   *)
(* shown to preserve it once.                                              *)
(***************************************************************************)
EXTENDS Connection, WellFoundedInduction, TLAPS

\* A set of natural numbers that is not empty has a least element.
LEMMA LeastNatural ==
  ASSUME NEW T \in SUBSET Nat, T # {}
  PROVE  \E k \in T : \A j \in T : k <= j
<1>1. PICK k \in T : \A j \in T : ~(<<j, k>> \in OpToRel(<, Nat))
  BY NatLessThanWellFounded, WFMin
<1>2. ASSUME NEW j \in T, j < k PROVE FALSE
  <2>1. <<j, k>> \in Nat \X Nat /\ <<j, k>>[1] = j /\ <<j, k>>[2] = k
    OBVIOUS
  <2>2. <<j, k>> \in {ss \in Nat \X Nat : ss[1] < ss[2]}
    BY <1>2, <2>1
  <2>. QED BY <1>1, <2>2 DEF OpToRel
<1>3. \A j \in T : k <= j
  BY <1>2
<1>. QED BY <1>3

DevType == [ar : ArType, sess : [S -> SessionType], poll : TimerType,
            ci : [CRs -> TimerType], monitor : BOOLEAN, map : [CRs -> Nat]]

SupervisedDev(d) ==
    /\ d.ar.cmdev \in {"W_PEIND", "W_ARDY", "W_ARDYCNF", "WDATA"} => d.monitor
    /\ d.monitor => d.ar.in_use /\ d.ar.cmsm = "RUN"

PolledDev(d) == d.ar.cmio = "WDATA" => d.ar.resched /\ d.poll.named

PointsToAr(d, s) == d.sess[s].ar => /\ d.sess[s].in_use /\ d.ar.in_use
                                    /\ d.sess[s].from_me \/ d.ar.sess = s
OwnRequest(d, s) == d.sess[s].in_use /\ d.sess[s].from_me
SessionsDev(d) ==
    /\ \A s \in S : PointsToAr(d, s)
    /\ \A s \in S : OwnRequest(d, s) =>
         /\ d.ar.cmdev = "W_ARDYCNF" /\ d.sess[s].ar
         /\ \A t \in S : OwnRequest(d, t) => t = s
    /\ \A s \in S : d.sess[s].timer => OwnRequest(d, s)

Sound(d) == d \in DevType /\ SupervisedDev(d) /\ PolledDev(d) /\ SessionsDev(d)

LEMMA ClearedTypes == NoAr \in ArType /\ NoSession \in SessionType /\ CpmOff \in CpmType
BY ConnectionAssumption DEF NoAr, ArType, NoSession, SessionType, CpmOff, CpmType, NoSess

LEMMA TimerTypes ==
    ASSUME NEW t \in TimerType
    PROVE  /\ Orphan(t) \in TimerType /\ Removed(t) \in TimerType
           /\ Added(t) \in TimerType /\ Added(t).named
<1>1. t.named \in BOOLEAN /\ t.lost \in Nat
  BY DEF TimerType
<1>2. Count(t.named) \in Nat
  BY DEF Count
<1>3. t.lost + Count(t.named) \in Nat
  BY <1>1, <1>2
<1>4. Orphan(t) \in TimerType
  BY <1>3 DEF Orphan, TimerType
<1>5. Removed(t) \in TimerType
  BY DEF Removed, TimerType
<1>6. Added(t) \in TimerType /\ Added(t).named
  BY <1>4 DEF Added, TimerType
<1> QED BY <1>4, <1>5, <1>6

LEMMA KillSound == ASSUME NEW d, Sound(d), NEW s \in S PROVE Sound(Kill(d, s))
<1>1. Kill(d, s) \in DevType
  BY ClearedTypes DEF Sound, Kill, DevType
<1>2. SupervisedDev(Kill(d, s)) /\ PolledDev(Kill(d, s))
  BY DEF Sound, Kill, DevType, SupervisedDev, PolledDev
<1>3. SessionsDev(Kill(d, s))
  BY DEF Sound, Kill, DevType, SessionsDev, PointsToAr, OwnRequest, NoSession
<1> QED BY <1>1, <1>2, <1>3 DEF Sound

-----------------------------------------------------------------------------
\* What an event other than ABORT leaves alone in every machine, ...
Same(d, f) ==
    /\ f \in DevType /\ f.sess = d.sess
    /\ f.ar.in_use = d.ar.in_use /\ f.ar.sess = d.ar.sess /\ f.ar.cmdev = d.ar.cmdev
\* ... in those that have no timer the invariant speaks of, ...
SameMonitor(d, f) == f.monitor = d.monitor /\ f.ar.cmsm = d.ar.cmsm
SamePoll(d, f) ==
    f.poll = d.poll /\ f.ar.cmio = d.ar.cmio /\ f.ar.resched = d.ar.resched
Events == {"STARTUP", "PRMEND", "APPLRDY", "DATA"}

\* pf_cmsu, pf_cmwrr and pf_cmpbe only move on in their own states.
LEMMA CmsuFacts ==
    ASSUME NEW d \in DevType, NEW e \in Events
    PROVE  Same(d, Cmsu(d, e)) /\ SameMonitor(d, Cmsu(d, e)) /\ SamePoll(d, Cmsu(d, e))
<1> DEFINE f == [d EXCEPT !.ar.ppm = "RUN"]
<1>1. f \in DevType
  BY DEF DevType, ArType
<1>2. Same(d, f) /\ SameMonitor(d, f) /\ SamePoll(d, f)
  BY <1>1 DEF Same, SameMonitor, SamePoll, DevType, ArType
<1>3. Same(d, d) /\ SameMonitor(d, d) /\ SamePoll(d, d)
  BY DEF Same, SameMonitor, SamePoll
<1>4. Cmsu(d, e) = f \/ Cmsu(d, e) = d
  BY DEF Cmsu
<1> HIDE DEF f
<1> QED BY <1>2, <1>3, <1>4

\* Only the state of pf_cmwrr changes.
LEMMA WithCmwrr ==
    ASSUME NEW d \in DevType, NEW st \in {"STARTUP", "PRMEND", "DATA"}
    PROVE  LET f == [d EXCEPT !.ar.cmwrr = st]
           IN  Same(d, f) /\ SameMonitor(d, f) /\ SamePoll(d, f)
<1> DEFINE r == [d.ar EXCEPT !.cmwrr = st]
           f == [d EXCEPT !.ar = r]
<1>1. /\ r \in ArType /\ r.in_use = d.ar.in_use /\ r.sess = d.ar.sess
      /\ r.cmdev = d.ar.cmdev /\ r.cmsm = d.ar.cmsm /\ r.cmio = d.ar.cmio
      /\ r.resched = d.ar.resched
  BY DEF DevType, ArType
<1>2. f = [d EXCEPT !.ar.cmwrr = st]
  BY DEF DevType, ArType
<1> HIDE DEF r
<1>3. /\ f \in DevType /\ f.sess = d.sess /\ f.ar = r
      /\ f.monitor = d.monitor /\ f.poll = d.poll
  BY <1>1 DEF DevType
<1> HIDE DEF f
<1>4. Same(d, f) /\ SameMonitor(d, f) /\ SamePoll(d, f)
  BY <1>1, <1>3 DEF Same, SameMonitor, SamePoll
<1> QED BY <1>2, <1>4

LEMMA CmwrrFacts ==
    ASSUME NEW d \in DevType, NEW e \in Events
    PROVE  Same(d, Cmwrr(d, e)) /\ SameMonitor(d, Cmwrr(d, e)) /\ SamePoll(d, Cmwrr(d, e))
<1> DEFINE f == [d EXCEPT !.ar.cmwrr = "STARTUP"]
           g == [d EXCEPT !.ar.cmwrr = "PRMEND"]
           h == [d EXCEPT !.ar.cmwrr = "DATA"]
<1>1. Same(d, f) /\ SameMonitor(d, f) /\ SamePoll(d, f)
  BY WithCmwrr
<1>2. Same(d, g) /\ SameMonitor(d, g) /\ SamePoll(d, g)
  BY WithCmwrr
<1>4. Same(d, h) /\ SameMonitor(d, h) /\ SamePoll(d, h)
  BY WithCmwrr
<1>5. Same(d, d) /\ SameMonitor(d, d) /\ SamePoll(d, d)
  BY DEF Same, SameMonitor, SamePoll
<1>6. Cmwrr(d, e) = f \/ Cmwrr(d, e) = g \/ Cmwrr(d, e) = h \/ Cmwrr(d, e) = d
  BY DEF Cmwrr
<1> HIDE DEF f, g, h
<1> QED BY <1>1, <1>2, <1>4, <1>5, <1>6

LEMMA CmpbeFacts ==
    ASSUME NEW d \in DevType, NEW e \in Events
    PROVE  Same(d, Cmpbe(d, e)) /\ SameMonitor(d, Cmpbe(d, e)) /\ SamePoll(d, Cmpbe(d, e))
<1> DEFINE f == [d EXCEPT !.ar.cmpbe = "WFIND"]
<1>1. f \in DevType
  BY DEF DevType, ArType
<1>2. Same(d, f) /\ SameMonitor(d, f) /\ SamePoll(d, f)
  BY SMTT(30), <1>1 DEF Same, SameMonitor, SamePoll, DevType, ArType
<1>3. Same(d, d) /\ SameMonitor(d, d) /\ SamePoll(d, d)
  BY DEF Same, SameMonitor, SamePoll
<1>4. Cmpbe(d, e) = f \/ Cmpbe(d, e) = d
  BY DEF Cmpbe
<1> HIDE DEF f
<1> QED BY <1>2, <1>3, <1>4

\* pf_cmio starts its poll when it begins to wait for data, and stops it when
\* it has data.
LEMMA CmioFacts ==
    ASSUME NEW d \in DevType, NEW e \in Events
    PROVE  /\ Same(d, Cmio(d, e)) /\ SameMonitor(d, Cmio(d, e))
           /\ PolledDev(d) => PolledDev(Cmio(d, e))
           /\ e = "DATA" => Cmio(d, e).ar.cmio # "WDATA"
<1> DEFINE f == [d EXCEPT !.ar.cmio = "STARTUP", !.ar.resched = FALSE,
                          !.ar.cpm = [c \in CRs |-> [@[c] EXCEPT !.start = FALSE]]]
           g == [d EXCEPT !.ar.cmio = "WDATA", !.ar.resched = TRUE, !.poll = Added(@)]
           h == [d EXCEPT !.ar.cmio = "DATA", !.ar.resched = FALSE, !.poll = Removed(@)]
<1>1. f \in DevType
  <2> DEFINE p == [c \in CRs |-> [d.ar.cpm[c] EXCEPT !.start = FALSE]]
             r == [d.ar EXCEPT !.cmio = "STARTUP", !.resched = FALSE, !.cpm = p]
  <2>1. d.ar \in ArType /\ d.ar.cpm \in [CRs -> CpmType]
    BY DEF DevType, ArType
  <2>2. ASSUME NEW c \in CRs PROVE p[c] \in CpmType
    BY <2>1 DEF CpmType
  <2>3. p \in [CRs -> CpmType]
    BY <2>2
  <2> HIDE DEF p
  <2>4. r \in ArType
    BY <2>1, <2>3 DEF ArType
  <2>5. f = [d EXCEPT !.ar = r]
    BY <2>1 DEF DevType, ArType, p
  <2> HIDE DEF r
  <2>6. [d EXCEPT !.ar = r] \in DevType
    BY <2>4 DEF DevType
  <2> QED BY <2>5, <2>6
<1>2. d.poll \in TimerType
  BY DEF DevType
<1>3. Added(d.poll) \in TimerType /\ Removed(d.poll) \in TimerType /\ Added(d.poll).named
  BY <1>2, TimerTypes
<1>4. g \in DevType /\ h \in DevType
  BY <1>3 DEF DevType, ArType
<1>5. Same(d, f) /\ SameMonitor(d, f) /\ PolledDev(f)
  BY <1>1 DEF Same, SameMonitor, PolledDev, DevType, ArType
<1>6. Same(d, g) /\ SameMonitor(d, g) /\ PolledDev(g)
  BY <1>3, <1>4 DEF Same, SameMonitor, PolledDev, DevType, ArType
<1>7. Same(d, h) /\ SameMonitor(d, h) /\ PolledDev(h)
  <2>1. d \in DevType /\ d.ar \in ArType
    BY DEF DevType
  <2>2. Same(d, h) /\ SameMonitor(d, h)
    BY <1>4, <2>1 DEF Same, SameMonitor, DevType, ArType
  <2>3. h.ar.cmio = "DATA"
    BY <2>1 DEF DevType, ArType
  <2> HIDE DEF h
  <2> QED BY <2>2, <2>3 DEF PolledDev
<1>8. Same(d, d) /\ SameMonitor(d, d)
  BY DEF Same, SameMonitor
<1>9. \/ Cmio(d, e) = f /\ e # "DATA"
      \/ Cmio(d, e) = g /\ e # "DATA"
      \/ Cmio(d, e) = h
      \/ Cmio(d, e) = d /\ ~(e = "DATA" /\ d.ar.cmio = "WDATA")
  BY DEF Cmio
<1>10. h.ar.cmio = "DATA"
  BY DEF DevType, ArType
<1> HIDE DEF f, g, h
<1> QED BY <1>5, <1>6, <1>7, <1>8, <1>9, <1>10

\* pf_cmsm starts its timer with the AR and stops it with data exchange.
LEMMA CmsmFacts ==
    ASSUME NEW d \in DevType, NEW e \in Events, d.monitor => d.ar.cmsm = "RUN"
    PROVE  /\ Same(d, Cmsm(d, e)) /\ SamePoll(d, Cmsm(d, e))
           /\ Cmsm(d, e).monitor => Cmsm(d, e).ar.cmsm = "RUN"
           /\ e \in {"PRMEND", "APPLRDY"} => Cmsm(d, e).monitor = d.monitor
           /\ e = "STARTUP" /\ d.ar.cmsm = "IDLE" => Cmsm(d, e).monitor
           /\ e = "DATA" => ~Cmsm(d, e).monitor
<1> DEFINE f == [d EXCEPT !.ar.cmsm = "RUN", !.monitor = TRUE]
           h == [d EXCEPT !.ar.cmsm = "IDLE", !.monitor = FALSE]
<1>1. f \in DevType /\ h \in DevType
  <2> DEFINE q == [d.ar EXCEPT !.cmsm = "RUN"]
             r == [d.ar EXCEPT !.cmsm = "IDLE"]
  <2>1. q \in ArType /\ r \in ArType
    BY DEF DevType, ArType
  <2>2. f = [d EXCEPT !.ar = q, !.monitor = TRUE]
    BY DEF DevType, ArType
  <2>3. h = [d EXCEPT !.ar = r, !.monitor = FALSE]
    BY DEF DevType, ArType
  <2> HIDE DEF q, r
  <2>4. f \in DevType /\ h \in DevType
    BY <2>1, <2>2, <2>3 DEF DevType
  <2> QED BY <2>4
<1>2. Same(d, f) /\ SamePoll(d, f) /\ f.monitor /\ f.ar.cmsm = "RUN"
  BY <1>1 DEF Same, SamePoll, DevType, ArType
<1>3. Same(d, h) /\ SamePoll(d, h) /\ ~h.monitor
  BY <1>1 DEF Same, SamePoll, DevType, ArType
<1>4. Same(d, d) /\ SamePoll(d, d)
  BY DEF Same, SamePoll
<1>5. d.monitor \in BOOLEAN /\ d.ar.cmsm \in {"IDLE", "RUN"}
  BY DEF DevType, ArType
<1>6. CASE e = "STARTUP" /\ d.ar.cmsm = "IDLE"
  <2>1. Cmsm(d, e) = f
    BY <1>6 DEF Cmsm
  <2> HIDE DEF f
  <2> QED BY <1>2, <1>6, <2>1
<1>7. CASE e = "DATA" /\ d.ar.cmsm = "RUN"
  <2>1. Cmsm(d, e) = h
    BY <1>7 DEF Cmsm
  <2> HIDE DEF h
  <2> QED BY <1>3, <1>7, <2>1
<1>8. CASE ~(e = "STARTUP" /\ d.ar.cmsm = "IDLE") /\ ~(e = "DATA" /\ d.ar.cmsm = "RUN")
  <2>1. Cmsm(d, e) = d
    BY <1>8 DEF Cmsm
  <2> QED BY <1>4, <1>5, <1>8, <2>1
<1> QED BY <1>6, <1>7, <1>8

\* The whole of pf_cmdev_state_ind.
LEMMA StateIndFacts ==
    ASSUME NEW d \in DevType, NEW e \in Events, d.monitor => d.ar.cmsm = "RUN"
    PROVE  /\ Same(d, StateInd(d, e))
           /\ PolledDev(d) => PolledDev(StateInd(d, e))
           /\ e = "DATA" => StateInd(d, e).ar.cmio # "WDATA"
           /\ StateInd(d, e).monitor => StateInd(d, e).ar.cmsm = "RUN"
           /\ e \in {"PRMEND", "APPLRDY"} => StateInd(d, e).monitor = d.monitor
           /\ e = "STARTUP" /\ d.ar.cmsm = "IDLE" => StateInd(d, e).monitor
           /\ e = "DATA" => ~StateInd(d, e).monitor
<1> DEFINE d1 == Cmsu(d, e)
           d2 == Cmio(d1, e)
           d3 == Cmwrr(d2, e)
           d4 == Cmsm(d3, e)
           d5 == Cmpbe(d4, e)
<1>1. d1 \in DevType /\ Same(d, d1) /\ SameMonitor(d, d1) /\ SamePoll(d, d1)
  BY CmsuFacts DEF Same
<1> HIDE DEF d1
<1>2. /\ d2 \in DevType /\ Same(d1, d2) /\ SameMonitor(d1, d2)
      /\ PolledDev(d1) => PolledDev(d2)
      /\ e = "DATA" => d2.ar.cmio # "WDATA"
  BY <1>1, CmioFacts DEF Same
<1> HIDE DEF d2
<1>3. d3 \in DevType /\ Same(d2, d3) /\ SameMonitor(d2, d3) /\ SamePoll(d2, d3)
  BY <1>2, CmwrrFacts DEF Same
<1> HIDE DEF d3
<1>4. d3.monitor => d3.ar.cmsm = "RUN"
  BY <1>1, <1>2, <1>3 DEF SameMonitor
<1>5. /\ d4 \in DevType /\ Same(d3, d4) /\ SamePoll(d3, d4)
      /\ d4.monitor => d4.ar.cmsm = "RUN"
      /\ e \in {"PRMEND", "APPLRDY"} => d4.monitor = d3.monitor
      /\ e = "STARTUP" /\ d3.ar.cmsm = "IDLE" => d4.monitor
      /\ e = "DATA" => ~d4.monitor
  BY <1>3, <1>4, CmsmFacts DEF Same
<1> HIDE DEF d4
<1>6. d5 \in DevType /\ Same(d4, d5) /\ SameMonitor(d4, d5) /\ SamePoll(d4, d5)
  BY <1>5, CmpbeFacts DEF Same
<1> HIDE DEF d5
<1>7. StateInd(d, e) = d5
  BY DEF StateInd, d5, d4, d3, d2, d1
<1>8. Same(d, d5)
  BY <1>1, <1>2, <1>3, <1>5, <1>6 DEF Same
<1>9. /\ PolledDev(d) => PolledDev(d5)
      /\ e = "DATA" => d5.ar.cmio # "WDATA"
  BY <1>1, <1>2, <1>3, <1>5, <1>6 DEF PolledDev, SamePoll
<1>10. /\ d5.monitor = d4.monitor /\ d5.ar.cmsm = d4.ar.cmsm
       /\ d3.monitor = d.monitor /\ d3.ar.cmsm = d.ar.cmsm
  BY <1>1, <1>2, <1>3, <1>6 DEF SameMonitor
<1> QED BY <1>5, <1>7, <1>8, <1>9, <1>10

-----------------------------------------------------------------------------
\* An abort leaves no AR, no monitor, and of the sessions that point to the
\* AR at most the one on which the Release is answered.
LEMMA CloseTypes ==
    ASSUME NEW d \in DevType
    PROVE  CloseConsumers(d) \in DevType
<1> DEFINE q == [c \in CRs |-> Removed(d.ci[c])]
           m == [c \in CRs |-> IF d.map[c] > 0 THEN d.map[c] - 1 ELSE 0]
           p == [c \in CRs |-> CpmOff]
<1>1. d.ci \in [CRs -> TimerType] /\ d.map \in [CRs -> Nat] /\ d.ar \in ArType
  BY DEF DevType
<1>2. q \in [CRs -> TimerType]
  BY <1>1, TimerTypes
<1>3. m \in [CRs -> Nat]
  BY <1>1
<1>4. p \in [CRs -> CpmType]
  BY ClearedTypes
<1>5. CloseConsumers(d) = [d EXCEPT !.ci = q, !.map = m, !.ar.cpm = p]
  BY DEF CloseConsumers, DevType
<1> HIDE DEF p, q, m
<1>6. [d EXCEPT !.ci = q, !.map = m, !.ar.cpm = p] \in DevType
  BY <1>2, <1>3, <1>4 DEF DevType, ArType
<1> QED BY <1>5, <1>6

LEMMA ClearArFacts ==
    ASSUME NEW d \in DevType
    PROVE  /\ ClearAr(d) \in DevType /\ ClearAr(d).ar = NoAr
           /\ ClearAr(d).sess = d.sess /\ ClearAr(d).monitor = d.monitor
<1> DEFINE q == [c \in CRs |-> Orphan(d.ci[c])]
           p == Orphan(d.poll)
<1>1. d.ci \in [CRs -> TimerType] /\ d.poll \in TimerType
  BY DEF DevType
<1>2. q \in [CRs -> TimerType] /\ p \in TimerType
  BY <1>1, TimerTypes
<1>3. ClearAr(d) = [d EXCEPT !.ar = NoAr, !.poll = p, !.ci = q]
  BY DEF ClearAr, DevType
<1> HIDE DEF p, q
<1>4. [d EXCEPT !.ar = NoAr, !.poll = p, !.ci = q] \in DevType
  BY <1>2, ClearedTypes DEF DevType
<1> QED BY <1>3, <1>4 DEF DevType

\* No AR: what is left is sound when no session thinks otherwise.
LEMMA NoArSound ==
    ASSUME NEW d \in DevType, d.ar = NoAr, ~d.monitor,
           \A s \in S : ~d.sess[s].ar /\ ~OwnRequest(d, s) /\ ~d.sess[s].timer
    PROVE  Sound(d)
<1>1. SupervisedDev(d) /\ PolledDev(d)
  BY DEF SupervisedDev, PolledDev, NoAr
<1>2. SessionsDev(d)
  BY DEF SessionsDev, PointsToAr
<1> QED BY <1>1, <1>2 DEF Sound

LEMMA AbortFacts ==
    ASSUME NEW d \in DevType, SessionsDev(d), d.monitor => d.ar.cmsm = "RUN",
           NEW r \in S \cup {NoSess}
    PROVE  /\ Abort(d, r) \in DevType /\ Abort(d, r).ar = NoAr /\ ~Abort(d, r).monitor
           /\ \A s \in S \ {r} : /\ ~Abort(d, r).sess[s].ar
                                 /\ ~OwnRequest(Abort(d, r), s)
                                 /\ ~Abort(d, r).sess[s].timer
<1> DEFINE b == IF d.ar.cmsu = "STARTUP" THEN CloseConsumers(d) ELSE d
           n == [s \in S |-> IF s \in ReleasedWith(d, r) THEN NoSession ELSE d.sess[s]]
           f == [b EXCEPT !.monitor = FALSE, !.sess = n]
<1>1. d.ar.cmsu = "STARTUP" => CloseConsumers(d) \in DevType
  BY CloseTypes
<1>2. CloseConsumers(d).sess = d.sess /\ CloseConsumers(d).monitor = d.monitor
  BY DEF CloseConsumers, DevType
<1>3. b \in DevType /\ b.sess = d.sess /\ b.monitor = d.monitor
  BY <1>1, <1>2
<1>4. (b.monitor /\ d.ar.cmsm # "RUN") = FALSE
  BY <1>3
<1>5. n \in [S -> SessionType]
  BY ClearedTypes DEF DevType
<1>6. \A s \in S \ {r} : ~n[s].ar /\ ~(n[s].in_use /\ n[s].from_me) /\ ~n[s].timer
  <2> SUFFICES ASSUME NEW s \in S, s # r
               PROVE  ~n[s].ar /\ ~(n[s].in_use /\ n[s].from_me) /\ ~n[s].timer
    OBVIOUS
  <2>1. CASE s \in ReleasedWith(d, r)
    BY <2>1 DEF NoSession
  <2>2. CASE s \notin ReleasedWith(d, r)
    <3>1. n[s] = d.sess[s]
      BY <2>2
    <3>2. s # d.ar.sess /\ ~(d.sess[s].in_use /\ d.sess[s].from_me /\ d.sess[s].ar)
      BY <2>2 DEF ReleasedWith
    <3> QED BY <3>1, <3>2 DEF SessionsDev, PointsToAr, OwnRequest
  <2> QED BY <2>1, <2>2
<1>7. Abort(d, r) = ClearAr(f)
  BY <1>3, <1>4 DEF Abort, DevType
<1> HIDE DEF b, n
<1>8. f \in DevType /\ f.sess = n /\ ~f.monitor
  BY <1>3, <1>5 DEF DevType
<1> HIDE DEF f
<1>9. /\ ClearAr(f) \in DevType /\ ClearAr(f).ar = NoAr
      /\ ClearAr(f).sess = n /\ ~ClearAr(f).monitor
  BY <1>8, ClearArFacts
<1> QED BY <1>6, <1>7, <1>9 DEF OwnRequest

LEMMA AbortSound ==
    ASSUME NEW d \in DevType, SessionsDev(d), d.monitor => d.ar.cmsm = "RUN"
    PROVE  Sound(Abort(d, NoSess))
<1>1. \A s \in S : s # NoSess
  BY ConnectionAssumption DEF S, NoSess
<1> QED BY <1>1, AbortFacts, NoArSound

LEMMA SoundAborts ==
    ASSUME NEW d, Sound(d)
    PROVE  /\ d \in DevType /\ SessionsDev(d)
           /\ d.monitor => d.ar.cmsm = "RUN"
           /\ Sound(Abort(d, NoSess))
BY AbortSound DEF Sound, SupervisedDev

LEMMA ReleaseSound ==
    ASSUME NEW d, Sound(d), NEW r \in S PROVE Sound(Kill(Abort(d, r), r))
<1> DEFINE b == Abort(d, r)
           f == Kill(b, r)
<1>1. /\ b \in DevType /\ b.ar = NoAr /\ ~b.monitor
      /\ \A s \in S \ {r} : ~b.sess[s].ar /\ ~OwnRequest(b, s) /\ ~b.sess[s].timer
  BY SoundAborts, AbortFacts
<1> HIDE DEF b
<1>2. f \in DevType /\ f.ar = NoAr /\ ~f.monitor
  BY <1>1, ClearedTypes DEF Kill, DevType
<1>3. \A s \in S \ {r} : f.sess[s] = b.sess[s]
  BY <1>1 DEF Kill, DevType
<1>4. f.sess[r] = NoSession
  BY <1>1 DEF Kill, DevType
<1>5. \A s \in S : ~f.sess[s].ar /\ ~OwnRequest(f, s) /\ ~f.sess[s].timer
  BY <1>1, <1>3, <1>4 DEF OwnRequest, NoSession
<1> HIDE DEF f
<1>6. Sound(f)
  BY <1>2, <1>5, NoArSound
<1> QED BY <1>6 DEF f, b

-----------------------------------------------------------------------------
\* The session a message gets, and what its arrival changes.
LEMMA FirstSession ==
    ASSUME NEW T \in SUBSET S, T # {}
    PROVE  First(T) \in T
<1>1. T \in SUBSET Nat
  BY ConnectionAssumption DEF S
<1>2. \E s \in T : \A t \in T : s <= t
  BY <1>1, LeastNatural
<1> QED BY <1>2 DEF First

LEMMA SessionForAny ==
    ASSUME NEW a, Arrives(a)
    PROVE  SessionFor(a) \in S
<1>1. OfActivity(a) \in SUBSET S /\ FreeSessions \in SUBSET S
  BY DEF OfActivity, FreeSessions
<1> QED BY <1>1, FirstSession DEF Arrives, SessionFor

LEMMA ReceivedFacts ==
    ASSUME Sound(Dev), NEW a \in Activities \cup {Own}, NEW s \in S
    PROVE  /\ Sound(Received(a, s)) /\ Received(a, s).ar = ar
           /\ Received(a, s).monitor = monitor /\ Received(a, s).sess[s].in_use
           /\ \A t \in S : /\ Received(a, s).sess[t].ar = sess[t].ar
                           /\ Received(a, s).sess[t].from_me => sess[t].from_me
                           /\ OwnRequest(Received(a, s), t) => OwnRequest(Dev, t)
<1> DEFINE n == IF sess[s].in_use THEN [sess[s] EXCEPT !.timer = FALSE]
                ELSE [NoSession EXCEPT !.in_use = TRUE, !.act = a]
           f == [Dev EXCEPT !.sess[s] = n]
<1>1. /\ Dev \in DevType /\ SupervisedDev(Dev) /\ PolledDev(Dev) /\ SessionsDev(Dev)
      /\ Dev.sess = sess /\ Dev.ar = ar /\ Dev.monitor = monitor
  BY DEF Sound, Dev
<1>2. sess[s] \in SessionType
  BY <1>1 DEF DevType
<1>3. n \in SessionType /\ n.in_use /\ ~n.timer
  BY <1>2, ClearedTypes DEF SessionType, NoSession
<1>4. /\ n.ar = sess[s].ar /\ (n.from_me => sess[s].from_me)
      /\ (n.from_me /\ n.in_use) = (sess[s].from_me /\ sess[s].in_use)
  <2>1. CASE sess[s].in_use
    BY <1>2, <2>1 DEF SessionType
  <2>2. CASE ~sess[s].in_use
    <3>1. ~sess[s].ar
      BY <1>1, <1>2, <2>2 DEF SessionsDev, PointsToAr, SessionType
    <3>2. sess[s].ar = FALSE
      BY <1>2, <3>1 DEF SessionType
    <3> QED BY <2>2, <3>2 DEF NoSession
  <2> QED BY <2>1, <2>2
<1>5. Received(a, s) = f
  BY <1>1 DEF Received
<1> HIDE DEF n
<1>6. f \in DevType /\ f.ar = ar /\ f.monitor = monitor /\ f.poll = Dev.poll
  BY <1>1, <1>3 DEF DevType
<1>7. f.sess[s] = n /\ \A t \in S \ {s} : f.sess[t] = sess[t]
  BY <1>1 DEF DevType
<1> HIDE DEF f
<1>8. \A t \in S : /\ f.sess[t].ar = sess[t].ar
                   /\ f.sess[t].from_me => sess[t].from_me
                   /\ OwnRequest(f, t) <=> OwnRequest(Dev, t)
                   /\ sess[t].in_use => f.sess[t].in_use
                   /\ f.sess[t].timer => sess[t].timer
                   /\ sess[t].in_use /\ sess[t].from_me => f.sess[t].from_me
  BY <1>1, <1>3, <1>4, <1>7 DEF OwnRequest
<1>9. SupervisedDev(f) /\ PolledDev(f)
  BY <1>1, <1>6 DEF SupervisedDev, PolledDev
<1>10. \A t \in S : PointsToAr(f, t)
  BY <1>1, <1>6, <1>8 DEF SessionsDev, PointsToAr, OwnRequest
<1>11. \A t \in S : f.sess[t].timer => OwnRequest(f, t)
  BY <1>1, <1>8 DEF SessionsDev, OwnRequest
<1>12. \A t \in S : OwnRequest(f, t) =>
          /\ f.ar.cmdev = "W_ARDYCNF" /\ f.sess[t].ar
          /\ \A q \in S : OwnRequest(f, q) => q = t
  <2> SUFFICES ASSUME NEW t \in S, OwnRequest(f, t)
               PROVE  /\ f.ar.cmdev = "W_ARDYCNF" /\ f.sess[t].ar
                      /\ \A q \in S : OwnRequest(f, q) => q = t
    OBVIOUS
  <2>1. OwnRequest(Dev, t)
    BY <1>8 DEF OwnRequest
  <2>2. /\ ar.cmdev = "W_ARDYCNF" /\ sess[t].ar
        /\ \A q \in S : OwnRequest(Dev, q) => q = t
    BY <1>1, <2>1 DEF SessionsDev
  <2> QED BY <1>6, <1>8, <2>2 DEF OwnRequest
<1>13. SessionsDev(f)
  BY <1>10, <1>11, <1>12 DEF SessionsDev
<1>14. Sound(f)
  BY <1>6, <1>9, <1>13 DEF Sound
<1> QED BY <1>3, <1>5, <1>6, <1>7, <1>8, <1>14 DEF OwnRequest

\* Without an AR no session points to it.
LEMMA IdleFacts ==
    ASSUME NEW d, Sound(d), ~d.ar.in_use
    PROVE  ~d.monitor /\ \A s \in S : ~d.sess[s].ar /\ ~OwnRequest(d, s) /\ ~d.sess[s].timer
BY DEF Sound, SupervisedDev, SessionsDev, PointsToAr

-----------------------------------------------------------------------------
\* Connect: the handlers that end with a new AR start from none.
LEMMA NewArFacts ==
    ASSUME Sound(Dev), ~ar.in_use, NEW a \in Activities, NEW s \in S,
           NEW n \in ArType, n.in_use, n.sess = s, n.cmio = "IDLE",
           n.cmdev \in {"POWER_ON", "W_CIND"}
    PROVE  Sound([Received(a, s) EXCEPT !.ar = n, !.sess[s].ar = TRUE])
<1> DEFINE d == Received(a, s)
           f == [d EXCEPT !.ar = n, !.sess[s].ar = TRUE]
<1>1. Sound(d) /\ d.ar = ar /\ d.sess[s].in_use
  BY ReceivedFacts
<1> HIDE DEF d
<1>2. ~d.monitor /\ \A t \in S : ~d.sess[t].ar /\ ~OwnRequest(d, t) /\ ~d.sess[t].timer
  BY <1>1, IdleFacts
<1>3. n.cmdev \notin {"W_PEIND", "W_ARDY", "W_ARDYCNF", "WDATA"}
  OBVIOUS
<1>4. d \in DevType /\ d.sess \in [S -> SessionType]
  BY <1>1 DEF Sound, DevType
<1>5. f.ar = n /\ f.monitor = d.monitor /\ f.sess = [d.sess EXCEPT ![s].ar = TRUE]
  BY <1>4 DEF DevType
<1>6. f.sess \in [S -> SessionType]
  <2>1. d.sess[s] \in SessionType
    BY <1>4
  <2>2. [d.sess[s] EXCEPT !.ar = TRUE] \in SessionType
    BY <2>1 DEF SessionType
  <2>3. [d.sess EXCEPT ![s] = [d.sess[s] EXCEPT !.ar = TRUE]] \in [S -> SessionType]
    BY <1>4, <2>2
  <2> QED BY <1>5, <2>3
<1>7. f \in DevType
  <2>1. f = [d EXCEPT !.ar = n, !.sess = f.sess]
    BY <1>4, <1>5 DEF DevType
  <2> HIDE DEF f
  <2>2. [d EXCEPT !.ar = n, !.sess = f.sess] \in DevType
    BY <1>3, <1>4, <1>6 DEF DevType
  <2> QED BY <2>1, <2>2
<1> HIDE DEF f
<1>8. SupervisedDev(f) /\ PolledDev(f)
  BY <1>2, <1>3, <1>5 DEF SupervisedDev, PolledDev
<1>9. \A t \in S : /\ f.sess[t].ar => t = s
                   /\ f.sess[t].in_use = d.sess[t].in_use
                   /\ f.sess[t].from_me = d.sess[t].from_me
                   /\ f.sess[t].timer = d.sess[t].timer
  BY <1>2, <1>4, <1>5 DEF SessionType
<1>10. SessionsDev(f)
  BY <1>1, <1>2, <1>3, <1>5, <1>9 DEF SessionsDev, PointsToAr, OwnRequest
<1> QED BY <1>5, <1>7, <1>8, <1>10 DEF Sound, f, d

LEMMA ActivateTypes ==
    ASSUME NEW d \in DevType, NEW T \in SUBSET CRs
    PROVE  /\ Activate(d, T) \in DevType /\ Activate(d, T).sess = d.sess
           /\ Activate(d, T).monitor = d.monitor /\ Activate(d, T).poll = d.poll
           /\ Activate(d, T).ar = [d.ar EXCEPT !.cpm = Activate(d, T).ar.cpm]
<1> DEFINE on == [CpmOff EXCEPT !.state = "FRUN", !.running = TRUE]
           p == [c \in CRs |-> IF c \in T THEN on ELSE d.ar.cpm[c]]
           q == [c \in CRs |-> IF c \in T THEN Added(d.ci[c]) ELSE d.ci[c]]
           m == [c \in CRs |-> d.map[c] + Count(c \in T)]
           f == [d EXCEPT !.ar.cpm = p, !.ci = q, !.map = m]
<1>1. /\ d.ci \in [CRs -> TimerType] /\ d.map \in [CRs -> Nat] /\ d.ar \in ArType
      /\ d.ar.cpm \in [CRs -> CpmType]
  BY DEF DevType, ArType
<1>2. on \in CpmType
  BY ClearedTypes DEF CpmType, CpmOff
<1> HIDE DEF on
<1>3. p \in [CRs -> CpmType]
  BY <1>1, <1>2
<1>4. q \in [CRs -> TimerType]
  BY <1>1, TimerTypes
<1>5. \A c \in CRs : Count(c \in T) \in Nat
  BY DEF Count
<1>6. m \in [CRs -> Nat]
  BY <1>1, <1>5
<1>7. Activate(d, T) = f
  BY DEF Activate, DevType, on
<1> HIDE DEF p, q, m
<1>8. f \in DevType
  BY <1>3, <1>4, <1>6 DEF DevType, ArType
<1>9. /\ f.sess = d.sess /\ f.monitor = d.monitor /\ f.poll = d.poll
      /\ f.ar = [d.ar EXCEPT !.cpm = p] /\ f.ar.cpm = p
  BY <1>1 DEF DevType, ArType
<1> HIDE DEF f
<1> QED BY <1>7, <1>8, <1>9

\* pf_cmsu_start_req and PNET_EVENT_STARTUP start the supervision.
LEMMA ConnectedSound ==
    ASSUME NEW d, Sound(d), d.ar.in_use, d.ar.cmsm = "IDLE", d.ar.cmio = "IDLE",
           d.ar.cmdev = "POWER_ON"
    PROVE  Sound([StateInd(StartReq(d), "STARTUP") EXCEPT !.ar.cmdev = "W_PEIND"])
<1> DEFINE b == Activate(d, CRs)
           g == StartReq(d)
           h == StateInd(g, "STARTUP")
           f == [h EXCEPT !.ar.cmdev = "W_PEIND"]
<1>1. d \in DevType /\ d.ar \in ArType /\ SessionsDev(d) /\ SupervisedDev(d)
  BY DEF Sound, DevType
<1>2. /\ b \in DevType /\ b.sess = d.sess /\ b.monitor = d.monitor
      /\ b.ar = [d.ar EXCEPT !.cpm = b.ar.cpm]
  BY <1>1, ActivateTypes
<1>3. g = [b EXCEPT !.ar.cmsu = "STARTUP"]
  BY DEF StartReq
<1> HIDE DEF b, g
<1>4. /\ g \in DevType /\ g.sess = d.sess /\ g.monitor = d.monitor
      /\ g.ar.in_use /\ g.ar.cmsm = "IDLE" /\ g.ar.cmio = "IDLE" /\ g.ar.sess = d.ar.sess
  BY <1>1, <1>2, <1>3 DEF DevType, ArType
<1>5. PolledDev(g) /\ ~g.monitor
  BY <1>1, <1>4 DEF PolledDev, SupervisedDev
<1>6. Same(g, h) /\ PolledDev(h) /\ h.monitor /\ h.ar.cmsm = "RUN"
  BY <1>4, <1>5, StateIndFacts DEF Events
<1> HIDE DEF h
<1>7. /\ h \in DevType /\ h.sess = d.sess /\ h.ar.in_use /\ h.ar.sess = d.ar.sess
  BY <1>4, <1>6 DEF Same
<1>8. /\ f \in DevType /\ f.sess = d.sess /\ f.monitor /\ f.ar.in_use
      /\ f.ar.sess = d.ar.sess /\ f.ar.cmsm = "RUN" /\ f.poll = h.poll
      /\ f.ar.cmio = h.ar.cmio /\ f.ar.resched = h.ar.resched
  BY <1>6, <1>7 DEF DevType, ArType
<1> HIDE DEF f
<1>9. SupervisedDev(f) /\ PolledDev(f)
  BY <1>6, <1>8 DEF SupervisedDev, PolledDev
<1>10. \A s \in S : ~OwnRequest(d, s)
  BY <1>1 DEF SessionsDev
<1>11. SessionsDev(f)
  BY <1>1, <1>8, <1>10 DEF SessionsDev, PointsToAr, OwnRequest
<1>12. Sound(f)
  BY <1>8, <1>9, <1>11 DEF Sound
<1> QED BY <1>12 DEF f, h, g

-----------------------------------------------------------------------------
\* A handler of the main thread that makes the device state a sound one.
LEMMA BecomesSound ==
    ASSUME NEW e, Sound(e), Becomes(e)
    PROVE  Sound(Dev)'
<1>1. Dev' = [ar |-> e.ar, sess |-> e.sess, poll |-> e.poll, ci |-> e.ci,
              monitor |-> e.monitor, map |-> e.map]
  BY DEF Becomes, Dev
<1>2. e \in DevType
  BY DEF Sound
<1>3. Dev' = e
  BY <1>1, <1>2 DEF DevType
<1>4. Sound(Dev')
  BY <1>3
<1> QED BY <1>4 DEF Sound, SupervisedDev, PolledDev, SessionsDev, PointsToAr,
                OwnRequest, DevType

LEMMA ConnectSound ==
    ASSUME Sound(Dev), NEW p \in Uses,
           \/ \E valid \in BOOLEAN : ConnectInUse(p[1], p[2], valid)
           \/ ConnectRefused(p[1])
           \/ ConnectUnanswered(p[1], p[2])
           \/ \E legacy \in BOOLEAN : ConnectAccepted(p[1], p[2], legacy)
           \/ \E done, half \in SUBSET CRs : ConnectFails(p[1], done, half)
    PROVE  Sound(Dev)'
<1> DEFINE a == p[1]
           u == p[2]
           s == SessionFor(a)
           d == Received(a, s)
<1>1. a \in Activities /\ u \in Uuids /\ Arrives(a)
  BY ConnectionAssumption DEF ConnectInUse, ConnectRefused, ConnectUnanswered,
       ConnectAccepted, ConnectFails
<1>2. s \in S
  BY <1>1, SessionForAny
<1> HIDE DEF a, u, s
<1>3. Sound(d) /\ d.ar = ar
  BY <1>1, <1>2, ReceivedFacts
<1>4. CASE \E valid \in BOOLEAN : ConnectInUse(p[1], p[2], valid)
  <2>1. PICK valid \in BOOLEAN :
            Becomes(Kill(IF valid /\ Known(u) THEN Abort(d, NoSess) ELSE d, s))
    BY <1>4 DEF ConnectInUse, a, u, s
  <2> HIDE DEF d
  <2>2. Sound(IF valid /\ Known(u) THEN Abort(d, NoSess) ELSE d)
    BY <1>3, SoundAborts
  <2>3. Sound(Kill(IF valid /\ Known(u) THEN Abort(d, NoSess) ELSE d, s))
    BY <1>2, <2>2, KillSound
  <2> QED BY <2>1, <2>3, BecomesSound
<1>5. CASE ConnectRefused(p[1])
  <2>1. Becomes(Kill(d, s))
    BY <1>5 DEF ConnectRefused, a, s
  <2> HIDE DEF d
  <2> QED BY <1>2, <1>3, <2>1, KillSound, BecomesSound
<1>6. CASE ConnectUnanswered(p[1], p[2])
  <2> DEFINE n == [NewAr(u, s, FALSE) EXCEPT !.cmdev = "W_CIND"]
             f == [d EXCEPT !.ar = n, !.sess[s].ar = TRUE]
  <2>1. ~ar.in_use /\ Becomes(f)
    BY <1>6 DEF ConnectUnanswered, a, u, s
  <2>2. /\ n \in ArType /\ n.in_use /\ n.sess = s /\ n.cmio = "IDLE"
        /\ n.cmdev = "W_CIND"
    BY <1>1, <1>2, ClearedTypes DEF NewAr, NoAr, ArType
  <2> HIDE DEF n
  <2>3. Sound(f)
    BY <1>1, <1>2, <2>1, <2>2, NewArFacts
  <2> HIDE DEF f
  <2> QED BY <2>1, <2>3, BecomesSound
<1>7. CASE \E legacy \in BOOLEAN : ConnectAccepted(p[1], p[2], legacy)
  <2>1. PICK legacy \in BOOLEAN : ConnectAccepted(a, u, legacy)
    BY <1>7 DEF a, u
  <2> DEFINE n == NewAr(u, s, legacy)
             f == [d EXCEPT !.ar = n, !.sess[s].ar = TRUE]
  <2>2. /\ ~ar.in_use
        /\ Becomes([StateInd(StartReq(f), "STARTUP") EXCEPT !.ar.cmdev = "W_PEIND"])
    BY <2>1 DEF ConnectAccepted, s
  <2>3. /\ n \in ArType /\ n.in_use /\ n.sess = s /\ n.cmio = "IDLE"
        /\ n.cmsm = "IDLE" /\ n.cmdev = "POWER_ON"
    BY <1>1, <1>2, ClearedTypes DEF NewAr, NoAr, ArType
  <2> HIDE DEF n
  <2>4. Sound(f)
    BY <1>1, <1>2, <2>2, <2>3, NewArFacts
  <2>5. d \in DevType
    BY <1>3 DEF Sound
  <2> HIDE DEF d
  <2>6. f.ar = n
    BY <2>5 DEF DevType
  <2> HIDE DEF f
  <2> QED BY <2>2, <2>3, <2>4, <2>6, ConnectedSound, BecomesSound
<1>8. CASE \E done, half \in SUBSET CRs : ConnectFails(p[1], done, half)
  <2>1. PICK done \in SUBSET CRs, half \in SUBSET CRs : ConnectFails(a, done, half)
    BY <1>8 DEF a
  <2> DEFINE b == Activate(d, done)
             g == ClearAr(b)
             m == [c \in CRs |-> g.map[c] + Count(c \in half)]
             f == [g EXCEPT !.map = m]
  <2>2. ~ar.in_use /\ Becomes(Kill(f, s))
    BY <2>1 DEF ConnectFails, s
  <2> HIDE DEF d
  <2>3. /\ d \in DevType /\ ~d.monitor
        /\ \A t \in S : ~d.sess[t].ar /\ ~OwnRequest(d, t) /\ ~d.sess[t].timer
    BY <1>3, <2>2, IdleFacts DEF Sound
  <2>4. b \in DevType /\ b.sess = d.sess /\ b.monitor = d.monitor
    BY <2>3, ActivateTypes
  <2> HIDE DEF b
  <2>5. g \in DevType /\ g.ar = NoAr /\ g.sess = d.sess /\ g.monitor = d.monitor
    BY <2>4, ClearArFacts
  <2> HIDE DEF g
  <2>6. \A c \in CRs : Count(c \in half) \in Nat
    BY DEF Count
  <2>7. m \in [CRs -> Nat]
    BY <2>5, <2>6 DEF DevType
  <2> HIDE DEF m
  <2>8. f \in DevType /\ f.ar = NoAr /\ f.sess = d.sess /\ ~f.monitor
    BY <2>3, <2>5, <2>7 DEF DevType
  <2> HIDE DEF f
  <2>9. \A t \in S : ~f.sess[t].ar /\ ~OwnRequest(f, t) /\ ~f.sess[t].timer
    BY <2>3, <2>8 DEF OwnRequest
  <2>10. Sound(Kill(f, s))
    BY <1>2, <2>8, <2>9, NoArSound, KillSound
  <2> QED BY <2>2, <2>10, BecomesSound
<1> QED BY <1>4, <1>5, <1>6, <1>7, <1>8

-----------------------------------------------------------------------------
\* The other requests.
LEMMA PrmEndSound ==
    ASSUME NEW d, Sound(d), NEW s \in S, NEW ok \in BOOLEAN
    PROVE  Sound(PrmEnd(d, s, ok))
<1>1. CASE d.ar.cmdev # "W_PEIND"
  BY <1>1 DEF PrmEnd
<1>2. CASE d.ar.cmdev = "W_PEIND" /\ ~ok
  BY <1>2, SoundAborts DEF PrmEnd
<1>3. CASE d.ar.cmdev = "W_PEIND" /\ ok
  <2> DEFINE e == [d EXCEPT !.ar.cmdev = "W_ARDY"]
             h == StateInd(e, "PRMEND")
  <2>1. /\ d \in DevType /\ d.ar \in ArType /\ SupervisedDev(d) /\ PolledDev(d)
        /\ SessionsDev(d)
    BY DEF Sound, DevType
  <2>2. e \in DevType /\ e.sess = d.sess /\ e.monitor = d.monitor /\ e.poll = d.poll
    BY <2>1 DEF DevType, ArType
  <2>3. /\ e.ar.in_use = d.ar.in_use /\ e.ar.sess = d.ar.sess
        /\ e.ar.cmsm = d.ar.cmsm /\ e.ar.cmio = d.ar.cmio /\ e.ar.resched = d.ar.resched
    BY <2>1 DEF DevType, ArType
  <2>4. PrmEnd(d, s, ok) = e \/ PrmEnd(d, s, ok) = h
    BY <1>3 DEF PrmEnd
  <2> HIDE DEF e
  <2>5. PolledDev(e) /\ e.monitor /\ e.ar.in_use /\ e.ar.cmsm = "RUN"
    BY <1>3, <2>1, <2>2, <2>3 DEF PolledDev, SupervisedDev
  <2>6. Same(e, h) /\ PolledDev(h) /\ h.monitor /\ h.ar.cmsm = "RUN"
    BY <2>2, <2>5, StateIndFacts DEF Events
  <2> HIDE DEF h
  <2>7. h \in DevType /\ h.sess = d.sess /\ h.ar.in_use /\ h.ar.sess = d.ar.sess
    BY <2>2, <2>3, <2>5, <2>6 DEF Same
  <2>8. \A t \in S : ~OwnRequest(d, t)
    BY <1>3, <2>1 DEF SessionsDev
  <2>9. SessionsDev(e)
    BY <2>1, <2>2, <2>3, <2>8 DEF SessionsDev, PointsToAr, OwnRequest
  <2>10. SessionsDev(h)
    BY <2>1, <2>5, <2>7, <2>8 DEF SessionsDev, PointsToAr, OwnRequest
  <2> QED BY <2>2, <2>4, <2>5, <2>6, <2>7, <2>9, <2>10 DEF Sound, SupervisedDev
<1> QED BY <1>1, <1>2, <1>3

\* The sequence number a session remembers concerns no invariant.
LEMMA SeqSound ==
    ASSUME NEW d, Sound(d), NEW s \in S, NEW q \in Seqs
    PROVE  Sound([d EXCEPT !.sess[s].dseq = q])
<1> DEFINE n == [d.sess[s] EXCEPT !.dseq = q]
           f == [d EXCEPT !.sess[s].dseq = q]
<1>1. d \in DevType /\ d.sess \in [S -> SessionType] /\ d.sess[s] \in SessionType
  BY DEF Sound, DevType
<1>2. n \in SessionType
  BY <1>1 DEF SessionType
<1>3. /\ n.ar = d.sess[s].ar /\ n.in_use = d.sess[s].in_use
      /\ n.from_me = d.sess[s].from_me /\ n.timer = d.sess[s].timer
  BY <1>1 DEF SessionType
<1>4. f = [d EXCEPT !.sess = [d.sess EXCEPT ![s] = n]]
  BY <1>1 DEF DevType
<1> HIDE DEF n, f
<1>5. f \in DevType
  BY <1>1, <1>2, <1>4 DEF DevType
<1>6. f.ar = d.ar /\ f.monitor = d.monitor /\ f.poll = d.poll
  BY <1>1, <1>4 DEF DevType
<1>7. \A t \in S : /\ f.sess[t].ar = d.sess[t].ar
                   /\ f.sess[t].in_use = d.sess[t].in_use
                   /\ f.sess[t].from_me = d.sess[t].from_me
                   /\ f.sess[t].timer = d.sess[t].timer
  BY <1>1, <1>3, <1>4 DEF DevType
<1>8. SupervisedDev(f) /\ PolledDev(f)
  BY <1>6 DEF Sound, SupervisedDev, PolledDev
<1>9. SessionsDev(f)
  BY <1>6, <1>7 DEF Sound, SessionsDev, PointsToAr, OwnRequest
<1>10. Sound(f)
  BY <1>5, <1>8, <1>9 DEF Sound
<1> QED BY <1>10 DEF f

LEMMA FaultSound ==
    ASSUME Sound(Dev), NEW a \in Activities \cup {Own}, Fault(a)
    PROVE  Sound(Dev)'
<1> DEFINE s == SessionFor(a)
           d == Received(a, s)
           e == IF d.sess[s].ar THEN Abort(d, NoSess) ELSE d
<1>1. Arrives(a) /\ Becomes(Kill(e, s))
  BY DEF Fault
<1>2. s \in S
  BY <1>1, SessionForAny
<1> HIDE DEF s
<1>3. Sound(d)
  BY <1>2, ReceivedFacts
<1> HIDE DEF d
<1>4. Sound(e)
  BY <1>3, SoundAborts
<1> HIDE DEF e
<1> QED BY <1>1, <1>2, <1>4, KillSound, BecomesSound

LEMMA RequestSound ==
    ASSUME Sound(Dev), RequestStep
    PROVE  Sound(Dev)'
<1>1. ASSUME NEW a \in Activities, Arrives(a)
      PROVE  SessionFor(a) \in S /\ Sound(Received(a, SessionFor(a)))
  BY <1>1, SessionForAny, ReceivedFacts
<1>2. \A p \in Uses : p[1] \in Activities /\ p[2] \in Uuids
  BY ConnectionAssumption
<1>3. ASSUME NEW p \in Uses, NEW q \in Seqs, NEW ok \in BOOLEAN,
             DControl(p[1], p[2], q, ok)
      PROVE  Sound(Dev)'
  <2> DEFINE s == SessionFor(p[1])
             r == Received(p[1], s)
             d == [r EXCEPT !.sess[s].dseq = q]
  <2>1. s \in S /\ Sound(r)
    BY <1>1, <1>2, <1>3 DEF DControl
  <2>2. Becomes(r) \/ Becomes(PrmEnd(d, s, ok)) \/ Becomes(Kill(d, s))
    BY <1>3 DEF DControl
  <2> HIDE DEF r, s
  <2>3. Sound(d)
    BY <2>1, SeqSound
  <2> HIDE DEF d
  <2>4. Sound(PrmEnd(d, s, ok)) /\ Sound(Kill(d, s))
    BY <2>1, <2>3, PrmEndSound, KillSound
  <2> QED BY <2>1, <2>2, <2>4, BecomesSound
<1>4. ASSUME NEW p \in Uses, ReleaseInd(p[1], p[2]) PROVE Sound(Dev)'
  <2> DEFINE s == SessionFor(p[1])
             d == Received(p[1], s)
  <2>1. s \in S /\ Sound(d)
    BY <1>1, <1>2, <1>4 DEF ReleaseInd
  <2>2. Becomes(Kill(Abort(d, s), s)) \/ Becomes(Kill(d, s))
    BY <1>4 DEF ReleaseInd
  <2> HIDE DEF d, s
  <2> QED BY <2>1, <2>2, ReleaseSound, KillSound, BecomesSound
<1>5. ASSUME NEW a \in Activities, Arrives(a),
             \/ Becomes(Received(a, SessionFor(a)))
             \/ Becomes(Kill(Received(a, SessionFor(a)), SessionFor(a)))
      PROVE  Sound(Dev)'
  BY <1>1, <1>5, KillSound, BecomesSound
<1>6. ASSUME NEW p \in Uses, Read(p[1]) \/ Write(p[1], p[2]) PROVE Sound(Dev)'
  BY <1>2, <1>5, <1>6 DEF Read, Write
<1>7. ASSUME NEW a \in Implicit, ReadImplicit(a) PROVE Sound(Dev)'
  BY <1>5, <1>7, ConnectionAssumption DEF ReadImplicit
<1>8. ASSUME NEW p \in Uses, Fault(p[1]) PROVE Sound(Dev)'
  BY <1>2, <1>8, FaultSound
<1> QED BY <1>3, <1>4, <1>6, <1>7, <1>8 DEF RequestStep

-----------------------------------------------------------------------------
\* A handler that only touches consumers, their timers and frame handlers.
LEMMA ConsumersSound ==
    ASSUME NEW d, Sound(d), NEW f \in DevType,
           f.sess = d.sess, f.monitor = d.monitor, f.poll = d.poll,
           f.ar = [d.ar EXCEPT !.cpm = f.ar.cpm]
    PROVE  Sound(f)
<1>1. d.ar \in ArType /\ SupervisedDev(d) /\ PolledDev(d) /\ SessionsDev(d)
  BY DEF Sound, DevType
<1>2. /\ f.ar.in_use = d.ar.in_use /\ f.ar.cmdev = d.ar.cmdev /\ f.ar.cmsm = d.ar.cmsm
      /\ f.ar.cmio = d.ar.cmio /\ f.ar.resched = d.ar.resched /\ f.ar.sess = d.ar.sess
  BY <1>1 DEF ArType
<1>3. SupervisedDev(f) /\ PolledDev(f)
  BY <1>1, <1>2 DEF SupervisedDev, PolledDev
<1>4. SessionsDev(f)
  BY <1>1, <1>2 DEF SessionsDev, PointsToAr, OwnRequest
<1> QED BY <1>3, <1>4 DEF Sound

\* The request of the device is answered: its session goes, and with it the
\* only one that needs the AR to wait for the answer.
LEMMA AnsweredSound ==
    ASSUME NEW d \in DevType, NEW s \in S, SupervisedDev(d), PolledDev(d),
           \A t \in S : PointsToAr(d, t) /\ (OwnRequest(d, t) => t = s)
                        /\ (d.sess[t].timer => OwnRequest(d, t))
    PROVE  Sound(Kill(d, s))
<1> DEFINE f == Kill(d, s)
<1>1. f \in DevType /\ f.ar = d.ar /\ f.monitor = d.monitor /\ f.poll = d.poll
  BY ClearedTypes DEF Kill, DevType
<1>2. f.sess[s] = NoSession /\ \A t \in S \ {s} : f.sess[t] = d.sess[t]
  BY DEF Kill, DevType
<1> HIDE DEF f
<1>3. \A t \in S : /\ PointsToAr(f, t) /\ ~OwnRequest(f, t)
                   /\ ~f.sess[t].timer
  BY <1>1, <1>2 DEF PointsToAr, OwnRequest, NoSession
<1>4. SessionsDev(f)
  BY <1>3 DEF SessionsDev
<1>5. SupervisedDev(f) /\ PolledDev(f)
  BY <1>1 DEF SupervisedDev, PolledDev
<1>6. Sound(f)
  BY <1>1, <1>4, <1>5 DEF Sound
<1> QED BY <1>6 DEF f

LEMMA ConfirmSound ==
    ASSUME Sound(Dev), NEW s \in S, sess[s].in_use, sess[s].from_me
    PROVE  Sound(Confirm(s))
<1> DEFINE r == Received(Own, s)
           d == [r EXCEPT !.ar.alarm = TRUE]
           h == StateInd(d, "DATA")
           f == [h EXCEPT !.ar.cmdev = "DATA"]
           g == [d EXCEPT !.ar.cmdev = "WDATA"]
<1>1. OwnRequest(Dev, s) /\ Dev.ar = ar /\ Dev.sess = sess
  BY DEF OwnRequest, Dev
<1>2. /\ Sound(r) /\ r.ar = ar
      /\ \A t \in S : OwnRequest(r, t) => OwnRequest(Dev, t)
  BY ReceivedFacts
<1>3. ar.cmdev = "W_ARDYCNF" /\ \A t \in S : OwnRequest(Dev, t) => t = s
  BY <1>1 DEF Sound, SessionsDev
<1> HIDE DEF r
<1>4. r \in DevType /\ r.ar \in ArType /\ SupervisedDev(r) /\ PolledDev(r) /\ SessionsDev(r)
  BY <1>2 DEF Sound, DevType
<1>5. /\ d \in DevType /\ d.ar \in ArType
      /\ d.sess = r.sess /\ d.monitor = r.monitor /\ d.poll = r.poll
  BY <1>4 DEF DevType, ArType
<1>6. /\ d.ar.in_use = r.ar.in_use /\ d.ar.sess = r.ar.sess /\ d.ar.cmsm = r.ar.cmsm
      /\ d.ar.cmio = r.ar.cmio /\ d.ar.resched = r.ar.resched /\ d.ar.cmdev = r.ar.cmdev
  BY <1>4 DEF DevType, ArType
<1> HIDE DEF d
<1>7. PolledDev(d) /\ d.monitor /\ d.ar.in_use /\ d.ar.cmsm = "RUN"
  BY <1>2, <1>3, <1>4, <1>5, <1>6 DEF PolledDev, SupervisedDev
<1>8. Same(d, h) /\ PolledDev(h) /\ ~h.monitor
  BY <1>5, <1>7, StateIndFacts DEF Events
<1> HIDE DEF h
<1>9. h \in DevType /\ h.ar.in_use /\ h.ar.sess = r.ar.sess /\ h.sess = r.sess
  BY <1>5, <1>6, <1>7, <1>8 DEF Same
<1>10. /\ f \in DevType /\ f.ar.in_use /\ f.ar.sess = r.ar.sess /\ f.sess = r.sess
       /\ f.ar.cmdev = "DATA" /\ ~f.monitor
       /\ f.poll = h.poll /\ f.ar.cmio = h.ar.cmio /\ f.ar.resched = h.ar.resched
  BY <1>8, <1>9 DEF DevType, ArType
<1>11. /\ g \in DevType /\ g.ar.in_use /\ g.ar.sess = r.ar.sess /\ g.sess = r.sess
       /\ g.monitor /\ g.ar.cmsm = "RUN"
       /\ g.poll = d.poll /\ g.ar.cmio = d.ar.cmio /\ g.ar.resched = d.ar.resched
  BY <1>5, <1>6, <1>7 DEF DevType, ArType
<1> HIDE DEF f, g
<1>12. SupervisedDev(f) /\ PolledDev(f) /\ SupervisedDev(g) /\ PolledDev(g)
  BY <1>7, <1>8, <1>10, <1>11 DEF SupervisedDev, PolledDev
<1>13. \A t \in S : /\ PointsToAr(r, t) /\ (OwnRequest(r, t) => t = s)
                    /\ (r.sess[t].timer => OwnRequest(r, t))
  BY <1>2, <1>3, <1>4 DEF SessionsDev
<1>14. \A t \in S : /\ PointsToAr(f, t) /\ (OwnRequest(f, t) => t = s)
                    /\ (f.sess[t].timer => OwnRequest(f, t))
  BY <1>10, <1>13 DEF PointsToAr, OwnRequest
<1>15. \A t \in S : /\ PointsToAr(g, t) /\ (OwnRequest(g, t) => t = s)
                    /\ (g.sess[t].timer => OwnRequest(g, t))
  BY <1>11, <1>13 DEF PointsToAr, OwnRequest
<1>16. Sound(Kill(f, s)) /\ Sound(Kill(g, s))
  BY <1>10, <1>11, <1>12, <1>14, <1>15, AnsweredSound
<1>17. Confirm(s) = Kill(f, s) \/ Confirm(s) = Kill(g, s)
  BY DEF Confirm, f, g, h, d, r
<1> QED BY <1>16, <1>17

LEMMA AnswerSound ==
    ASSUME Sound(Dev), AnswerStep
    PROVE  Sound(Dev)'
<1>1. ASSUME NEW s \in S, NEW wellFormed \in BOOLEAN, CControlCnf(s, wellFormed)
      PROVE  Sound(Dev)'
  <2>1. /\ sess[s].in_use /\ sess[s].from_me
        /\ Becomes(Confirm(s)) \/ Becomes(Received(Own, s))
    BY <1>1 DEF CControlCnf
  <2>2. Sound(Received(Own, s)) /\ Sound(Confirm(s))
    BY <2>1, ReceivedFacts, ConfirmSound
  <2> QED BY <2>1, <2>2, BecomesSound
<1>2. ASSUME Fault(Own) PROVE Sound(Dev)'
  BY <1>2, FaultSound
<1> QED BY <1>1, <1>2 DEF AnswerStep

-----------------------------------------------------------------------------
\* Application Ready, with or without a session for the request.
LEMMA AppReadySound ==
    ASSUME Sound(Dev), NEW sendOk \in BOOLEAN, AppReady(sendOk)
    PROVE  Sound(Dev)'
<1> DEFINE d == StateInd(Dev, "APPLRDY")
           k == First(FreeSessions)
           n == [NoSession EXCEPT !.in_use = TRUE, !.act = Own, !.from_me = TRUE,
                                  !.ar = TRUE, !.left = Resends - 1, !.timer = sendOk]
           f == [[d EXCEPT !.sess[k] = n] EXCEPT !.ar.cmdev = "W_ARDYCNF"]
<1>1. /\ ar.in_use /\ ar.cmdev = "W_ARDY"
      /\ Becomes(d) \/ (FreeSessions # {} /\ Becomes(f))
  BY DEF AppReady, CControlReq
<1>2. /\ Dev \in DevType /\ SupervisedDev(Dev) /\ PolledDev(Dev) /\ SessionsDev(Dev)
      /\ Dev.ar = ar /\ Dev.sess = sess /\ Dev.monitor = monitor
  BY DEF Sound, Dev
<1>3. monitor /\ ar.cmsm = "RUN" /\ \A t \in S : ~OwnRequest(Dev, t)
  BY <1>1, <1>2 DEF SupervisedDev, SessionsDev
<1>4. /\ Same(Dev, d) /\ PolledDev(d) /\ d.monitor /\ d.ar.cmsm = "RUN"
  BY <1>2, <1>3, StateIndFacts DEF Events
<1> HIDE DEF d
<1>5. /\ d \in DevType /\ d.sess = sess /\ d.ar.in_use /\ d.ar.cmdev = "W_ARDY"
      /\ d.ar.sess = ar.sess
  BY <1>1, <1>2, <1>4 DEF Same
<1>6. \A t \in S : /\ PointsToAr(d, t) /\ ~OwnRequest(d, t)
                   /\ ~d.sess[t].timer
  BY <1>1, <1>2, <1>3, <1>5 DEF SessionsDev, PointsToAr, OwnRequest
<1>7. SessionsDev(d)
  BY <1>6 DEF SessionsDev
<1>8. Sound(d)
  BY <1>4, <1>5, <1>7 DEF Sound, SupervisedDev
<1>9. ASSUME FreeSessions # {} PROVE Sound(f)
  <2>1. k \in S
    BY <1>9, FirstSession DEF FreeSessions
  <2>2. /\ n \in SessionType
        /\ n.in_use /\ n.from_me /\ n.ar
    <3>1. Resends - 1 \in 0 .. Resends
      BY ConnectionAssumption
    <3> QED BY <3>1, ClearedTypes DEF NoSession, SessionType
  <2> HIDE DEF k, n
  <2>3. /\ f \in DevType /\ f.sess = [sess EXCEPT ![k] = n] /\ f.monitor = d.monitor
        /\ f.poll = d.poll /\ f.ar.cmdev = "W_ARDYCNF" /\ f.ar.in_use = d.ar.in_use
        /\ f.ar.sess = d.ar.sess /\ f.ar.cmsm = d.ar.cmsm
        /\ f.ar.cmio = d.ar.cmio /\ f.ar.resched = d.ar.resched
    BY <1>5, <2>2 DEF DevType, ArType
  <2> HIDE DEF f
  <2>4. f.sess[k] = n /\ \A t \in S \ {k} : f.sess[t] = d.sess[t]
    BY <1>2, <1>5, <2>1, <2>3 DEF DevType
  <2>5. SupervisedDev(f) /\ PolledDev(f)
    BY <1>4, <1>5, <2>3 DEF SupervisedDev, PolledDev
  <2>6. \A t \in S : OwnRequest(f, t) => t = k
    BY <1>6, <2>4 DEF OwnRequest
  <2>7. OwnRequest(f, k) /\ f.sess[k].ar
    BY <2>2, <2>4 DEF OwnRequest
  <2>8. \A t \in S : PointsToAr(f, t)
    BY <1>5, <1>6, <2>2, <2>3, <2>4 DEF PointsToAr
  <2>9. \A t \in S : f.sess[t].timer => OwnRequest(f, t)
    BY <1>6, <2>4, <2>7
  <2>10. SessionsDev(f)
    BY <2>3, <2>6, <2>7, <2>8, <2>9 DEF SessionsDev
  <2> QED BY <2>3, <2>5, <2>10 DEF Sound
<1> HIDE DEF f
<1> QED BY <1>1, <1>8, <1>9, BecomesSound

LEMMA ApplicationSound ==
    ASSUME Sound(Dev), ApplicationStep
    PROVE  Sound(Dev)'
<1>1. ASSUME LocalAbort PROVE Sound(Dev)'
  <2>1. Becomes(Abort(Dev, NoSess))
    BY <1>1 DEF LocalAbort
  <2> QED BY <2>1, SoundAborts, BecomesSound
<1>2. ASSUME NEW sendOk \in BOOLEAN, AppReady(sendOk) PROVE Sound(Dev)'
  BY <1>2, AppReadySound
<1> QED BY <1>1, <1>2 DEF ApplicationStep

\* The session of the request, when its resend timer has been handled.
LEMMA ResendSound ==
    ASSUME Sound(Dev), NEW s \in S, NEW sendOk \in BOOLEAN, ResendExpired(s, sendOk)
    PROVE  Sound(Dev)'
<1> DEFINE n == [sess[s] EXCEPT !.left = @ - 1, !.timer = sendOk]
           m == [sess[s] EXCEPT !.timer = FALSE]
           f == [Dev EXCEPT !.sess = [sess EXCEPT ![s] = n]]
           g == [Dev EXCEPT !.sess = [sess EXCEPT ![s] = m]]
<1>1. /\ Dev \in DevType /\ SupervisedDev(Dev) /\ PolledDev(Dev) /\ SessionsDev(Dev)
      /\ Dev.ar = ar /\ Dev.sess = sess /\ sess \in [S -> SessionType]
      /\ sess[s] \in SessionType
  BY DEF Sound, Dev, DevType
<1>2. OwnRequest(Dev, s)
  BY <1>1 DEF ResendExpired, SessionsDev
<1>3. sess[s].left > 0 => n \in SessionType
  <2>1. sess[s].left \in 0 .. Resends
    BY <1>1 DEF SessionType
  <2>2. sess[s].left > 0 => sess[s].left - 1 \in 0 .. Resends
    BY <2>1, ConnectionAssumption
  <2> QED BY <1>1, <2>2 DEF SessionType
<1>4. m \in SessionType
  BY <1>1 DEF SessionType
<1>5. /\ n.ar = sess[s].ar /\ n.in_use = sess[s].in_use /\ n.from_me = sess[s].from_me
      /\ m.ar = sess[s].ar /\ m.in_use = sess[s].in_use /\ m.from_me = sess[s].from_me
      /\ ~m.timer
  BY <1>1 DEF SessionType
<1>6. \/ sess[s].left > 0 /\ Becomes(f)
      \/ Becomes(Abort(g, NoSess))
  BY <1>1 DEF ResendExpired, DevType
<1>7. ASSUME NEW x \in SessionType, x.ar = sess[s].ar, x.in_use = sess[s].in_use,
             x.from_me = sess[s].from_me
      PROVE  Sound([Dev EXCEPT !.sess = [sess EXCEPT ![s] = x]])
  <2> DEFINE h == [Dev EXCEPT !.sess = [sess EXCEPT ![s] = x]]
  <2>1. /\ h \in DevType /\ h.ar = Dev.ar /\ h.monitor = Dev.monitor /\ h.poll = Dev.poll
        /\ h.sess[s] = x /\ \A t \in S \ {s} : h.sess[t] = sess[t]
    BY <1>1 DEF DevType
  <2> HIDE DEF h
  <2>2. \A t \in S : /\ h.sess[t].ar = sess[t].ar /\ h.sess[t].in_use = sess[t].in_use
                     /\ h.sess[t].from_me = sess[t].from_me
                     /\ h.sess[t].timer => sess[t].timer \/ t = s
    BY <1>7, <2>1
  <2>3. SessionsDev(h)
    <3>1. \A t \in S : PointsToAr(h, t)
      BY <1>1, <2>1, <2>2 DEF SessionsDev, PointsToAr
    <3>2. \A t \in S : OwnRequest(h, t) <=> OwnRequest(Dev, t)
      BY <1>1, <2>2 DEF OwnRequest
    <3>3. \A t \in S : h.sess[t].timer => OwnRequest(Dev, t)
      BY <1>1, <1>2, <2>2 DEF SessionsDev
    <3>4. \A t \in S : OwnRequest(Dev, t) =>
            /\ h.ar.cmdev = "W_ARDYCNF" /\ h.sess[t].ar
            /\ \A q \in S : OwnRequest(Dev, q) => q = t
      BY <1>1, <2>1, <2>2 DEF SessionsDev
    <3> QED BY <3>1, <3>2, <3>3, <3>4 DEF SessionsDev
  <2>4. SupervisedDev(h) /\ PolledDev(h)
    BY <1>1, <2>1 DEF SupervisedDev, PolledDev
  <2>5. Sound(h)
    BY <2>1, <2>3, <2>4 DEF Sound
  <2> QED BY <2>5 DEF h
<1> HIDE DEF n, m
<1>8. Sound(g) /\ (sess[s].left > 0 => Sound(f))
  BY <1>3, <1>4, <1>5, <1>7
<1> HIDE DEF f, g
<1> QED BY <1>6, <1>8, SoundAborts, BecomesSound

-----------------------------------------------------------------------------
\* The timers.
LEMMA CmsmTimeoutSound == ASSUME Sound(Dev), CmsmTimeout PROVE Sound(Dev)'
<1> DEFINE d == [Dev EXCEPT !.monitor = FALSE]
<1>1. /\ Dev \in DevType /\ SupervisedDev(Dev) /\ SessionsDev(Dev)
      /\ Dev.ar = ar /\ Dev.monitor = monitor
  BY DEF Sound, Dev
<1>2. Becomes(Abort(d, NoSess))
  BY <1>1 DEF CmsmTimeout, SupervisedDev
<1>3. d \in DevType /\ ~d.monitor /\ d.sess = Dev.sess /\ d.ar = Dev.ar
  BY <1>1 DEF DevType
<1> HIDE DEF d
<1>4. SessionsDev(d)
  BY <1>1, <1>3 DEF SessionsDev, PointsToAr, OwnRequest
<1> QED BY <1>2, <1>3, <1>4, AbortSound, BecomesSound

LEMMA ExpiringTypes ==
    ASSUME NEW t \in TimerType, NEW u \in Expiring(t)
    PROVE  u \in TimerType
<1>1. u.lost >= 0
  BY DEF Expiring
<1>2. t.named \in BOOLEAN /\ t.lost \in Nat
  BY DEF TimerType
<1>3. CASE u = [t EXCEPT !.named = FALSE]
  BY <1>3 DEF TimerType
<1>4. CASE u = [t EXCEPT !.lost = t.lost - 1]
  <2>1. u.lost = t.lost - 1
    BY <1>4 DEF TimerType
  <2>2. t.lost - 1 \in Nat
    BY <1>1, <1>2, <2>1
  <2> QED BY <1>4, <2>2 DEF TimerType
<1> QED BY <1>3, <1>4 DEF Expiring

LEMMA PollSound == ASSUME Sound(Dev), PollExpired PROVE Sound(Dev)'
<1>1. PICK t \in Expiring(poll) :
        LET d == [Dev EXCEPT !.poll = t]
            i == CmioInfoInd(d, \A c \in CRs : ar.cpm[c].start)
        IN  Becomes(IF ar.cmio = "WDATA" /\ ar.resched
                    THEN [i EXCEPT !.poll = Added(@)]
                    ELSE [d EXCEPT !.poll = Orphan(@), !.ar.resched = FALSE])
  BY DEF PollExpired
<1> DEFINE possible == \A c \in CRs : ar.cpm[c].start
           d == [Dev EXCEPT !.poll = t]
           i == CmioInfoInd(d, possible)
           f == [i EXCEPT !.poll = Added(@)]
           g == [d EXCEPT !.poll = Orphan(@), !.ar.resched = FALSE]
<1>2. /\ Dev \in DevType /\ SupervisedDev(Dev) /\ PolledDev(Dev) /\ SessionsDev(Dev)
      /\ Dev.ar = ar /\ Dev.sess = sess /\ Dev.monitor = monitor
      /\ poll \in TimerType /\ ar \in ArType
  BY DEF Sound, Dev, DevType
<1>3. possible \in BOOLEAN
  OBVIOUS
<1>4. t \in TimerType
  BY <1>2, ExpiringTypes
<1>5. /\ d \in DevType /\ d.ar = ar /\ d.sess = sess /\ d.monitor = monitor /\ d.poll = t
  BY <1>2, <1>4 DEF DevType
<1>6. \/ ar.cmio = "WDATA" /\ ar.resched /\ Becomes(f)
      \/ ~(ar.cmio = "WDATA" /\ ar.resched) /\ Becomes(g)
  BY <1>1
<1> HIDE DEF possible, d
<1>7. ASSUME ~(ar.cmio = "WDATA" /\ ar.resched) PROVE Sound(g)
  <2>1. /\ g \in DevType /\ g.sess = sess /\ g.monitor = monitor
        /\ g.ar.in_use = ar.in_use /\ g.ar.cmdev = ar.cmdev /\ g.ar.sess = ar.sess
        /\ g.ar.cmsm = ar.cmsm /\ g.ar.cmio = ar.cmio
    <3> DEFINE r == [ar EXCEPT !.resched = FALSE]
               u == Orphan(t)
    <3>1. u \in TimerType
      BY <1>4, TimerTypes
    <3>2. /\ r \in ArType /\ r.in_use = ar.in_use /\ r.cmdev = ar.cmdev /\ r.sess = ar.sess
          /\ r.cmsm = ar.cmsm /\ r.cmio = ar.cmio
      BY <1>2 DEF ArType
    <3>3. g = [d EXCEPT !.poll = u, !.ar = r]
      BY <1>5 DEF DevType
    <3> HIDE DEF r, u, g
    <3> QED BY <1>5, <3>1, <3>2, <3>3 DEF DevType
  <2> HIDE DEF g
  <2>2. ar.cmio # "WDATA"
    BY <1>2, <1>7 DEF PolledDev
  <2>3. SupervisedDev(g) /\ PolledDev(g)
    BY <1>2, <2>1, <2>2 DEF SupervisedDev, PolledDev
  <2>4. SessionsDev(g)
    BY <1>2, <2>1 DEF SessionsDev, PointsToAr, OwnRequest
  <2> QED BY <2>1, <2>3, <2>4 DEF Sound
\* The indication keeps everything but the poll handle, which is set next.
<1>8. ASSUME ar.cmio = "WDATA", ar.resched
      PROVE  /\ i \in DevType /\ SupervisedDev(i) /\ SessionsDev(i)
             /\ i.ar.cmio = "WDATA" => i.ar.resched
  <2> DEFINE x(b) == [d EXCEPT !.ar.ready = b]
             h == StateInd(x(TRUE), "DATA")
             y == [h EXCEPT !.ar.cmdev = "DATA"]
  <2>1. \/ i = x(possible) \/ i = x(FALSE) \/ i = d
        \/ i = y /\ ar.cmdev = "WDATA"
    BY <1>3, <1>5 DEF CmioInfoInd
  <2>2. ASSUME NEW b \in BOOLEAN
        PROVE  /\ x(b) \in DevType /\ x(b).sess = sess /\ x(b).monitor = monitor
               /\ x(b).ar.in_use = ar.in_use /\ x(b).ar.cmdev = ar.cmdev
               /\ x(b).ar.sess = ar.sess /\ x(b).ar.cmsm = ar.cmsm
               /\ x(b).ar.cmio = ar.cmio /\ x(b).ar.resched = ar.resched
    BY <1>2, <1>5 DEF DevType, ArType
  <2> HIDE DEF x
  <2>3. ASSUME NEW z \in DevType, z.sess = sess, z.monitor = monitor,
               z.ar.in_use = ar.in_use, z.ar.cmdev = ar.cmdev, z.ar.sess = ar.sess,
               z.ar.cmsm = ar.cmsm, z.ar.resched = ar.resched
        PROVE  /\ z \in DevType /\ SupervisedDev(z) /\ SessionsDev(z)
               /\ z.ar.cmio = "WDATA" => z.ar.resched
    <3>1. SupervisedDev(z)
      BY <1>2, <2>3 DEF SupervisedDev
    <3>2. SessionsDev(z)
      BY <1>2, <2>3 DEF SessionsDev, PointsToAr, OwnRequest
    <3> QED BY <1>8, <2>3, <3>1, <3>2
  <2>4. ASSUME i = y, ar.cmdev = "WDATA"
        PROVE  /\ i \in DevType /\ SupervisedDev(i) /\ SessionsDev(i)
               /\ i.ar.cmio = "WDATA" => i.ar.resched
    <3>1. x(TRUE) \in DevType /\ (x(TRUE).monitor => x(TRUE).ar.cmsm = "RUN")
      BY <1>2, <2>2 DEF SupervisedDev
    <3>2. ar.in_use /\ \A s \in S : ~OwnRequest(Dev, s)
      BY <1>2, <2>4 DEF SupervisedDev, SessionsDev
    <3>3. Same(x(TRUE), h) /\ ~h.monitor /\ h.ar.cmio # "WDATA"
      BY <3>1, StateIndFacts DEF Events
    <3> HIDE DEF h
    <3>4. h \in DevType /\ h.sess = sess /\ h.ar.in_use /\ h.ar.sess = ar.sess
      BY <2>2, <3>2, <3>3 DEF Same
    <3>5. /\ y \in DevType /\ y.sess = sess /\ y.ar.in_use /\ y.ar.sess = ar.sess
          /\ ~y.monitor /\ y.ar.cmdev = "DATA" /\ y.ar.cmio # "WDATA"
      BY <3>3, <3>4 DEF DevType, ArType
    <3> HIDE DEF y
    <3>6. SessionsDev(y)
      BY <1>2, <3>2, <3>5 DEF SessionsDev, PointsToAr, OwnRequest
    <3> QED BY <2>4, <3>5, <3>6 DEF SupervisedDev
  <2> HIDE DEF y
  <2>5. CASE i = x(possible)
    BY <1>3, <2>2, <2>3, <2>5
  <2>6. CASE i = x(FALSE)
    BY <2>2, <2>3, <2>6
  <2>7. CASE i = d
    BY <1>5, <2>3, <2>7
  <2> QED BY <2>1, <2>4, <2>5, <2>6, <2>7
<1> HIDE DEF i
<1>9. ASSUME ar.cmio = "WDATA", ar.resched PROVE Sound(f)
  <2>1. i \in DevType /\ i.poll \in TimerType
    BY <1>8, <1>9 DEF DevType
  <2>2. Added(i.poll) \in TimerType /\ Added(i.poll).named
    BY <2>1, TimerTypes
  <2>3. /\ f \in DevType /\ f.ar = i.ar /\ f.sess = i.sess /\ f.monitor = i.monitor
        /\ f.poll.named
    BY <2>1, <2>2 DEF DevType
  <2> HIDE DEF f
  <2>4. SupervisedDev(f) /\ PolledDev(f)
    BY <1>8, <1>9, <2>3 DEF SupervisedDev, PolledDev
  <2>5. SessionsDev(f)
    BY <1>8, <1>9, <2>3 DEF SessionsDev, PointsToAr, OwnRequest
  <2> QED BY <2>3, <2>4, <2>5 DEF Sound
<1> HIDE DEF f, g
<1> QED BY <1>6, <1>7, <1>9, BecomesSound

LEMMA CpmStoppedSound ==
    ASSUME NEW d, Sound(d), NEW c \in CRs
    PROVE  Sound(CpmStopped(d, c))
<1> DEFINE x(v) == [d EXCEPT !.ar.cpm[c] = v]
           w == [CpmOff EXCEPT !.start = d.ar.cpm[c].start]
<1>1. d \in DevType /\ d.ar \in ArType /\ d.ar.cpm \in [CRs -> CpmType]
  BY DEF Sound, DevType, ArType
<1>2. CpmOff \in CpmType /\ w \in CpmType
  BY <1>1, ClearedTypes DEF CpmType, CpmOff
<1>3. \/ CpmStopped(d, c) = Abort(d, NoSess)
      \/ CpmStopped(d, c) = x(CpmOff)
      \/ CpmStopped(d, c) = x(w)
  BY DEF CpmStopped
<1> HIDE DEF w
<1>4. ASSUME NEW v \in CpmType PROVE Sound(x(v))
  <2> DEFINE p == [d.ar.cpm EXCEPT ![c] = v]
             f == [d EXCEPT !.ar.cpm = p]
  <2>1. p \in [CRs -> CpmType]
    BY <1>1
  <2>2. x(v) = f
    BY <1>1 DEF DevType, ArType
  <2> HIDE DEF p, x
  <2>3. /\ f \in DevType /\ f.sess = d.sess /\ f.monitor = d.monitor /\ f.poll = d.poll
        /\ f.ar = [d.ar EXCEPT !.cpm = p] /\ f.ar.cpm = p
    BY <1>1, <2>1 DEF DevType, ArType
  <2> HIDE DEF f
  <2> QED BY <2>2, <2>3, ConsumersSound
<1> HIDE DEF x
<1> QED BY <1>2, <1>3, <1>4, SoundAborts

LEMMA CiSound ==
    ASSUME Sound(Dev), NEW c \in CRs, CiExpired(c)
    PROVE  Sound(Dev)'
<1>1. PICK t \in Expiring(ci[c]) :
        LET d == [Dev EXCEPT !.ci[c] = Orphan(t)]
            e == [d EXCEPT !.ci[c] = Added(@)]
        IN  Becomes(
              IF ~ar.cpm[c].running THEN d
              ELSE IF ar.cpm[c].state # "RUN" THEN e
              ELSE IF ar.cpm[c].dht < DataHold THEN [e EXCEPT !.ar.cpm[c].dht = @ + 1]
              ELSE CpmStopped(d, c))
  BY DEF CiExpired
<1> DEFINE d == [Dev EXCEPT !.ci[c] = Orphan(t)]
           e == [d EXCEPT !.ci[c] = Added(@)]
           v == [ar.cpm[c] EXCEPT !.dht = @ + 1]
           f == [e EXCEPT !.ar.cpm[c].dht = @ + 1]
<1>2. /\ Dev \in DevType /\ Dev.ar = ar /\ Dev.ci = ci /\ Dev.poll = poll
      /\ Dev.sess = sess /\ Dev.monitor = monitor
      /\ ci \in [CRs -> TimerType] /\ ar \in ArType /\ ar.cpm \in [CRs -> CpmType]
  BY DEF Sound, Dev, DevType, ArType
<1>3. t \in TimerType /\ Orphan(t) \in TimerType
  BY <1>2, ExpiringTypes, TimerTypes
<1>4. /\ d \in DevType /\ d.ar = ar /\ d.sess = Dev.sess /\ d.monitor = Dev.monitor
      /\ d.poll = Dev.poll /\ d.ci[c] = Orphan(t)
  BY <1>2, <1>3 DEF DevType
<1>5. \/ Becomes(d) \/ Becomes(e) \/ (ar.cpm[c].dht < DataHold /\ Becomes(f))
      \/ Becomes(CpmStopped(d, c))
  BY <1>1
<1> HIDE DEF d
<1>6. Added(Orphan(t)) \in TimerType
  BY <1>3, TimerTypes
<1>7. /\ e \in DevType /\ e.ar = ar /\ e.sess = Dev.sess /\ e.monitor = Dev.monitor
      /\ e.poll = Dev.poll
  BY <1>4, <1>6 DEF DevType
<1> HIDE DEF e
<1>8. ar = [ar EXCEPT !.cpm = ar.cpm]
  BY <1>2 DEF ArType
<1>9. Sound(d) /\ Sound(e)
  BY <1>2, <1>4, <1>7, <1>8, ConsumersSound
<1>10. ASSUME ar.cpm[c].dht < DataHold PROVE Sound(f)
  <2> DEFINE p == [ar.cpm EXCEPT ![c] = v]
             g == [e EXCEPT !.ar.cpm = p]
  <2>1. ar.cpm[c] \in CpmType /\ ar.cpm[c].dht \in 0 .. DataHold
    BY <1>2 DEF CpmType
  <2>2. ar.cpm[c].dht + 1 \in 0 .. DataHold
    BY <1>10, <2>1, ConnectionAssumption
  <2>3. v \in CpmType
    BY <2>1, <2>2 DEF CpmType
  <2>4. f = g
    BY <1>2, <1>7 DEF DevType, ArType
  <2> HIDE DEF v, f
  <2>5. p \in [CRs -> CpmType]
    BY <1>2, <2>3
  <2> HIDE DEF p
  <2>6. /\ g \in DevType /\ g.sess = e.sess /\ g.monitor = e.monitor /\ g.poll = e.poll
        /\ g.ar = [e.ar EXCEPT !.cpm = p] /\ g.ar.cpm = p
    BY <1>2, <1>7, <2>5 DEF DevType, ArType
  <2> HIDE DEF g
  <2> QED BY <1>9, <2>4, <2>6, ConsumersSound
<1> HIDE DEF f
<1> QED BY <1>5, <1>9, <1>10, CpmStoppedSound, BecomesSound

LEMMA TimerSound == ASSUME Sound(Dev), TimerStep PROVE Sound(Dev)'
BY CmsmTimeoutSound, PollSound, CiSound, ResendSound DEF TimerStep

-----------------------------------------------------------------------------
\* The Ethernet thread.
RxType == [at : {"idle", "checked", "told"}, cr : CRs \cup {None}]

LEMMA EthernetSound ==
    ASSUME Sound(Dev), rx \in RxType, halted \in BOOLEAN, EthernetStep
    PROVE  Sound(Dev)' /\ rx' \in RxType /\ halted' \in BOOLEAN
<1>1. /\ Dev \in DevType /\ Dev.ar = ar /\ ar \in ArType /\ ar.cpm \in [CRs -> CpmType]
  BY DEF Sound, Dev, DevType, ArType
<1>2. ASSUME NEW p \in [CRs -> CpmType],
             UNCHANGED <<sess, poll, ci, monitor, map>>, ar' = [ar EXCEPT !.cpm = p]
      PROVE  Sound(Dev)'
  <2> DEFINE f == [Dev EXCEPT !.ar = [ar EXCEPT !.cpm = p]]
  <2>1. Becomes(f)
    BY <1>2 DEF Becomes, Dev
  <2>2. /\ f \in DevType /\ f.sess = Dev.sess /\ f.monitor = Dev.monitor
        /\ f.poll = Dev.poll /\ f.ar = [Dev.ar EXCEPT !.cpm = p] /\ f.ar.cpm = p
    BY <1>1 DEF DevType, ArType
  <2> HIDE DEF f
  <2>3. Sound(f)
    BY <2>2, ConsumersSound
  <2> QED BY <2>1, <2>3, BecomesSound
<1>3. ASSUME UNCHANGED ar PROVE Sound(Dev)'
  <2>1. ar = [ar EXCEPT !.cpm = ar.cpm]
    BY <1>1 DEF ArType
  <2> QED BY <1>1, <1>2, <1>3, <2>1 DEF EthernetStep
<1>4. UNCHANGED <<sess, poll, ci, monitor, map>>
  BY DEF EthernetStep
<1>5. ASSUME NEW c \in CRs, FrameStart(c)
      PROVE  Sound(Dev)' /\ rx' \in RxType /\ halted' \in BOOLEAN
  <2>1. /\ UNCHANGED ar
        /\ rx' = rx \/ rx' = [at |-> "checked", cr |-> c]
        /\ halted' = TRUE \/ halted' = halted
    BY <1>5 DEF FrameStart, NullAr
  <2>2. [at |-> "checked", cr |-> c] \in RxType
    BY DEF RxType
  <2>3. rx' \in RxType
    BY <2>1, <2>2
  <2>4. halted' \in BOOLEAN
    BY <2>1
  <2> QED BY <1>3, <2>1, <2>3, <2>4
<1>6. ASSUME FrameData
      PROVE  Sound(Dev)' /\ rx' \in RxType /\ halted' \in BOOLEAN
  <2> DEFINE p == [c \in CRs |-> IF c = rx.cr
                       THEN [ar.cpm[c] EXCEPT !.start = @ \/ ar.cmio = "WDATA"]
                       ELSE ar.cpm[c]]
  <2>1. CASE ~ar.in_use
    BY <1>3, <1>6, <2>1 DEF FrameData, NullAr
  <2>2. CASE ar.in_use
    <3>1. /\ ar' = [ar EXCEPT !.cpm[rx.cr].start = @ \/ ar.cmio = "WDATA"]
          /\ rx' = [rx EXCEPT !.at = "told"] /\ UNCHANGED halted
      BY <1>6, <2>2 DEF FrameData, NullAr
    <3>2. \A c \in CRs : p[c] \in CpmType
      BY <1>1 DEF CpmType
    <3>3. p \in [CRs -> CpmType]
      BY <3>2
    <3>4. ar' = [ar EXCEPT !.cpm = p]
      BY <1>1, <3>1 DEF ArType
    <3> HIDE DEF p
    <3> QED BY <1>2, <1>4, <3>1, <3>3, <3>4 DEF RxType
  <2> QED BY <2>1, <2>2
<1>7. ASSUME FrameEnd
      PROVE  Sound(Dev)' /\ rx' \in RxType /\ halted' \in BOOLEAN
  <2> DEFINE p == [c \in CRs |-> IF c = rx.cr
                       THEN [ar.cpm[c] EXCEPT !.dht = 0, !.state = "RUN"]
                       ELSE ar.cpm[c]]
  <2>1. rx' \in RxType /\ halted' \in BOOLEAN
    BY <1>7 DEF FrameEnd, RxType
  <2>2. CASE ~ar.in_use
    BY <1>3, <1>7, <2>1, <2>2 DEF FrameEnd
  <2>3. CASE ar.in_use
    <3>1. ar' = [ar EXCEPT !.cpm[rx.cr] = [@ EXCEPT !.dht = 0, !.state = "RUN"]]
      BY <1>7, <2>3 DEF FrameEnd
    <3>2. 0 \in 0 .. DataHold
      BY ConnectionAssumption
    <3>3. ASSUME NEW c \in CRs PROVE p[c] \in CpmType
      <4>1. ar.cpm[c] \in CpmType
        BY <1>1 DEF ArType
      <4>2. [ar.cpm[c] EXCEPT !.dht = 0, !.state = "RUN"] \in CpmType
        BY <3>2, <4>1 DEF CpmType
      <4> QED BY <4>1, <4>2
    <3>4. p \in [CRs -> CpmType]
      BY <3>3
    <3>5. ar' = [ar EXCEPT !.cpm = p]
      BY <1>1, <3>1 DEF ArType
    <3> HIDE DEF p
    <3> QED BY <1>2, <1>4, <2>1, <3>4, <3>5
  <2> QED BY <2>2, <2>3
<1> QED BY <1>5, <1>6, <1>7 DEF EthernetStep

-----------------------------------------------------------------------------
\* The invariant of the specification: it is inductive, for TypeOK,
\* Supervised, Polled and SessionsPointToAr need one another.  An abort finds
\* every session that points to the AR because of SessionsPointToAr, and
\* stops the monitor because of Supervised; an answer ends the one request of
\* the device because there is no other.
IInv == Sound(Dev) /\ rx \in RxType /\ halted \in BOOLEAN

LEMMA IInvParts == IInv <=> TypeOK /\ Supervised /\ Polled /\ SessionsPointToAr
<1>1. Dev \in DevType /\ rx \in RxType /\ halted \in BOOLEAN <=> TypeOK
  BY DEF Dev, DevType, RxType, TypeOK
<1>2. SupervisedDev(Dev) <=> Supervised
  BY DEF Dev, SupervisedDev, Supervised
<1>3. PolledDev(Dev) <=> Polled
  BY DEF Dev, PolledDev, Polled
<1>4. SessionsDev(Dev) <=> SessionsPointToAr
  BY DEF Dev, SessionsDev, PointsToAr, OwnRequest, SessionsPointToAr
<1> QED BY <1>1, <1>2, <1>3, <1>4 DEF IInv, Sound

LEMMA InitSound == Init => IInv
<1> SUFFICES ASSUME Init PROVE IInv
  OBVIOUS
<1>1. NoTimer \in TimerType
  BY DEF NoTimer, TimerType
<1>2. TypeOK
  BY <1>1, ClearedTypes DEF Init, TypeOK
<1>3. Supervised /\ Polled /\ SessionsPointToAr
  BY DEF Init, Supervised, Polled, SessionsPointToAr, NoAr, NoSession
<1> QED BY <1>2, <1>3, IInvParts

LEMMA NextSound == IInv /\ [Next]_vars => IInv'
<1> SUFFICES ASSUME IInv, [Next]_vars PROVE IInv'
  OBVIOUS
<1>1. CASE MainStep
  <2>1. Sound(Dev) /\ rx' = rx /\ halted' = halted
    BY <1>1 DEF IInv, MainStep
  <2>2. Sound(Dev)'
    <3>1. CASE ConnectStep
      BY <2>1, <3>1, ConnectSound DEF ConnectStep
    <3>2. CASE RequestStep
      BY <2>1, <3>2, RequestSound
    <3>3. CASE AnswerStep
      BY <2>1, <3>3, AnswerSound
    <3>4. CASE ApplicationStep
      BY <2>1, <3>4, ApplicationSound
    <3>5. CASE TimerStep
      BY <2>1, <3>5, TimerSound
    <3> QED BY <1>1, <3>1, <3>2, <3>3, <3>4, <3>5 DEF MainStep
  <2> QED BY <2>1, <2>2 DEF IInv
<1>2. CASE EthernetStep
  BY <1>2, EthernetSound DEF IInv
<1>3. CASE UNCHANGED vars
  <2>1. Sound(Dev) /\ Becomes(Dev)
    BY <1>3 DEF IInv, vars, Becomes, Dev
  <2>2. Sound(Dev)'
    BY <2>1, BecomesSound
  <2> QED BY <1>3, <2>2 DEF IInv, vars
<1> QED BY <1>1, <1>2, <1>3 DEF Next

LEMMA AlwaysIInv == Spec => []IInv
BY InitSound, NextSound, PTL DEF Spec

\* Every variable keeps its type, whatever comes in whatever order: no count
\* of the resends or of the data hold time runs out of its range.
THEOREM ConnectionTypes == Spec => []TypeOK
<1>1. IInv => TypeOK
  BY IInvParts
<1> QED BY <1>1, AlwaysIInv, PTL

\* From the answered Connect to data exchange the CMSM timer runs, and it
\* never outlives the AR it was started for (pf_cmsm.c, pf_cmdev.c).
THEOREM AlwaysSupervised == Spec => []Supervised
<1>1. IInv => Supervised
  BY IInvParts
<1> QED BY <1>1, AlwaysIInv, PTL

\* While an AR waits for data its poll is scheduled, under its own handle,
\* even when callbacks of earlier ARs are still queued (pf_cmio.c).
THEOREM AlwaysPolled == Spec => []Polled
<1>1. IInv => Polled
  BY IInvParts
<1> QED BY <1>1, AlwaysIInv, PTL

\* No session points to an AR that is gone, and the device has at most one
\* request of its own under way (pf_cmrpc.c).
THEOREM SessionsSafe == Spec => []SessionsPointToAr
<1>1. IInv => SessionsPointToAr
  BY IInvParts
<1> QED BY <1>1, AlwaysIInv, PTL
=============================================================================
