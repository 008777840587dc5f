--------------------------- MODULE ConnectionOrder ---------------------------
(***************************************************************************)
(* More proofs about Connection: that it implements Lifecycle, whatever    *)
(* the controllers send; and, for controllers that keep to the discipline  *)
(* stated below, that the machines of an AR advance together, that nothing *)
(* of an AR outlives it, and that an AR keeps its session.                 *)
(***************************************************************************)
EXTENDS ConnectionProofs

-----------------------------------------------------------------------------
(***************************************************************************)
(* What pf_cmdev_state_ind does to an AR, machine by machine.              *)
(***************************************************************************)
\* What no machine touches when an event other than ABORT comes.
Kept(r, q) ==
    /\ q \in ArType
    /\ q.in_use = r.in_use /\ q.uuid = r.uuid /\ q.sess = r.sess
    /\ q.cmdev = r.cmdev /\ q.cmsu = r.cmsu /\ q.alarm = r.alarm
    /\ \A c \in CRs : q.cpm[c].running = r.cpm[c].running

\* What is left alone outside the AR.
KeptDev(d, f) ==
    /\ f \in DevType /\ f.sess = d.sess /\ f.ci = d.ci /\ f.map = d.map
    /\ Kept(d.ar, f.ar)

SamePpm(r, q) == q.ppm = r.ppm
SameCmio(r, q) == q.cmio = r.cmio
SameCmwrr(r, q) == q.cmwrr = r.cmwrr
SameCmsm(r, q) == q.cmsm = r.cmsm
SameCmpbe(r, q) == q.cmpbe = r.cmpbe

\* The state of the AR and its alarm flag aside, Kept compares fields.
LEMMA KeptIs ==
    ASSUME NEW r \in ArType, NEW q \in ArType
    PROVE  LET Rest == /\ q.in_use = r.in_use /\ q.uuid = r.uuid /\ q.sess = r.sess
                       /\ q.cmsu = r.cmsu
                       /\ \A c \in CRs : q.cpm[c].running = r.cpm[c].running
           IN  /\ Kept(r, [q EXCEPT !.cmdev = r.cmdev, !.alarm = r.alarm]) <=> Rest
               /\ Kept(r, [q EXCEPT !.alarm = r.alarm]) <=> Rest /\ q.cmdev = r.cmdev
<1> DEFINE x == [q EXCEPT !.cmdev = r.cmdev, !.alarm = r.alarm]
           y == [q EXCEPT !.alarm = r.alarm]
<1>1. /\ x \in ArType /\ x.in_use = q.in_use /\ x.uuid = q.uuid /\ x.sess = q.sess
      /\ x.cmsu = q.cmsu /\ x.cpm = q.cpm /\ x.cmdev = r.cmdev /\ x.alarm = r.alarm
  <2> DEFINE z == [q EXCEPT !.cmdev = r.cmdev]
  <2>1. /\ z \in ArType /\ z.in_use = q.in_use /\ z.uuid = q.uuid /\ z.sess = q.sess
        /\ z.cmsu = q.cmsu /\ z.cpm = q.cpm /\ z.cmdev = r.cmdev
    BY DEF ArType
  <2>2. x = [z EXCEPT !.alarm = r.alarm]
    OBVIOUS
  <2> HIDE DEF x, z
  <2>3. /\ x \in ArType /\ x.in_use = z.in_use /\ x.uuid = z.uuid /\ x.sess = z.sess
        /\ x.cmsu = z.cmsu /\ x.cpm = z.cpm /\ x.cmdev = z.cmdev /\ x.alarm = r.alarm
    BY <2>1, <2>2 DEF ArType
  <2> QED BY <2>1, <2>3
<1>2. /\ y \in ArType /\ y.in_use = q.in_use /\ y.uuid = q.uuid /\ y.sess = q.sess
      /\ y.cmsu = q.cmsu /\ y.cpm = q.cpm /\ y.cmdev = q.cmdev /\ y.alarm = r.alarm
  BY DEF ArType
<1> HIDE DEF x, y
<1> QED BY <1>1, <1>2 DEF Kept, x, y

LEMMA KeptFrom ==
    ASSUME NEW r \in ArType, NEW q \in ArType, q.in_use = r.in_use, q.uuid = r.uuid,
           q.sess = r.sess, q.cmsu = r.cmsu,
           \A c \in CRs : q.cpm[c].running = r.cpm[c].running
    PROVE  Kept(r, [q EXCEPT !.cmdev = r.cmdev, !.alarm = r.alarm])
BY KeptIs

\* An AR record changed in one of its machines.
LEMMA WithAr ==
    ASSUME NEW d \in DevType, NEW r \in ArType, Kept(d.ar, r),
           NEW f, f = [d EXCEPT !.ar = r]
    PROVE  KeptDev(d, f) /\ f.ar = r
<1>1. f \in DevType /\ f.ar = r /\ f.sess = d.sess /\ f.ci = d.ci /\ f.map = d.map
  BY DEF DevType
<1> QED BY <1>1 DEF KeptDev

LEMMA SameDev ==
    ASSUME NEW d \in DevType
    PROVE  KeptDev(d, d)
BY DEF KeptDev, Kept, DevType

LEMMA CmsuMoves ==
    ASSUME NEW d \in DevType, NEW e \in Events
    PROVE  LET f == Cmsu(d, e)
           IN  /\ KeptDev(d, f)
               /\ f.ar.ppm = IF d.ar.cmsu = "STARTUP" /\ e = "PRMEND" THEN "RUN" ELSE d.ar.ppm
               /\ SameCmio(d.ar, f.ar) /\ SameCmwrr(d.ar, f.ar)
               /\ SameCmsm(d.ar, f.ar) /\ SameCmpbe(d.ar, f.ar)
<1> DEFINE r == [d.ar EXCEPT !.ppm = "RUN"]
           f == [d EXCEPT !.ar = r]
<1>1. d.ar \in ArType
  BY DEF DevType
<1>2. /\ r \in ArType /\ Kept(d.ar, r) /\ r.ppm = "RUN"
      /\ SameCmio(d.ar, r) /\ SameCmwrr(d.ar, r) /\ SameCmsm(d.ar, r) /\ SameCmpbe(d.ar, r)
  BY <1>1 DEF ArType, Kept, SameCmio, SameCmwrr, SameCmsm, SameCmpbe
<1>3. f = [d EXCEPT !.ar.ppm = "RUN"]
  BY DEF DevType
<1> HIDE DEF r
<1>4. f = [d EXCEPT !.ar = r]
  OBVIOUS
<1> HIDE DEF f
<1>5. KeptDev(d, f) /\ f.ar = r
  BY <1>1, <1>2, <1>4, WithAr
<1>6. CASE d.ar.cmsu = "STARTUP" /\ e = "PRMEND"
  <2>1. Cmsu(d, e) = f
    BY <1>3, <1>6 DEF Cmsu
  <2> QED BY <1>2, <1>5, <1>6, <2>1
<1>7. CASE ~(d.ar.cmsu = "STARTUP" /\ e = "PRMEND")
  <2>1. Cmsu(d, e) = d
    BY <1>7 DEF Cmsu
  <2> QED BY <1>7, <2>1, SameDev DEF SameCmio, SameCmwrr, SameCmsm, SameCmpbe
<1> QED BY <1>6, <1>7

CmwrrNext(st, e) ==
    CASE st = "IDLE" /\ e = "STARTUP" -> "STARTUP"
      [] st = "STARTUP" /\ e = "PRMEND" -> "PRMEND"
      [] st = "PRMEND" /\ e = "APPLRDY" -> "DATA"
      [] OTHER -> st

LEMMA WithCmwrrKept ==
    ASSUME NEW d \in DevType, NEW st \in {"STARTUP", "PRMEND", "DATA"}
    PROVE  LET f == [d EXCEPT !.ar.cmwrr = st]
           IN  /\ KeptDev(d, f) /\ f.ar.cmwrr = st
               /\ SamePpm(d.ar, f.ar) /\ SameCmio(d.ar, f.ar)
               /\ SameCmsm(d.ar, f.ar) /\ SameCmpbe(d.ar, f.ar)
<1> DEFINE r == [d.ar EXCEPT !.cmwrr = st]
           f == [d EXCEPT !.ar = r]
<1>1. d.ar \in ArType
  BY DEF DevType
<1>2. /\ r \in ArType /\ Kept(d.ar, r) /\ r.cmwrr = st
      /\ SamePpm(d.ar, r) /\ SameCmio(d.ar, r) /\ SameCmsm(d.ar, r) /\ SameCmpbe(d.ar, r)
  BY <1>1 DEF ArType, Kept, SameCmio, SamePpm, SameCmsm, SameCmpbe
<1>3. f = [d EXCEPT !.ar.cmwrr = st]
  BY DEF DevType
<1> HIDE DEF r
<1>4. f = [d EXCEPT !.ar = r]
  OBVIOUS
<1> HIDE DEF f
<1>5. KeptDev(d, f) /\ f.ar = r
  BY <1>1, <1>2, <1>4, WithAr
<1> QED BY <1>2, <1>3, <1>5

LEMMA CmwrrMoves ==
    ASSUME NEW d \in DevType, NEW e \in Events
    PROVE  LET f == Cmwrr(d, e)
           IN  /\ KeptDev(d, f) /\ f.ar.cmwrr = CmwrrNext(d.ar.cmwrr, e)
               /\ SamePpm(d.ar, f.ar) /\ SameCmio(d.ar, f.ar)
               /\ SameCmsm(d.ar, f.ar) /\ SameCmpbe(d.ar, f.ar)
<1> DEFINE f(st) == [d EXCEPT !.ar.cmwrr = st]
           P(x) == /\ KeptDev(d, x) /\ SamePpm(d.ar, x.ar) /\ SameCmio(d.ar, x.ar)
                   /\ SameCmsm(d.ar, x.ar) /\ SameCmpbe(d.ar, x.ar)
<1>1. \A st \in {"STARTUP", "PRMEND", "DATA"} : P(f(st)) /\ f(st).ar.cmwrr = st
  BY WithCmwrrKept
<1>2. P(d)
  BY SameDev DEF SamePpm, SameCmio, SameCmsm, SameCmpbe
<1>3. Cmwrr(d, e) = IF CmwrrNext(d.ar.cmwrr, e) = d.ar.cmwrr THEN d
                    ELSE f(CmwrrNext(d.ar.cmwrr, e))
  BY DEF Cmwrr, CmwrrNext
<1>4. \/ CmwrrNext(d.ar.cmwrr, e) = d.ar.cmwrr
      \/ CmwrrNext(d.ar.cmwrr, e) \in {"STARTUP", "PRMEND", "DATA"}
  BY DEF CmwrrNext
<1> HIDE DEF f, P
<1>5. P(Cmwrr(d, e)) /\ Cmwrr(d, e).ar.cmwrr = CmwrrNext(d.ar.cmwrr, e)
  BY <1>1, <1>2, <1>3, <1>4
<1> QED BY <1>5 DEF P

CmpbeNext(st, e) == IF st = "IDLE" /\ e = "DATA" THEN "WFIND" ELSE st

LEMMA CmpbeMoves ==
    ASSUME NEW d \in DevType, NEW e \in Events
    PROVE  LET f == Cmpbe(d, e)
           IN  /\ KeptDev(d, f) /\ f.ar.cmpbe = CmpbeNext(d.ar.cmpbe, e)
               /\ SamePpm(d.ar, f.ar) /\ SameCmio(d.ar, f.ar)
               /\ SameCmwrr(d.ar, f.ar) /\ SameCmsm(d.ar, f.ar)
<1> DEFINE r == [d.ar EXCEPT !.cmpbe = "WFIND"]
           f == [d EXCEPT !.ar = r]
<1>1. d.ar \in ArType
  BY DEF DevType
<1>2. /\ r \in ArType /\ Kept(d.ar, r) /\ r.cmpbe = "WFIND"
      /\ SamePpm(d.ar, r) /\ SameCmio(d.ar, r) /\ SameCmwrr(d.ar, r) /\ SameCmsm(d.ar, r)
  BY <1>1 DEF ArType, Kept, SamePpm, SameCmio, SameCmwrr, SameCmsm
<1>3. f = [d EXCEPT !.ar.cmpbe = "WFIND"]
  BY DEF DevType
<1> HIDE DEF r
<1>4. f = [d EXCEPT !.ar = r]
  OBVIOUS
<1> HIDE DEF f
<1>5. KeptDev(d, f) /\ f.ar = r
  BY <1>1, <1>2, <1>4, WithAr
<1>6. CASE d.ar.cmpbe = "IDLE" /\ e = "DATA"
  <2>1. Cmpbe(d, e) = f
    BY <1>3, <1>6 DEF Cmpbe
  <2> QED BY <1>2, <1>5, <1>6, <2>1 DEF CmpbeNext
<1>7. CASE ~(d.ar.cmpbe = "IDLE" /\ e = "DATA")
  <2>1. Cmpbe(d, e) = d
    BY <1>7 DEF Cmpbe
  <2> QED BY <1>7, <2>1, SameDev DEF CmpbeNext, SamePpm, SameCmio, SameCmwrr, SameCmsm
<1> QED BY <1>6, <1>7

CmsmNext(st, e) ==
    CASE st = "IDLE" /\ e = "STARTUP" -> "RUN"
      [] st = "RUN" /\ e = "DATA" -> "IDLE"
      [] OTHER -> st

LEMMA CmsmMoves ==
    ASSUME NEW d \in DevType, NEW e \in Events
    PROVE  LET f == Cmsm(d, e)
           IN  /\ KeptDev(d, f) /\ f.ar.cmsm = CmsmNext(d.ar.cmsm, e)
               /\ SamePpm(d.ar, f.ar) /\ SameCmio(d.ar, f.ar)
               /\ SameCmwrr(d.ar, f.ar) /\ SameCmpbe(d.ar, f.ar)
<1> DEFINE q == [d.ar EXCEPT !.cmsm = "RUN"]
           r == [d.ar EXCEPT !.cmsm = "IDLE"]
           f == [d EXCEPT !.ar = q, !.monitor = TRUE]
           g == [d EXCEPT !.ar = r, !.monitor = FALSE]
<1>1. d.ar \in ArType
  BY DEF DevType
<1>2. /\ q \in ArType /\ Kept(d.ar, q) /\ q.cmsm = "RUN"
      /\ SamePpm(d.ar, q) /\ SameCmio(d.ar, q) /\ SameCmwrr(d.ar, q) /\ SameCmpbe(d.ar, q)
  BY <1>1 DEF ArType, Kept, SamePpm, SameCmio, SameCmwrr, SameCmpbe
<1>3. /\ r \in ArType /\ Kept(d.ar, r) /\ r.cmsm = "IDLE"
      /\ SamePpm(d.ar, r) /\ SameCmio(d.ar, r) /\ SameCmwrr(d.ar, r) /\ SameCmpbe(d.ar, r)
  BY <1>1 DEF ArType, Kept, SamePpm, SameCmio, SameCmwrr, SameCmpbe
<1>4. /\ f = [d EXCEPT !.ar.cmsm = "RUN", !.monitor = TRUE]
      /\ g = [d EXCEPT !.ar.cmsm = "IDLE", !.monitor = FALSE]
  BY DEF DevType
<1> HIDE DEF q, r
<1>5. /\ f \in DevType /\ f.sess = d.sess /\ f.ci = d.ci /\ f.map = d.map /\ f.ar = q
      /\ g \in DevType /\ g.sess = d.sess /\ g.ci = d.ci /\ g.map = d.map /\ g.ar = r
  BY <1>2, <1>3 DEF DevType
<1> HIDE DEF f, g
<1>6. CASE d.ar.cmsm = "IDLE" /\ e = "STARTUP"
  <2>1. Cmsm(d, e) = f
    BY <1>4, <1>6 DEF Cmsm
  <2> QED BY <1>2, <1>5, <1>6, <2>1 DEF CmsmNext, KeptDev
<1>7. CASE d.ar.cmsm = "RUN" /\ e = "DATA"
  <2>1. Cmsm(d, e) = g
    BY <1>4, <1>7 DEF Cmsm
  <2> QED BY <1>3, <1>5, <1>7, <2>1 DEF CmsmNext, KeptDev
<1>8. CASE ~(d.ar.cmsm = "IDLE" /\ e = "STARTUP") /\ ~(d.ar.cmsm = "RUN" /\ e = "DATA")
  <2>1. Cmsm(d, e) = d
    BY <1>8 DEF Cmsm
  <2> QED BY <1>8, <2>1, SameDev DEF CmsmNext, SamePpm, SameCmio, SameCmwrr, SameCmpbe
<1> QED BY <1>6, <1>7, <1>8

CmioNext(st, e) ==
    CASE st = "IDLE" /\ e = "STARTUP" -> "STARTUP"
      [] st = "STARTUP" /\ e = "PRMEND" -> "WDATA"
      [] st = "WDATA" /\ e = "DATA" -> "DATA"
      [] OTHER -> st

LEMMA CmioMoves ==
    ASSUME NEW d \in DevType, NEW e \in Events
    PROVE  LET f == Cmio(d, e)
           IN  /\ KeptDev(d, f) /\ f.ar.cmio = CmioNext(d.ar.cmio, e)
               /\ SamePpm(d.ar, f.ar) /\ SameCmwrr(d.ar, f.ar)
               /\ SameCmsm(d.ar, f.ar) /\ SameCmpbe(d.ar, f.ar)
<1> DEFINE p == [c \in CRs |-> [d.ar.cpm[c] EXCEPT !.start = FALSE]]
           r1 == [d.ar EXCEPT !.cmio = "STARTUP", !.resched = FALSE, !.cpm = p]
           r2 == [d.ar EXCEPT !.cmio = "WDATA", !.resched = TRUE]
           r3 == [d.ar EXCEPT !.cmio = "DATA", !.resched = FALSE]
           P(r) == /\ r \in ArType /\ Kept(d.ar, r)
                   /\ SamePpm(d.ar, r) /\ SameCmwrr(d.ar, r)
                   /\ SameCmsm(d.ar, r) /\ SameCmpbe(d.ar, r)
           f == [d EXCEPT !.ar = r1]
           g == [d EXCEPT !.ar = r2, !.poll = Added(@)]
           h == [d EXCEPT !.ar = r3, !.poll = Removed(@)]
<1>1. d.ar \in ArType /\ d.poll \in TimerType /\ d.ar.cpm \in [CRs -> CpmType]
  BY DEF DevType, ArType
<1>2. /\ p \in [CRs -> CpmType]
      /\ \A c \in CRs : p[c].running = d.ar.cpm[c].running
  <2>1. \A c \in CRs : /\ [d.ar.cpm[c] EXCEPT !.start = FALSE] \in CpmType
                       /\ [d.ar.cpm[c] EXCEPT !.start = FALSE].running = d.ar.cpm[c].running
    BY <1>1 DEF CpmType
  <2> QED BY <2>1
<1>3. /\ f = [d EXCEPT !.ar.cmio = "STARTUP", !.ar.resched = FALSE,
                       !.ar.cpm = [c \in CRs |-> [@[c] EXCEPT !.start = FALSE]]]
      /\ g = [d EXCEPT !.ar.cmio = "WDATA", !.ar.resched = TRUE, !.poll = Added(@)]
      /\ h = [d EXCEPT !.ar.cmio = "DATA", !.ar.resched = FALSE, !.poll = Removed(@)]
  BY <1>1 DEF DevType, ArType
<1> HIDE DEF p
<1>4. P(r1) /\ r1.cmio = "STARTUP"
  BY <1>1, <1>2 DEF ArType, Kept, SamePpm, SameCmwrr, SameCmsm, SameCmpbe
<1>5. P(r2) /\ r2.cmio = "WDATA"
  BY <1>1 DEF ArType, Kept, SamePpm, SameCmwrr, SameCmsm, SameCmpbe
<1>6. P(r3) /\ r3.cmio = "DATA"
  BY <1>1 DEF ArType, Kept, SamePpm, SameCmwrr, SameCmsm, SameCmpbe
<1> HIDE DEF r1, r2, r3
<1>7. Added(d.poll) \in TimerType /\ Removed(d.poll) \in TimerType
  BY <1>1, TimerTypes
<1>8. /\ f \in DevType /\ f.sess = d.sess /\ f.ci = d.ci /\ f.map = d.map /\ f.ar = r1
      /\ g \in DevType /\ g.sess = d.sess /\ g.ci = d.ci /\ g.map = d.map /\ g.ar = r2
      /\ h \in DevType /\ h.sess = d.sess /\ h.ci = d.ci /\ h.map = d.map /\ h.ar = r3
  BY <1>4, <1>5, <1>6, <1>7 DEF DevType
<1> HIDE DEF f, g, h
<1>9. CASE d.ar.cmio = "IDLE" /\ e = "STARTUP"
  <2>1. Cmio(d, e) = f
    BY <1>3, <1>9 DEF Cmio
  <2> QED BY <1>4, <1>8, <1>9, <2>1 DEF CmioNext, KeptDev
<1>10. CASE d.ar.cmio = "STARTUP" /\ e = "PRMEND"
  <2>1. Cmio(d, e) = g
    BY <1>3, <1>10 DEF Cmio
  <2> QED BY <1>5, <1>8, <1>10, <2>1 DEF CmioNext, KeptDev
<1>11. CASE d.ar.cmio = "WDATA" /\ e = "DATA"
  <2>1. Cmio(d, e) = h
    BY <1>3, <1>11 DEF Cmio
  <2> QED BY <1>6, <1>8, <1>11, <2>1 DEF CmioNext, KeptDev
<1>12. CASE /\ ~(d.ar.cmio = "IDLE" /\ e = "STARTUP")
            /\ ~(d.ar.cmio = "STARTUP" /\ e = "PRMEND")
            /\ ~(d.ar.cmio = "WDATA" /\ e = "DATA")
  <2>1. Cmio(d, e) = d
    BY <1>12 DEF Cmio
  <2> QED BY <1>12, <2>1, SameDev DEF CmioNext, SamePpm, SameCmwrr, SameCmsm, SameCmpbe
<1> QED BY <1>9, <1>10, <1>11, <1>12

\* Each machine sees the AR as the others left it, but reads only its own
\* state and, pf_cmsu, that of pf_cmsu.
LEMMA StateIndMoves ==
    ASSUME NEW d \in DevType, NEW e \in Events
    PROVE  LET q == StateInd(d, e).ar
           IN  /\ KeptDev(d, StateInd(d, e))
               /\ q.ppm = IF d.ar.cmsu = "STARTUP" /\ e = "PRMEND" THEN "RUN" ELSE d.ar.ppm
               /\ q.cmio = CmioNext(d.ar.cmio, e) /\ q.cmwrr = CmwrrNext(d.ar.cmwrr, e)
               /\ q.cmsm = CmsmNext(d.ar.cmsm, e) /\ q.cmpbe = CmpbeNext(d.ar.cmpbe, e)
<1> DEFINE d1 == Cmsu(d, e)
           d2 == Cmio(d1, e)
           d3 == Cmwrr(d2, e)
           d4 == Cmsm(d3, e)
           d5 == Cmpbe(d4, e)
<1>1. /\ d1 \in DevType /\ KeptDev(d, d1)
      /\ d1.ar.ppm = IF d.ar.cmsu = "STARTUP" /\ e = "PRMEND" THEN "RUN" ELSE d.ar.ppm
      /\ SameCmio(d.ar, d1.ar) /\ SameCmwrr(d.ar, d1.ar)
      /\ SameCmsm(d.ar, d1.ar) /\ SameCmpbe(d.ar, d1.ar)
  BY CmsuMoves DEF KeptDev
<1> HIDE DEF d1
<1>2. /\ d2 \in DevType /\ KeptDev(d1, d2) /\ d2.ar.cmio = CmioNext(d1.ar.cmio, e)
      /\ SamePpm(d1.ar, d2.ar) /\ SameCmwrr(d1.ar, d2.ar)
      /\ SameCmsm(d1.ar, d2.ar) /\ SameCmpbe(d1.ar, d2.ar)
  BY <1>1, CmioMoves DEF KeptDev
<1> HIDE DEF d2
<1>3. /\ d3 \in DevType /\ KeptDev(d2, d3) /\ d3.ar.cmwrr = CmwrrNext(d2.ar.cmwrr, e)
      /\ SamePpm(d2.ar, d3.ar) /\ SameCmio(d2.ar, d3.ar)
      /\ SameCmsm(d2.ar, d3.ar) /\ SameCmpbe(d2.ar, d3.ar)
  BY <1>2, CmwrrMoves DEF KeptDev
<1> HIDE DEF d3
<1>4. /\ d4 \in DevType /\ KeptDev(d3, d4) /\ d4.ar.cmsm = CmsmNext(d3.ar.cmsm, e)
      /\ SamePpm(d3.ar, d4.ar) /\ SameCmio(d3.ar, d4.ar)
      /\ SameCmwrr(d3.ar, d4.ar) /\ SameCmpbe(d3.ar, d4.ar)
  BY <1>3, CmsmMoves DEF KeptDev
<1> HIDE DEF d4
<1>5. /\ d5 \in DevType /\ KeptDev(d4, d5) /\ d5.ar.cmpbe = CmpbeNext(d4.ar.cmpbe, e)
      /\ SamePpm(d4.ar, d5.ar) /\ SameCmio(d4.ar, d5.ar)
      /\ SameCmwrr(d4.ar, d5.ar) /\ SameCmsm(d4.ar, d5.ar)
  BY <1>4, CmpbeMoves DEF KeptDev
<1>6. StateInd(d, e) = d5
  BY DEF StateInd, d4, d3, d2, d1
<1> HIDE DEF d5
<1>7. KeptDev(d, d5)
  BY <1>1, <1>2, <1>3, <1>4, <1>5 DEF KeptDev, Kept
<1>8. /\ d5.ar.ppm = d1.ar.ppm
      /\ d5.ar.cmio = d2.ar.cmio /\ d1.ar.cmio = d.ar.cmio
      /\ d5.ar.cmwrr = d3.ar.cmwrr /\ d2.ar.cmwrr = d.ar.cmwrr
      /\ d5.ar.cmsm = d4.ar.cmsm /\ d3.ar.cmsm = d.ar.cmsm
      /\ d4.ar.cmpbe = d.ar.cmpbe
  BY <1>1, <1>2, <1>3, <1>4, <1>5 DEF SamePpm, SameCmio, SameCmwrr, SameCmsm, SameCmpbe
<1> QED BY <1>1, <1>2, <1>3, <1>4, <1>5, <1>6, <1>7, <1>8

-----------------------------------------------------------------------------
(***************************************************************************)
(* Connection implements Lifecycle.                                        *)
(***************************************************************************)
\* An AR that is not in use is cleared.
IdleAr(r) == ~r.in_use => r = NoAr

\* What a step may do to the AR: nothing that concerns its phase, end it,
\* create it, or take it one phase on.
Steady(r, q) ==
    q = r \/ (r.in_use /\ q.in_use /\ q.uuid = r.uuid /\ q.cmdev = r.cmdev)
Created(r, q) ==
    ~r.in_use /\ q.in_use /\ q.uuid \in Uuids /\ q.cmdev \in {"W_CIND", "W_PEIND"}
Onward == {<<"W_PEIND", "W_ARDY">>, <<"W_ARDY", "W_ARDYCNF">>, <<"W_ARDYCNF", "WDATA">>,
           <<"W_ARDYCNF", "DATA">>, <<"WDATA", "DATA">>}
Advanced(r, q) ==
    r.in_use /\ q.in_use /\ q.uuid = r.uuid /\ <<r.cmdev, q.cmdev>> \in Onward
Moved(r, q) == Steady(r, q) \/ q = NoAr \/ Created(r, q) \/ Advanced(r, q)

\* Each of these is a step of Lifecycle, or none.
LEMMA MovedAllowed ==
    ASSUME IdleAr(ar), Moved(ar, ar')
    PROVE  IdleAr(ar)' /\ [Promise!Next]_(Promise!vars)
<1>1. ar.cmdev # "POWER_ON" => ar.in_use
  BY DEF IdleAr, NoAr
<1>2. CASE Steady(ar, ar')
  <2>1. IdleAr(ar)'
    BY <1>2 DEF Steady, IdleAr
  <2>2. ar'.cmdev = ar.cmdev /\ ar'.uuid = ar.uuid
    BY <1>2 DEF Steady
  <2>3. UNCHANGED Promise!vars
    BY <2>2 DEF Promise!vars, Phase
  <2> QED BY <2>1, <2>3
<1>3. CASE ar' = NoAr
  <2>1. IdleAr(ar)' /\ Phase' = "closed"
    BY <1>3 DEF IdleAr, NoAr, Phase
  <2>2. CASE Phase = "closed"
    BY <2>1, <2>2 DEF Promise!vars
  <2>3. CASE Phase # "closed"
    <3>1. Promise!Close
      BY <2>1, <2>3 DEF Promise!Close
    <3> QED BY <2>1, <3>1 DEF Promise!Next
  <2> QED BY <2>1, <2>2, <2>3
<1>4. CASE Created(ar, ar')
  <2>1. IdleAr(ar)' /\ Phase = "closed"
    BY <1>4 DEF Created, IdleAr, NoAr, Phase
  <2>2. CASE ar'.cmdev = "W_CIND"
    <3>1. Phase' = "closed"
      BY <2>2 DEF Phase
    <3> QED BY <2>1, <3>1 DEF Promise!vars
  <2>3. CASE ar'.cmdev = "W_PEIND"
    <3>1. Phase' = "opened"
      BY <2>3 DEF Phase
    <3>2. Promise!Open(ar'.uuid)
      BY <2>1, <3>1 DEF Promise!Open
    <3> QED BY <1>4, <2>1, <3>2 DEF Promise!Next, Created
  <2> QED BY <1>4, <2>1, <2>2, <2>3 DEF Created
<1>5. CASE Advanced(ar, ar')
  <2>1. IdleAr(ar)' /\ ar'.uuid = ar.uuid
    BY <1>5 DEF Advanced, IdleAr
  <2>2. <<ar.cmdev, ar'.cmdev>> \in Onward
    BY <1>5 DEF Advanced
  <2>3. /\ <<Phase, Phase'>> \in {<<"opened", "parameterised">>, <<"parameterised", "ready">>,
                                   <<"ready", "confirmed">>, <<"ready", "data">>,
                                   <<"confirmed", "data">>}
    BY <2>2 DEF Onward, Phase
  <2>4. Promise!PrmEnd \/ Promise!ApplicationReady \/ Promise!Confirmed \/ Promise!DataEstablished
    BY <2>1, <2>3 DEF Promise!PrmEnd, Promise!ApplicationReady, Promise!Confirmed,
                      Promise!DataEstablished, Promise!Advance
  <2> QED BY <2>1, <2>4 DEF Promise!Next
<1> QED BY <1>2, <1>3, <1>4, <1>5 DEF Moved

\* The functions a handler is composed of.
LEMMA KillAr == ASSUME NEW d, Sound(d), NEW s PROVE Kill(d, s).ar = d.ar
BY DEF Kill, Sound, DevType

LEMMA AbortAr ==
    ASSUME NEW d, Sound(d), NEW r \in S \cup {NoSess}
    PROVE  Abort(d, r) \in DevType /\ Abort(d, r).ar = NoAr
BY SoundAborts, AbortFacts

\* An event leaves the phase alone; the handler then sets it.
LEMMA StateIndAr ==
    ASSUME NEW d \in DevType, NEW e \in Events, NEW st,
           st \in {"POWER_ON", "W_CIND", "W_PEIND", "W_ARDY", "W_ARDYCNF", "WDATA", "DATA"}
    PROVE  LET h == StateInd(d, e)
               f == [h EXCEPT !.ar.cmdev = st]
           IN  /\ h.ar.in_use = d.ar.in_use /\ h.ar.uuid = d.ar.uuid
               /\ h.ar.cmdev = d.ar.cmdev
               /\ f.ar.in_use = d.ar.in_use /\ f.ar.uuid = d.ar.uuid /\ f.ar.cmdev = st
<1> DEFINE h == StateInd(d, e)
           f == [h EXCEPT !.ar.cmdev = st]
<1>1. h \in DevType /\ Kept(d.ar, h.ar)
  BY StateIndMoves DEF KeptDev
<1> HIDE DEF h
<1>2. f.ar.in_use = h.ar.in_use /\ f.ar.uuid = h.ar.uuid /\ f.ar.cmdev = st
  BY <1>1 DEF DevType, ArType
<1> QED BY <1>1, <1>2 DEF Kept, h

LEMMA StateIndStays ==
    ASSUME NEW d \in DevType, NEW e \in Events
    PROVE  LET h == StateInd(d, e)
           IN  /\ h \in DevType /\ h.ar.in_use = d.ar.in_use /\ h.ar.uuid = d.ar.uuid
               /\ h.ar.cmdev = d.ar.cmdev
BY StateIndMoves DEF KeptDev, Kept

LEMMA ConnectMoves ==
    ASSUME Sound(Dev), IdleAr(ar), ConnectStep
    PROVE  Moved(ar, ar')
<1> SUFFICES ASSUME NEW p \in Uses,
                    \/ \E valid \in BOOLEAN : ConnectInUse(p[1], p[2], valid)
                    \/ ConnectRefused(p[1])
                    \/ ConnectUnanswered(p[1], p[2])
                    \/ \E legacy \in BOOLEAN : ConnectAccepted(p[1], p[2], legacy)
                    \/ \E done, half \in SUBSET CRs : ConnectFails(p[1], done, half)
             PROVE  Moved(ar, ar')
  BY DEF ConnectStep
<1> DEFINE a == p[1]
           u == p[2]
           s == SessionFor(a)
           d == Received(a, s)
<1>1. a \in Activities /\ u \in Uuids /\ Arrives(a)
  BY ConnectionAssumption DEF ConnectInUse, ConnectRefused, ConnectUnanswered,
       ConnectAccepted, ConnectFails
<1>2. s \in S
  BY <1>1, SessionForAny
<1> HIDE DEF a, u, s
<1>3. Sound(d) /\ d.ar = ar /\ d \in DevType
  BY <1>1, <1>2, ReceivedFacts DEF Sound
<1>4. CASE \E valid \in BOOLEAN : ConnectInUse(p[1], p[2], valid)
  <2>1. PICK valid \in BOOLEAN :
            Becomes(Kill(IF valid /\ Known(u) THEN Abort(d, NoSess) ELSE d, s))
    BY <1>4 DEF ConnectInUse, a, u, s
  <2> HIDE DEF d
  <2>2. Sound(Abort(d, NoSess)) /\ Abort(d, NoSess).ar = NoAr
    BY <1>3, SoundAborts, AbortAr
  <2>3. ar' = NoAr \/ ar' = ar
    BY <1>3, <2>1, <2>2, KillAr DEF Becomes
  <2> QED BY <2>3 DEF Moved, Steady
<1>5. CASE ConnectRefused(p[1])
  <2>1. Becomes(Kill(d, s))
    BY <1>5 DEF ConnectRefused, a, s
  <2> HIDE DEF d
  <2>2. ar' = ar
    BY <1>3, <2>1, KillAr DEF Becomes
  <2> QED BY <2>2 DEF Moved, Steady
<1>6. CASE ConnectUnanswered(p[1], p[2])
  <2> DEFINE n == [NewAr(u, s, FALSE) EXCEPT !.cmdev = "W_CIND"]
             f == [d EXCEPT !.ar = n, !.sess[s].ar = TRUE]
  <2>1. ~ar.in_use /\ Becomes(f)
    BY <1>6 DEF ConnectUnanswered, a, u, s
  <2>2. n.in_use /\ n.uuid = u /\ n.cmdev = "W_CIND"
    BY DEF NewAr, NoAr
  <2> HIDE DEF n, d
  <2>3. ar' = n
    BY <1>3, <2>1 DEF Becomes, DevType
  <2> QED BY <1>1, <2>1, <2>2, <2>3 DEF Moved, Created
<1>7. CASE \E legacy \in BOOLEAN : ConnectAccepted(p[1], p[2], legacy)
  <2>1. PICK legacy \in BOOLEAN : ConnectAccepted(a, u, legacy)
    BY <1>7 DEF a, u
  <2> DEFINE n == NewAr(u, s, legacy)
             f == [d EXCEPT !.ar = n, !.sess[s].ar = TRUE]
             b == Activate(f, CRs)
             g == StartReq(f)
             h == [StateInd(g, "STARTUP") EXCEPT !.ar.cmdev = "W_PEIND"]
  <2>2. ~ar.in_use /\ Becomes(h)
    BY <2>1 DEF ConnectAccepted, s
  <2>3. /\ n \in ArType /\ n.in_use /\ n.sess = s /\ n.cmio = "IDLE" /\ n.uuid = u
        /\ n.cmdev = "POWER_ON"
    BY <1>1, <1>2, ClearedTypes DEF NewAr, NoAr, ArType
  <2> HIDE DEF n
  <2>4. f \in DevType
    BY <1>1, <1>2, <2>2, <2>3, NewArFacts DEF Sound
  <2> HIDE DEF d
  <2>5. f.ar = n
    BY <1>3 DEF DevType
  <2> HIDE DEF f
  <2>6. b \in DevType /\ b.ar = [n EXCEPT !.cpm = b.ar.cpm]
    BY <2>4, <2>5, ActivateTypes
  <2>7. g = [b EXCEPT !.ar.cmsu = "STARTUP"]
    BY DEF StartReq
  <2> HIDE DEF b, g
  <2>8. g \in DevType /\ g.ar.in_use /\ g.ar.uuid = u
    BY <2>3, <2>6, <2>7 DEF DevType, ArType
  <2>9. h.ar.in_use /\ h.ar.uuid = u /\ h.ar.cmdev = "W_PEIND"
    BY <2>8, StateIndAr DEF Events
  <2> HIDE DEF h
  <2> QED BY <1>1, <2>2, <2>9 DEF Moved, Created, Becomes
<1>8. CASE \E done, half \in SUBSET CRs : ConnectFails(p[1], done, half)
  <2>1. PICK done \in SUBSET CRs, half \in SUBSET CRs : ConnectFails(a, done, half)
    BY <1>8 DEF a
  <2> DEFINE b == Activate(d, done)
             g == ClearAr(b)
             m == [c \in CRs |-> g.map[c] + Count(c \in half)]
             f == [g EXCEPT !.map = m]
  <2>2. Becomes(Kill(f, s))
    BY <2>1 DEF ConnectFails, s
  <2> HIDE DEF d
  <2>3. b \in DevType
    BY <1>3, ActivateTypes
  <2> HIDE DEF b
  <2>4. g \in DevType /\ g.ar = NoAr
    BY <2>3, ClearArFacts
  <2> HIDE DEF g, m
  <2>5. Kill(f, s).ar = NoAr
    BY <2>4 DEF Kill, DevType
  <2> QED BY <2>2, <2>5 DEF Moved, Becomes
<1> QED BY <1>4, <1>5, <1>6, <1>7, <1>8

\* A request whose handling leaves the AR alone or ends it.
LEMMA PrmEndMoves ==
    ASSUME NEW d, Sound(d), IdleAr(d.ar), NEW s \in S, NEW ok \in BOOLEAN
    PROVE  Moved(d.ar, PrmEnd(d, s, ok).ar)
<1> DEFINE e == [d EXCEPT !.ar.cmdev = "W_ARDY"]
           h == StateInd(e, "PRMEND")
<1>1. d \in DevType /\ d.ar \in ArType
  BY DEF Sound, DevType
<1>2. /\ e \in DevType /\ e.ar.in_use = d.ar.in_use /\ e.ar.uuid = d.ar.uuid
      /\ e.ar.cmdev = "W_ARDY"
  BY <1>1 DEF DevType, ArType
<1>3. CASE d.ar.cmdev # "W_PEIND"
  BY <1>3 DEF PrmEnd, Moved, Steady
<1>4. CASE d.ar.cmdev = "W_PEIND" /\ ~ok
  BY <1>4, AbortAr DEF PrmEnd, Moved
<1>5. CASE d.ar.cmdev = "W_PEIND" /\ ok
  <2>1. PrmEnd(d, s, ok) = e \/ PrmEnd(d, s, ok) = h
    BY <1>5 DEF PrmEnd
  <2> HIDE DEF e
  <2>2. /\ h.ar.in_use = d.ar.in_use /\ h.ar.uuid = d.ar.uuid /\ h.ar.cmdev = "W_ARDY"
    <3>1. "PRMEND" \in Events /\ e \in DevType
      BY <1>2 DEF Events
    <3>2. h.ar.in_use = e.ar.in_use /\ h.ar.uuid = e.ar.uuid /\ h.ar.cmdev = e.ar.cmdev
      BY <3>1, StateIndStays
    <3> QED BY <1>2, <3>2
  <2> HIDE DEF h
  <2>3. d.ar.in_use
    BY <1>5 DEF IdleAr, NoAr
  <2> QED BY <1>2, <1>5, <2>1, <2>2, <2>3 DEF Moved, Advanced, Onward
<1> QED BY <1>3, <1>4, <1>5

LEMMA FaultMoves ==
    ASSUME Sound(Dev), NEW a \in Activities \cup {Own}, Fault(a)
    PROVE  Moved(ar, ar')
<1> DEFINE s == SessionFor(a)
           d == Received(a, s)
           e == IF d.sess[s].ar THEN Abort(d, NoSess) ELSE d
<1>1. Arrives(a) /\ Becomes(Kill(e, s))
  BY DEF Fault
<1>2. s \in S
  BY <1>1, SessionForAny
<1> HIDE DEF s
<1>3. Sound(d) /\ d.ar = ar
  BY <1>2, ReceivedFacts
<1> HIDE DEF d
<1>4. Sound(e) /\ (e.ar = NoAr \/ e.ar = ar)
  BY <1>3, SoundAborts, AbortAr
<1> HIDE DEF e
<1>5. ar' = NoAr \/ ar' = ar
  BY <1>1, <1>4, KillAr DEF Becomes
<1> QED BY <1>5 DEF Moved, Steady

LEMMA RequestMoves ==
    ASSUME Sound(Dev), IdleAr(ar), RequestStep
    PROVE  Moved(ar, ar')
<1> DEFINE s(a) == SessionFor(a)
           d(a) == Received(a, s(a))
<1>1. ASSUME NEW a \in Activities, Arrives(a)
      PROVE  s(a) \in S /\ Sound(d(a)) /\ d(a).ar = ar /\ Kill(d(a), s(a)).ar = ar
  BY <1>1, SessionForAny, ReceivedFacts, KillAr
<1>2. \A p \in Uses : p[1] \in Activities /\ p[2] \in Uuids
  BY ConnectionAssumption
<1>3. ASSUME ar' = ar \/ ar' = NoAr PROVE Moved(ar, ar')
  BY <1>3 DEF Moved, Steady
<1>4. ASSUME NEW p \in Uses, NEW q \in Seqs, NEW ok \in BOOLEAN,
             DControl(p[1], p[2], q, ok)
      PROVE  Moved(ar, ar')
  <2> DEFINE a == p[1]
             e == [d(a) EXCEPT !.sess[s(a)].dseq = q]
  <2>1. /\ Arrives(a)
        /\ Becomes(d(a)) \/ Becomes(PrmEnd(e, s(a), ok)) \/ Becomes(Kill(e, s(a)))
    BY <1>4 DEF DControl
  <2>2. a \in Activities
    BY <1>2
  <2> HIDE DEF a
  <2>3. s(a) \in S /\ Sound(d(a)) /\ d(a).ar = ar /\ d(a) \in DevType
    BY <1>1, <2>1, <2>2 DEF Sound
  <2> HIDE DEF s, d
  <2>4. Sound(e) /\ e.ar = ar
    BY <2>3, SeqSound DEF DevType
  <2> HIDE DEF e
  <2>5. Kill(e, s(a)).ar = ar /\ Moved(ar, PrmEnd(e, s(a), ok).ar)
    BY <2>3, <2>4, KillAr, PrmEndMoves
  <2> QED BY <1>3, <2>1, <2>3, <2>5 DEF Becomes
<1>5. ASSUME NEW p \in Uses, ReleaseInd(p[1], p[2]) PROVE Moved(ar, ar')
  <2> DEFINE a == p[1]
             e == IF Known(p[2]) /\ ar.cmdev \in Releasable THEN Abort(d(a), s(a)) ELSE d(a)
  <2>1. Arrives(a) /\ Becomes(Kill(e, s(a)))
    BY <1>5 DEF ReleaseInd
  <2>2. a \in Activities
    BY <1>2
  <2> HIDE DEF a
  <2>3. s(a) \in S /\ Sound(d(a)) /\ d(a).ar = ar /\ d(a) \in DevType
    BY <1>1, <2>1, <2>2 DEF Sound
  <2> HIDE DEF s, d
  <2>4. e \in DevType /\ (e.ar = NoAr \/ e.ar = ar)
    BY <2>3, AbortAr
  <2> HIDE DEF e
  <2>5. Kill(e, s(a)).ar = e.ar
    BY <2>4 DEF Kill, DevType
  <2> QED BY <1>3, <2>1, <2>4, <2>5 DEF Becomes
<1>6. ASSUME NEW p \in Uses, Read(p[1]) \/ Write(p[1], p[2]) PROVE Moved(ar, ar')
  <2>1. /\ Arrives(p[1]) /\ p[1] \in Activities
        /\ Becomes(d(p[1])) \/ Becomes(Kill(d(p[1]), s(p[1])))
    BY <1>2, <1>6 DEF Read, Write
  <2> HIDE DEF s, d
  <2> QED BY <1>1, <1>3, <2>1 DEF Becomes
<1>7. ASSUME NEW a \in Implicit, ReadImplicit(a) PROVE Moved(ar, ar')
  <2>1. /\ Arrives(a) /\ a \in Activities
        /\ Becomes(Kill(d(a), s(a)))
    BY <1>7, ConnectionAssumption DEF ReadImplicit
  <2> HIDE DEF s, d
  <2> QED BY <1>1, <1>3, <2>1 DEF Becomes
<1>8. ASSUME NEW p \in Uses, Fault(p[1]) PROVE Moved(ar, ar')
  BY <1>2, <1>8, FaultMoves
<1> QED BY <1>4, <1>5, <1>6, <1>7, <1>8 DEF RequestStep

LEMMA AnswerMoves ==
    ASSUME Sound(Dev), IdleAr(ar), AnswerStep
    PROVE  Moved(ar, ar')
<1>1. ASSUME NEW s \in S, NEW wellFormed \in BOOLEAN, CControlCnf(s, wellFormed)
      PROVE  Moved(ar, ar')
  <2> DEFINE r == Received(Own, s)
             d == [r EXCEPT !.ar.alarm = TRUE]
             f == [StateInd(d, "DATA") EXCEPT !.ar.cmdev = "DATA"]
             g == [d EXCEPT !.ar.cmdev = "WDATA"]
  <2>1. \/ Becomes(r)
        \/ ar.cmdev = "W_ARDYCNF" /\ (Becomes(Kill(f, s)) \/ Becomes(Kill(g, s)))
    BY <1>1 DEF CControlCnf, Confirm
  <2>2. r \in DevType /\ r.ar = ar /\ ar \in ArType
    BY ReceivedFacts DEF Sound, DevType
  <2> HIDE DEF r
  <2>3. d \in DevType /\ d.ar.in_use = ar.in_use /\ d.ar.uuid = ar.uuid
    BY <2>2 DEF DevType, ArType
  <2>4. StateInd(d, "DATA") \in DevType
    BY <2>3, StateIndMoves DEF KeptDev, Events
  <2> HIDE DEF d
  <2>5. f.ar.in_use = ar.in_use /\ f.ar.uuid = ar.uuid /\ f.ar.cmdev = "DATA"
    BY <2>3, StateIndAr DEF Events
  <2>6. g.ar.in_use = ar.in_use /\ g.ar.uuid = ar.uuid /\ g.ar.cmdev = "WDATA"
    BY <2>3 DEF DevType, ArType
  <2>7. Kill(f, s).ar = f.ar /\ Kill(g, s).ar = g.ar
    BY <2>3, <2>4 DEF Kill, DevType
  <2> HIDE DEF f, g
  <2>8. CASE Becomes(r)
    BY <2>2, <2>8 DEF Becomes, Moved, Steady
  <2>9. CASE ar.cmdev = "W_ARDYCNF" /\ (Becomes(Kill(f, s)) \/ Becomes(Kill(g, s)))
    <3>1. ar.in_use
      BY <2>9 DEF IdleAr, NoAr
    <3>2. ar' = f.ar \/ ar' = g.ar
      BY <2>7, <2>9 DEF Becomes
    <3> QED BY <2>5, <2>6, <2>9, <3>1, <3>2 DEF Moved, Advanced, Onward
  <2> QED BY <2>1, <2>8, <2>9
<1>2. ASSUME Fault(Own) PROVE Moved(ar, ar')
  BY <1>2, FaultMoves
<1> QED BY <1>1, <1>2 DEF AnswerStep

LEMMA ApplicationMoves ==
    ASSUME Sound(Dev), ApplicationStep
    PROVE  Moved(ar, ar')
<1>1. ASSUME LocalAbort PROVE Moved(ar, ar')
  BY <1>1, AbortAr DEF LocalAbort, Becomes, Moved
<1>2. ASSUME NEW sendOk \in BOOLEAN, AppReady(sendOk) PROVE Moved(ar, ar')
  <2> DEFINE d == StateInd(Dev, "APPLRDY")
             k == First(FreeSessions)
             n == [NoSession EXCEPT !.in_use = TRUE, !.act = Own, !.from_me = TRUE,
                                    !.ar = TRUE, !.left = Resends - 1, !.timer = sendOk]
             f == [[d EXCEPT !.sess[k] = n] EXCEPT !.ar.cmdev = "W_ARDYCNF"]
  <2>1. /\ ar.in_use /\ ar.cmdev = "W_ARDY"
        /\ Becomes(d) \/ Becomes(f)
    BY <1>2 DEF AppReady, CControlReq
  <2>2. Dev \in DevType /\ Dev.ar = ar
    BY DEF Sound, Dev
  <2>3. /\ d \in DevType /\ d.ar.in_use = ar.in_use /\ d.ar.uuid = ar.uuid
        /\ d.ar.cmdev = ar.cmdev
    BY <2>2, StateIndMoves DEF Events, KeptDev, Kept
  <2> HIDE DEF d, n, k
  <2>4. f.ar.in_use = ar.in_use /\ f.ar.uuid = ar.uuid /\ f.ar.cmdev = "W_ARDYCNF"
    BY <2>3 DEF DevType, ArType
  <2> HIDE DEF f
  <2> QED BY <2>1, <2>3, <2>4 DEF Becomes, Moved, Steady, Advanced, Onward
<1> QED BY <1>1, <1>2 DEF ApplicationStep

\* The timers.  The poll takes an AR on only while it waits for data.
LEMMA PollMoves ==
    ASSUME Sound(Dev), IdleAr(ar), PollExpired
    PROVE  Moved(ar, ar')
<1>1. PICK t \in Expiring(poll) :
        LET d == [Dev EXCEPT !.poll = t]
            i == CmioInfoInd(d, \A c \in CRs : ar.cpm[c].start)
        IN  Becomes(IF ar.cmio = "WDATA" /\ ar.resched
                    THEN [i EXCEPT !.poll = Added(@)]
                    ELSE [d EXCEPT !.poll = Orphan(@), !.ar.resched = FALSE])
  BY DEF PollExpired
<1> DEFINE possible == \A c \in CRs : ar.cpm[c].start
           d == [Dev EXCEPT !.poll = t]
           i == CmioInfoInd(d, possible)
           f == [i EXCEPT !.poll = Added(@)]
           g == [d EXCEPT !.poll = Orphan(@), !.ar.resched = FALSE]
           x(b) == [d EXCEPT !.ar.ready = b]
           h == StateInd(x(TRUE), "DATA")
           y == [h EXCEPT !.ar.cmdev = "DATA"]
<1>2. Dev \in DevType /\ Dev.ar = ar /\ poll \in TimerType /\ ar \in ArType
  BY DEF Sound, Dev, DevType
<1>3. t \in TimerType /\ possible \in BOOLEAN
  BY <1>2, ExpiringTypes
<1>4. d \in DevType /\ d.ar = ar
  BY <1>2, <1>3 DEF DevType
<1>5. \/ ar.cmio = "WDATA" /\ Becomes(f)
      \/ Becomes(g)
  BY <1>1
<1> HIDE DEF possible, d
<1>6. \/ i = x(possible) \/ i = x(FALSE) \/ i = d
      \/ i = y /\ ar.cmdev = "WDATA"
  BY <1>3, <1>4 DEF CmioInfoInd
<1>7. ASSUME NEW b \in BOOLEAN
      PROVE  /\ x(b) \in DevType /\ x(b).ar.in_use = ar.in_use /\ x(b).ar.uuid = ar.uuid
             /\ x(b).ar.cmdev = ar.cmdev
  BY <1>2, <1>4 DEF DevType, ArType
<1> HIDE DEF x
<1>8. "DATA" \in Events
  BY DEF Events
<1>9. h \in DevType /\ h.ar.in_use = ar.in_use /\ h.ar.uuid = ar.uuid
  BY <1>7, <1>8, StateIndStays
<1> HIDE DEF h
<1>10. y \in DevType /\ y.ar.in_use = ar.in_use /\ y.ar.uuid = ar.uuid /\ y.ar.cmdev = "DATA"
  <2>1. y \in DevType /\ y.ar = [h.ar EXCEPT !.cmdev = "DATA"] /\ h.ar \in ArType
    BY <1>9 DEF DevType, ArType
  <2> QED BY <1>9, <2>1 DEF ArType
<1> HIDE DEF y
<1>11. i \in DevType /\ i.ar.in_use = ar.in_use /\ i.ar.uuid = ar.uuid
       /\ (i.ar.cmdev = ar.cmdev \/ (ar.cmdev = "WDATA" /\ i.ar.cmdev = "DATA"))
  <2>1. CASE i = x(possible)
    BY <1>3, <1>7, <2>1
  <2>2. CASE i = x(FALSE)
    BY <1>7, <2>2
  <2>3. CASE i = d
    BY <1>4, <2>3
  <2>4. CASE i = y /\ ar.cmdev = "WDATA"
    BY <1>8, <1>10, <2>4
  <2> QED BY <1>6, <2>1, <2>2, <2>3, <2>4
<1> HIDE DEF i
<1>12. CASE ar.cmio = "WDATA" /\ Becomes(f)
  <2>1. ar.in_use
    BY <1>12 DEF IdleAr, NoAr
  <2>2. ar' = i.ar
    BY <1>11, <1>12 DEF Becomes, DevType
  <2> QED BY <1>11, <2>1, <2>2 DEF Moved, Steady, Advanced, Onward
<1>13. CASE Becomes(g)
  <2>1. ar' = [ar EXCEPT !.resched = FALSE]
    BY <1>4, <1>13 DEF Becomes, DevType
  <2>2. CASE ar.in_use
    BY <1>2, <2>1, <2>2 DEF Moved, Steady, ArType
  <2>3. CASE ~ar.in_use
    <3>1. ar = NoAr /\ NoAr.resched = FALSE
      BY <2>3 DEF IdleAr, NoAr
    <3>2. [ar EXCEPT !.resched = ar.resched] = ar
      BY <1>2 DEF ArType
    <3>3. ar' = NoAr
      BY <2>1, <3>1, <3>2
    <3> QED BY <3>3 DEF Moved
  <2> QED BY <2>2, <2>3
<1> QED BY <1>5, <1>12, <1>13

\* A change of the consumers alone is no change of phase.
LEMMA CpmSteady ==
    ASSUME NEW r \in ArType, NEW p, r.in_use
    PROVE  Moved(r, [r EXCEPT !.cpm = p])
BY DEF Moved, Steady, ArType

LEMMA CiMoves ==
    ASSUME Sound(Dev), IdleAr(ar), NEW c \in CRs, CiExpired(c)
    PROVE  Moved(ar, ar')
<1>1. PICK t \in Expiring(ci[c]) :
        LET d == [Dev EXCEPT !.ci[c] = Orphan(t)]
            e == [d EXCEPT !.ci[c] = Added(@)]
        IN  Becomes(
              IF ~ar.cpm[c].running THEN d
              ELSE IF ar.cpm[c].state # "RUN" THEN e
              ELSE IF ar.cpm[c].dht < DataHold THEN [e EXCEPT !.ar.cpm[c].dht = @ + 1]
              ELSE CpmStopped(d, c))
  BY DEF CiExpired
<1> DEFINE d == [Dev EXCEPT !.ci[c] = Orphan(t)]
           e == [d EXCEPT !.ci[c] = Added(@)]
           f == [e EXCEPT !.ar.cpm[c].dht = @ + 1]
           x(v) == [d EXCEPT !.ar.cpm[c] = v]
           w == [CpmOff EXCEPT !.start = d.ar.cpm[c].start]
<1>2. /\ Dev \in DevType /\ Dev.ar = ar /\ Dev.ci = ci
      /\ ci \in [CRs -> TimerType] /\ ar \in ArType /\ ar.cpm \in [CRs -> CpmType]
  BY DEF Sound, Dev, DevType, ArType
<1>3. Sound(d)
  <2>1. t \in TimerType /\ Orphan(t) \in TimerType
    BY <1>2, ExpiringTypes, TimerTypes
  <2>2. /\ d \in DevType /\ d.ar = ar /\ d.sess = Dev.sess /\ d.monitor = Dev.monitor
        /\ d.poll = Dev.poll
    BY <1>2, <2>1 DEF DevType
  <2>3. ar = [ar EXCEPT !.cpm = ar.cpm]
    BY <1>2 DEF ArType
  <2> HIDE DEF d
  <2> QED BY <1>2, <2>2, <2>3, ConsumersSound
<1>4. d \in DevType /\ d.ar = ar
  BY <1>2, <1>3 DEF Sound, DevType
<1>5. \/ Becomes(d) \/ Becomes(e)
      \/ ar.cpm[c].running /\ (Becomes(f) \/ Becomes(CpmStopped(d, c)))
  BY <1>1
<1> HIDE DEF d
<1>6. e.ar = ar
  BY <1>4 DEF DevType
<1>7. \E p : f.ar = [ar EXCEPT !.cpm = p]
  BY <1>4 DEF DevType, ArType
<1> HIDE DEF e, f
<1>8. \A v : \E p : x(v).ar = [ar EXCEPT !.cpm = p]
  BY <1>4 DEF DevType, ArType
<1>9. ASSUME ar.cpm[c].running PROVE ar.in_use
  BY <1>9 DEF IdleAr, NoAr, CpmOff
<1>10. \/ CpmStopped(d, c) = Abort(d, NoSess)
       \/ CpmStopped(d, c) = x(CpmOff)
       \/ CpmStopped(d, c) = x(w)
  BY DEF CpmStopped
<1> HIDE DEF x, w
<1>11. CASE ar.cpm[c].running /\ Becomes(f)
  <2>1. PICK p : f.ar = [ar EXCEPT !.cpm = p]
    BY <1>7
  <2>2. ar' = [ar EXCEPT !.cpm = p] /\ ar.in_use
    BY <1>9, <1>11, <2>1 DEF Becomes
  <2> QED BY <1>2, <2>2, CpmSteady
<1>12. CASE ar.cpm[c].running /\ Becomes(CpmStopped(d, c))
  <2>1. ar' = CpmStopped(d, c).ar
    BY <1>12 DEF Becomes
  <2>2. CASE CpmStopped(d, c) = Abort(d, NoSess)
    BY <1>3, <2>1, <2>2, AbortAr DEF Moved
  <2>3. CASE CpmStopped(d, c) = x(CpmOff) \/ CpmStopped(d, c) = x(w)
    <3>1. PICK p : CpmStopped(d, c).ar = [ar EXCEPT !.cpm = p]
      BY <1>8, <2>3
    <3>2. ar' = [ar EXCEPT !.cpm = p] /\ ar.in_use
      BY <1>9, <1>12, <2>1, <3>1
    <3> QED BY <1>2, <3>2, CpmSteady
  <2> QED BY <1>10, <2>2, <2>3
<1>13. CASE Becomes(d) \/ Becomes(e)
  BY <1>4, <1>6, <1>13 DEF Becomes, Moved, Steady
<1> QED BY <1>5, <1>11, <1>12, <1>13

LEMMA TimerMoves ==
    ASSUME Sound(Dev), IdleAr(ar), TimerStep
    PROVE  Moved(ar, ar')
<1>1. Dev \in DevType /\ Dev.ar = ar /\ Dev.sess = sess
  BY DEF Sound, Dev
<1>2. ASSUME CmsmTimeout PROVE Moved(ar, ar')
  <2> DEFINE d == [Dev EXCEPT !.monitor = FALSE]
  <2>1. d \in DevType /\ d.ar = ar
    BY <1>1 DEF DevType
  <2>2. Becomes(Abort(d, NoSess)) \/ Becomes(d)
    BY <1>2 DEF CmsmTimeout
  <2>3. SessionsDev(d) /\ ~d.monitor
    BY <1>1 DEF Sound, SessionsDev, PointsToAr, OwnRequest, DevType
  <2> HIDE DEF d
  <2>4. Abort(d, NoSess).ar = NoAr
    BY <2>1, <2>3, AbortFacts
  <2> QED BY <2>1, <2>2, <2>4 DEF Becomes, Moved, Steady
<1>3. ASSUME NEW s \in S, NEW sendOk \in BOOLEAN, ResendExpired(s, sendOk)
      PROVE  Moved(ar, ar')
  <2> DEFINE n == [sess[s] EXCEPT !.timer = FALSE]
             g == [Dev EXCEPT !.sess[s].timer = FALSE]
             f == [Dev EXCEPT !.sess[s].left = @ - 1, !.sess[s].timer = sendOk]
  <2>1. Becomes(f) \/ Becomes(Abort(g, NoSess))
    BY <1>3 DEF ResendExpired
  <2>2. f.ar = ar
    BY <1>1 DEF DevType
  <2>3. /\ g \in DevType /\ g.ar = ar /\ g.monitor = Dev.monitor
        /\ \A q \in S : /\ g.sess[q].ar = sess[q].ar /\ g.sess[q].in_use = sess[q].in_use
                        /\ g.sess[q].from_me = sess[q].from_me
                        /\ g.sess[q].timer => sess[q].timer
    <3>1. sess \in [S -> SessionType] /\ sess[s] \in SessionType
      BY <1>1 DEF DevType
    <3>2. /\ n \in SessionType /\ n.ar = sess[s].ar /\ n.in_use = sess[s].in_use
          /\ n.from_me = sess[s].from_me /\ ~n.timer
      BY <3>1 DEF SessionType
    <3>3. g = [Dev EXCEPT !.sess = [sess EXCEPT ![s] = n]]
      BY <1>1 DEF DevType
    <3> HIDE DEF n, g
    <3>4. /\ g \in DevType /\ g.ar = ar /\ g.monitor = Dev.monitor
          /\ g.sess = [sess EXCEPT ![s] = n]
      BY <1>1, <3>1, <3>2, <3>3 DEF DevType
    <3> QED BY <3>1, <3>2, <3>4
  <2> HIDE DEF f, g
  <2>4. \A q \in S : OwnRequest(g, q) <=> OwnRequest(Dev, q)
    BY <1>1, <2>3 DEF OwnRequest
  <2>5. \A q \in S : PointsToAr(g, q) /\ (g.sess[q].timer => OwnRequest(g, q))
    BY <1>1, <2>3, <2>4 DEF Sound, SessionsDev, PointsToAr
  <2>6. SessionsDev(g)
    BY <1>1, <2>3, <2>4, <2>5 DEF Sound, SessionsDev
  <2>7. g.monitor => g.ar.cmsm = "RUN"
    BY <1>1, <2>3 DEF Sound, SupervisedDev
  <2>8. Abort(g, NoSess).ar = NoAr
    BY <2>3, <2>6, <2>7, AbortFacts
  <2> QED BY <2>1, <2>2, <2>8 DEF Becomes, Moved, Steady
<1> QED BY <1>2, <1>3, PollMoves, CiMoves DEF TimerStep

\* A received frame touches consumers only, and only of an AR that is in use.
LEMMA EthernetMoves ==
    ASSUME Sound(Dev), EthernetStep
    PROVE  Moved(ar, ar')
<1>1. ar \in ArType
  BY DEF Sound, Dev, DevType
<1>2. ASSUME NEW c \in CRs, FrameStart(c) PROVE ar' = ar
  BY <1>2 DEF FrameStart, NullAr
<1>3. ASSUME FrameData PROVE Moved(ar, ar')
  <2>1. \/ ar' = ar
        \/ ar.in_use /\ \E p : ar' = [ar EXCEPT !.cpm = p]
    BY <1>1, <1>3 DEF FrameData, NullAr, ArType
  <2> QED BY <1>1, <2>1, CpmSteady DEF Moved, Steady
<1>4. ASSUME FrameEnd PROVE Moved(ar, ar')
  <2>1. \/ ar' = ar
        \/ ar.in_use /\ \E p : ar' = [ar EXCEPT !.cpm = p]
    BY <1>1, <1>4 DEF FrameEnd, ArType
  <2> QED BY <1>1, <2>1, CpmSteady DEF Moved, Steady
<1>5. ar' = ar => Moved(ar, ar')
  BY DEF Moved, Steady
<1> QED BY <1>2, <1>3, <1>4, <1>5 DEF EthernetStep

LEMMA StepAllowed ==
    IInv /\ IdleAr(ar) /\ [Next]_vars => IdleAr(ar)' /\ [Promise!Next]_(Promise!vars)
<1> SUFFICES ASSUME IInv, IdleAr(ar), [Next]_vars
             PROVE  IdleAr(ar)' /\ [Promise!Next]_(Promise!vars)
  OBVIOUS
<1>1. Sound(Dev)
  BY DEF IInv
<1>2. Moved(ar, ar')
  <2>1. CASE MainStep
    BY <1>1, <2>1, ConnectMoves, RequestMoves, AnswerMoves, ApplicationMoves, TimerMoves
       DEF MainStep
  <2>2. CASE EthernetStep
    BY <1>1, <2>2, EthernetMoves
  <2>3. CASE UNCHANGED vars
    BY <2>3 DEF vars, Moved, Steady
  <2> QED BY <2>1, <2>2, <2>3 DEF Next
<1> QED BY <1>2, MovedAllowed

\* Whatever messages, timers and calls come in whatever order, from however
\* many controllers, the connection takes only the steps Lifecycle allows: it
\* is opened for one AR UUID, keeps it, and passes through its phases in
\* order (pf_cmdev.c).
THEOREM PromiseKept == Spec => KeepsPromise
<1>1. Init => IdleAr(ar) /\ Promise!Init
  BY DEF Init, IdleAr, Promise!Init, Phase, NoAr
<1> QED BY <1>1, AlwaysIInv, StepAllowed, PTL DEF Spec, KeepsPromise, Promise!Spec

-----------------------------------------------------------------------------
(***************************************************************************)
(* The machines of an AR, its consumers and its session, under Discipline. *)
(* As Sound is, the invariant is stated for a device state.                *)
(***************************************************************************)
\* InStep, for an AR record.
InStepAr(r) ==
    CASE r.cmdev \in {"POWER_ON", "W_CIND"} ->
            /\ r.cmsu = "IDLE" /\ r.cmio = "IDLE" /\ r.cmwrr = "IDLE"
            /\ r.cmsm = "IDLE" /\ r.cmpbe = "IDLE" /\ ~r.alarm
      [] r.cmdev = "W_PEIND" ->
            /\ r.cmsu = "STARTUP" /\ r.cmio = "STARTUP" /\ r.cmwrr = "STARTUP"
            /\ r.cmsm = "RUN" /\ r.cmpbe = "IDLE" /\ ~r.alarm /\ r.ppm = "W_START"
      [] r.cmdev \in {"W_ARDY", "W_ARDYCNF", "WDATA"} ->
            /\ r.cmsu = "STARTUP" /\ r.cmio = "WDATA" /\ r.cmsm = "RUN"
            /\ r.cmwrr = "DATA" \/ (r.cmwrr = "PRMEND" /\ r.cmdev = "W_ARDY")
            /\ r.cmpbe = "IDLE" /\ (r.alarm <=> r.cmdev = "WDATA") /\ r.ppm = "RUN"
      [] r.cmdev = "DATA" ->
            /\ r.cmsu = "STARTUP" /\ r.cmio = "DATA" /\ r.cmwrr = "DATA"
            /\ r.cmsm = "IDLE" /\ r.cmpbe = "WFIND" /\ r.alarm /\ r.ppm = "RUN"

\* An AR record in use is that of an answered Connect; one that is not is clear.
InUseAr(r) == IdleAr(r) /\ (r.cmdev \in {"POWER_ON", "W_CIND"} => ~r.in_use)

\* NothingLeftBehind, and what is left of it while a consumer's timer is
\* being handled: enough for the AR to be closed.
Handlers(r) == IF r.cmsu = "STARTUP" THEN 1 ELSE 0
ConsumersDev(d) ==
    \A c \in CRs : /\ d.map[c] = Handlers(d.ar) /\ d.ci[c].lost = 0
                   /\ d.ci[c].named <=> d.ar.cpm[c].running
Closable(d) ==
    \A c \in CRs : /\ d.map[c] = Handlers(d.ar) /\ d.ci[c].lost = 0
                   /\ d.ci[c].named => d.ar.cmsu = "STARTUP"

\* A session in use is known by its activity; the device's own activity is
\* that of its own requests.
ActsDev(d) ==
    /\ \A s, t \in S : d.sess[s].in_use /\ d.sess[t].in_use
                         /\ d.sess[s].act = d.sess[t].act => s = t
    /\ \A s \in S : d.sess[s].in_use => (d.sess[s].from_me <=> d.sess[s].act = Own)

\* The AR names the session of its controller.
ArDev(d) ==
    d.ar.in_use =>
        /\ d.ar.sess \in S /\ d.sess[d.ar.sess].in_use /\ d.sess[d.ar.sess].ar
        /\ <<d.sess[d.ar.sess].act, d.ar.uuid>> \in Uses

Orderly(d) ==
    InStepAr(d.ar) /\ InUseAr(d.ar) /\ ConsumersDev(d) /\ ActsDev(d) /\ ArDev(d)

LEMMA BecomesOrderly ==
    ASSUME NEW e \in DevType, Orderly(e), Becomes(e)
    PROVE  Orderly(Dev)'
<1>1. Dev' = [ar |-> e.ar, sess |-> e.sess, poll |-> e.poll, ci |-> e.ci,
              monitor |-> e.monitor, map |-> e.map]
  BY DEF Becomes, Dev
<1>2. Dev' = e
  BY <1>1 DEF DevType
<1>3. Orderly(Dev')
  BY <1>2
<1> QED BY <1>3 DEF Orderly, InStepAr, InUseAr, IdleAr, NoAr, CpmOff, ConsumersDev,
                Handlers, ActsDev, ArDev

\* With the AR gone, only the consumers and the sessions matter.
LEMMA GoneOrderly ==
    ASSUME NEW d \in DevType, d.ar = NoAr, ActsDev(d),
           \A c \in CRs : d.map[c] = 0 /\ d.ci[c].lost = 0 /\ ~d.ci[c].named
    PROVE  Orderly(d)
<1>1. InStepAr(d.ar) /\ InUseAr(d.ar)
  BY DEF InStepAr, InUseAr, IdleAr, NoAr
<1>2. ConsumersDev(d) /\ ArDev(d)
  BY DEF ConsumersDev, ArDev, Handlers, NoAr, CpmOff
<1> QED BY <1>1, <1>2 DEF Orderly

LEMMA OrderlyCloses ==
    ASSUME NEW d \in DevType, Orderly(d)
    PROVE  Closable(d) /\ ActsDev(d)
<1>1. ASSUME d.ar.cmsu # "STARTUP" PROVE d.ar = NoAr
  <2>1. d.ar \in ArType
    BY DEF DevType
  <2>2. d.ar.cmdev \in {"POWER_ON", "W_CIND"}
    BY <1>1, <2>1 DEF Orderly, InStepAr, ArType
  <2> QED BY <2>2 DEF Orderly, InUseAr, IdleAr
<1>2. \A c \in CRs : d.ar.cpm[c].running => d.ar.cmsu = "STARTUP"
  BY <1>1 DEF NoAr, CpmOff
<1> QED BY <1>2 DEF Orderly, Closable, ConsumersDev

\* Sessions that are released or stay as they are.
LEMMA FewerSessions ==
    ASSUME NEW d, NEW f, ActsDev(d),
           \A s \in S : f.sess[s] = NoSession \/ f.sess[s] = d.sess[s]
    PROVE  ActsDev(f)
<1>1. \A s \in S : f.sess[s].in_use => f.sess[s] = d.sess[s] /\ d.sess[s].in_use
  BY DEF NoSession
<1>2. \A s, t \in S : f.sess[s].in_use /\ f.sess[t].in_use
                       /\ f.sess[s].act = f.sess[t].act => s = t
  BY <1>1 DEF ActsDev
<1>3. \A s \in S : f.sess[s].in_use => (f.sess[s].from_me <=> f.sess[s].act = Own)
  BY <1>1 DEF ActsDev
<1> QED BY <1>2, <1>3 DEF ActsDev

LEMMA AbortOrderly ==
    ASSUME NEW d \in DevType, SessionsDev(d), d.monitor => d.ar.cmsm = "RUN",
           Closable(d), ActsDev(d), NEW r \in S \cup {NoSess}
    PROVE  Abort(d, r) \in DevType /\ Orderly(Abort(d, r))
<1> DEFINE b == IF d.ar.cmsu = "STARTUP" THEN CloseConsumers(d) ELSE d
           n == [s \in S |-> IF s \in ReleasedWith(d, r) THEN NoSession ELSE d.sess[s]]
           f == [b EXCEPT !.monitor = @ /\ d.ar.cmsm # "RUN", !.sess = n]
           g == ClearAr(f)
<1>1. g \in DevType /\ g.ar = NoAr /\ g = Abort(d, r)
  <2>1. Abort(d, r) \in DevType /\ Abort(d, r).ar = NoAr
    BY AbortFacts
  <2>2. b.sess = d.sess
    BY DEF CloseConsumers, DevType
  <2>3. g = Abort(d, r)
    BY <2>2 DEF Abort, CloseConsumers, DevType
  <2> QED BY <2>1, <2>3
<1>2. \A c \in CRs : /\ b.map[c] = 0 /\ b.ci[c].lost = 0 /\ ~b.ci[c].named
  <2>1. d.ci \in [CRs -> TimerType] /\ d.map \in [CRs -> Nat]
    BY DEF DevType
  <2>2. CASE d.ar.cmsu = "STARTUP"
    <3>1. \A c \in CRs : b.map[c] = 0 /\ b.ci[c] = Removed(d.ci[c])
      BY <2>1, <2>2 DEF Closable, Handlers, CloseConsumers, DevType
    <3> HIDE DEF b
    <3>2. \A c \in CRs : Removed(d.ci[c]).lost = d.ci[c].lost /\ ~Removed(d.ci[c]).named
      BY <2>1 DEF Removed, TimerType
    <3> QED BY <3>1, <3>2 DEF Closable
  <2>3. CASE d.ar.cmsu # "STARTUP"
    BY <2>3 DEF Closable, Handlers
  <2> QED BY <2>2, <2>3
<1>3. b \in DevType
  BY CloseTypes
<1> HIDE DEF b, n
<1>4. f.map = b.map /\ f.ci = b.ci /\ f.sess = n
  BY <1>3 DEF DevType
<1>5. "ci" \in DOMAIN f /\ "sess" \in DOMAIN f /\ "map" \in DOMAIN f
  BY <1>3 DEF DevType
<1> HIDE DEF f
<1>6. g.map = f.map /\ g.sess = n /\ \A c \in CRs : g.ci[c] = Orphan(f.ci[c])
  BY <1>4, <1>5 DEF ClearAr
<1> HIDE DEF g
<1>7. \A c \in CRs : g.map[c] = 0 /\ g.ci[c].lost = 0 /\ ~g.ci[c].named
  <2> SUFFICES ASSUME NEW c \in CRs
               PROVE  g.map[c] = 0 /\ g.ci[c].lost = 0 /\ ~g.ci[c].named
    OBVIOUS
  <2>1. g.ci[c].lost = f.ci[c].lost + Count(f.ci[c].named) /\ ~g.ci[c].named
    <3>1. g.ci[c] = Orphan(f.ci[c])
      BY <1>6
    <3> QED BY <3>1 DEF Orphan
  <2>2. Count(f.ci[c].named) = 0
    BY <1>2, <1>4 DEF Count
  <2> QED BY <1>2, <1>4, <1>6, <2>1, <2>2
<1>8. ActsDev(g)
  BY <1>6, FewerSessions DEF n
<1> QED BY <1>1, <1>7, <1>8, GoneOrderly

\* ReleasedWith at the end of a handler, and pf_session_release.
LEMMA KillOrderly ==
    ASSUME NEW d \in DevType, Orderly(d), NEW s \in S, d.ar.in_use => s # d.ar.sess
    PROVE  Kill(d, s) \in DevType /\ Orderly(Kill(d, s))
<1> DEFINE f == Kill(d, s)
<1>1. f \in DevType /\ f.ar = d.ar /\ f.ci = d.ci /\ f.map = d.map
  BY ClearedTypes DEF Kill, DevType
<1>2. f.sess[s] = NoSession /\ \A t \in S \ {s} : f.sess[t] = d.sess[t]
  BY DEF Kill, DevType
<1> HIDE DEF f
<1>3. ActsDev(f)
  BY <1>2, FewerSessions DEF Orderly
<1>4. ArDev(f)
  BY <1>1, <1>2 DEF Orderly, ArDev
<1>5. Orderly(f)
  BY <1>1, <1>3, <1>4 DEF Orderly, ConsumersDev
<1> QED BY <1>1, <1>5 DEF f

\* Sessions of which only what the invariant does not speak of changes.
SameSessions(d, f) ==
    \A s \in S : /\ f.sess[s].in_use <=> d.sess[s].in_use
                 /\ f.sess[s].from_me <=> d.sess[s].from_me
                 /\ f.sess[s].ar <=> d.sess[s].ar
                 /\ f.sess[s].act = d.sess[s].act

LEMMA SameSessionsOrderly ==
    ASSUME NEW d \in DevType, NEW f \in DevType, Orderly(d), SameSessions(d, f),
           f.ar = d.ar, f.ci = d.ci, f.map = d.map
    PROVE  Orderly(f)
<1>1. ActsDev(f)
  BY DEF Orderly, ActsDev, SameSessions
<1>2. ArDev(f)
  BY DEF Orderly, ArDev, SameSessions
<1> QED BY <1>1, <1>2 DEF Orderly, ConsumersDev

\* An AR in use that moves on, with its consumers and sessions as they were.
LEMMA MachinesOrderly ==
    ASSUME NEW d \in DevType, NEW f \in DevType, Orderly(d), d.ar.in_use,
           f.sess = d.sess, f.ci = d.ci, f.map = d.map, Kept(d.ar, [f.ar EXCEPT
             !.cmdev = d.ar.cmdev, !.alarm = d.ar.alarm]),
           InStepAr(f.ar), f.ar.cmdev \notin {"POWER_ON", "W_CIND"}
    PROVE  Orderly(f)
<1>1. d.ar \in ArType /\ f.ar \in ArType
  BY DEF DevType
<1>2. /\ f.ar.in_use /\ f.ar.uuid = d.ar.uuid /\ f.ar.sess = d.ar.sess
      /\ f.ar.cmsu = d.ar.cmsu
      /\ \A c \in CRs : f.ar.cpm[c].running = d.ar.cpm[c].running
  BY <1>1, KeptIs
<1>3. InUseAr(f.ar)
  BY <1>2 DEF InUseAr, IdleAr
<1>4. ConsumersDev(f)
  BY <1>2 DEF Orderly, ConsumersDev, Handlers
<1>5. ActsDev(f) /\ ArDev(f)
  BY <1>2 DEF Orderly, ActsDev, ArDev
<1> QED BY <1>3, <1>4, <1>5 DEF Orderly

\* The session a message is given is that of its activity, or a fresh one
\* when no session has its activity.
OfOrFresh(a, s) ==
    (sess[s].in_use /\ sess[s].act = a) \/ (~sess[s].in_use /\ OfActivity(a) = {})

LEMMA SessionChosen ==
    ASSUME NEW a, Arrives(a)
    PROVE  SessionFor(a) \in S /\ OfOrFresh(a, SessionFor(a))
<1>1. OfActivity(a) \in SUBSET S /\ FreeSessions \in SUBSET S
  BY DEF OfActivity, FreeSessions
<1>2. CASE OfActivity(a) # {}
  <2>1. SessionFor(a) \in OfActivity(a)
    BY <1>1, <1>2, FirstSession DEF SessionFor
  <2> QED BY <2>1 DEF OfActivity, OfOrFresh
<1>3. CASE OfActivity(a) = {}
  <2>1. SessionFor(a) \in FreeSessions
    BY <1>1, <1>3, FirstSession DEF SessionFor, Arrives
  <2> QED BY <1>3, <2>1 DEF FreeSessions, OfOrFresh
<1> QED BY <1>2, <1>3

LEMMA ReceivedOrderly ==
    ASSUME Sound(Dev), Orderly(Dev), NEW a \in Activities \cup {Own}, NEW s \in S,
           OfOrFresh(a, s), a = Own => sess[s].in_use
    PROVE  LET d == Received(a, s)
           IN  /\ d \in DevType /\ Sound(d) /\ Orderly(d) /\ d.ar = ar
               /\ d.sess[s].in_use /\ d.sess[s].act = a /\ d.sess[s].ar = sess[s].ar
               /\ \A t \in S \ {s} : d.sess[t] = sess[t]
<1> DEFINE n == IF sess[s].in_use THEN [sess[s] EXCEPT !.timer = FALSE]
                ELSE [NoSession EXCEPT !.in_use = TRUE, !.act = a]
           d == Received(a, s)
<1>1. /\ Dev \in DevType /\ Dev.sess = sess /\ Dev.ar = ar /\ Dev.ci = ci /\ Dev.map = map
      /\ sess \in [S -> SessionType] /\ sess[s] \in SessionType
  BY DEF Sound, Dev, DevType
<1>2. Sound(d) /\ d \in DevType /\ d.ar = ar /\ d.sess[s].ar = sess[s].ar
  BY ReceivedFacts DEF Sound
<1>3. d = [Dev EXCEPT !.sess[s] = n]
  BY <1>1 DEF Received
<1>4. /\ n.in_use /\ n.act = a
      /\ sess[s].in_use => (n.from_me <=> sess[s].from_me)
      /\ ~sess[s].in_use => ~n.from_me /\ a # Own
  BY <1>1 DEF OfOrFresh, SessionType, NoSession
<1> HIDE DEF n, d
<1>5. /\ d.sess[s] = n /\ d.ci = Dev.ci /\ d.map = Dev.map
      /\ \A t \in S \ {s} : d.sess[t] = sess[t]
  BY <1>1, <1>3 DEF DevType
<1>6. ActsDev(Dev) /\ ArDev(Dev) /\ ConsumersDev(Dev) /\ InStepAr(ar) /\ InUseAr(ar)
  BY <1>1 DEF Orderly
<1>7. \A t \in S \ {s} : sess[t].in_use => sess[t].act # a
  <2>1. CASE sess[s].in_use
    BY <1>1, <1>6, <2>1 DEF ActsDev, OfOrFresh
  <2>2. CASE ~sess[s].in_use
    BY <2>2 DEF OfOrFresh, OfActivity
  <2> QED BY <2>1, <2>2
<1>8. ActsDev(d)
  <2>1. ASSUME NEW t \in S, NEW q \in S, d.sess[t].in_use, d.sess[q].in_use,
               d.sess[t].act = d.sess[q].act
        PROVE  t = q
    BY <1>1, <1>4, <1>5, <1>6, <1>7, <2>1 DEF ActsDev
  <2>2. ASSUME NEW t \in S, d.sess[t].in_use
        PROVE  d.sess[t].from_me <=> d.sess[t].act = Own
    <3>1. CASE t # s
      BY <1>1, <1>5, <1>6, <2>2, <3>1 DEF ActsDev
    <3>2. CASE t = s /\ sess[s].in_use
      BY <1>1, <1>4, <1>5, <1>6, <3>2 DEF ActsDev, OfOrFresh
    <3>3. CASE t = s /\ ~sess[s].in_use
      BY <1>4, <1>5, <3>3
    <3> QED BY <3>1, <3>2, <3>3
  <2> QED BY <2>1, <2>2 DEF ActsDev
<1>9. ArDev(d)
  <2> SUFFICES ASSUME ar.in_use
               PROVE  /\ ar.sess \in S /\ d.sess[ar.sess].in_use /\ d.sess[ar.sess].ar
                      /\ <<d.sess[ar.sess].act, ar.uuid>> \in Uses
    BY <1>2 DEF ArDev
  <2>1. /\ ar.sess \in S /\ sess[ar.sess].in_use /\ sess[ar.sess].ar
        /\ <<sess[ar.sess].act, ar.uuid>> \in Uses
    BY <1>1, <1>6 DEF ArDev
  <2>2. ar.sess = s => sess[s].act = a
    BY <2>1 DEF OfOrFresh
  <2> QED BY <1>2, <1>4, <1>5, <2>1, <2>2
<1>10. Orderly(d)
  BY <1>1, <1>2, <1>5, <1>6, <1>8, <1>9 DEF Orderly, ConsumersDev
<1> QED BY <1>2, <1>4, <1>5, <1>10 DEF d

\* A request about the AR that is connected comes on its session, ...
LEMMA HisSession ==
    ASSUME Sound(Dev), Orderly(Dev), Discipline, NEW p \in Uses, Arrives(p[1]), Known(p[2])
    PROVE  SessionFor(p[1]) = ar.sess
<1>1. Dev.ar = ar /\ Dev.sess = sess
  BY DEF Dev
<1>2. /\ ar.sess \in S /\ sess[ar.sess].in_use
      /\ <<sess[ar.sess].act, ar.uuid>> \in Uses
  BY <1>1 DEF Orderly, ArDev, Known
<1>3. sess[ar.sess].act = p[1]
  BY <1>2 DEF Discipline, Known
<1>4. sess[SessionFor(p[1])].in_use /\ sess[SessionFor(p[1])].act = p[1]
  BY <1>2, <1>3, SessionChosen DEF OfOrFresh, OfActivity
<1> QED BY <1>1, <1>2, <1>3, <1>4, SessionChosen DEF Orderly, ActsDev

\* ... and one about another AR does not, nor does a Read Implicit.
LEMMA OtherSession ==
    ASSUME Sound(Dev), Orderly(Dev), Discipline, NEW a, Arrives(a), ar.in_use,
           a \in Implicit \/ \E p \in Uses : p[1] = a /\ ~Known(p[2])
    PROVE  SessionFor(a) # ar.sess
<1>1. Dev.ar = ar /\ Dev.sess = sess
  BY DEF Dev
<1>2. /\ ar.sess \in S /\ sess[ar.sess].in_use
      /\ <<sess[ar.sess].act, ar.uuid>> \in Uses
  BY <1>1 DEF Orderly, ArDev
<1>3. ar.cmdev # "POWER_ON"
  BY <1>1 DEF Orderly, InUseAr
<1> SUFFICES ASSUME SessionFor(a) = ar.sess PROVE FALSE
  OBVIOUS
<1>4. sess[ar.sess].act = a
  BY <1>2, SessionChosen DEF OfOrFresh
<1>5. CASE a \in Implicit
  BY <1>2, <1>4, <1>5 DEF Discipline
<1>6. CASE \E p \in Uses : p[1] = a /\ ~Known(p[2])
  <2>1. PICK p \in Uses : p[1] = a /\ ~Known(p[2])
    BY <1>6
  <2>2. p[2] = ar.uuid
    BY <1>2, <1>4, <2>1 DEF Discipline
  <2> QED BY <1>3, <2>1, <2>2 DEF Known
<1> QED BY <1>5, <1>6

\* pf_cpm_activate_req for every consumer of the new AR.
LEMMA ActivateAll ==
    ASSUME NEW d \in DevType
    PROVE  \A c \in CRs : /\ Activate(d, CRs).map[c] = d.map[c] + 1
                          /\ Activate(d, CRs).ci[c] = Added(d.ci[c])
                          /\ Activate(d, CRs).ar.cpm[c].running
<1> DEFINE on == [CpmOff EXCEPT !.state = "FRUN", !.running = TRUE]
           p == [c \in CRs |-> IF c \in CRs THEN on ELSE d.ar.cpm[c]]
           q == [c \in CRs |-> IF c \in CRs THEN Added(d.ci[c]) ELSE d.ci[c]]
           m == [c \in CRs |-> d.map[c] + Count(c \in CRs)]
           f == [d EXCEPT !.ar.cpm = p, !.ci = q, !.map = m]
<1>1. d.ar \in ArType
  BY DEF DevType
<1>2. on.running
  BY DEF CpmOff
<1>3. Activate(d, CRs) = f
  BY DEF Activate, DevType, on
<1> HIDE DEF on
<1>4. \A c \in CRs : p[c].running /\ q[c] = Added(d.ci[c]) /\ m[c] = d.map[c] + 1
  BY <1>2 DEF Count
<1> HIDE DEF p, q, m
<1>5. f.map = m /\ f.ci = q /\ f.ar.cpm = p
  BY <1>1 DEF DevType, ArType
<1> QED BY <1>3, <1>4, <1>5

\* The AR a Connect has allocated, before anything is started for it.
Allocated(d) ==
    /\ d.ar.in_use /\ d.ar.cmio = "IDLE" /\ d.ar.cmwrr = "IDLE" /\ d.ar.cmsm = "IDLE"
    /\ d.ar.cmpbe = "IDLE" /\ d.ar.ppm = "W_START" /\ ~d.ar.alarm
    /\ \A c \in CRs : d.map[c] = 0 /\ d.ci[c].lost = 0 /\ ~d.ci[c].named
    /\ ActsDev(d) /\ ArDev(d)

\* The answered Connect: every machine has taken STARTUP.
LEMMA AcceptedOrderly ==
    ASSUME NEW d \in DevType, Allocated(d)
    PROVE  LET h == [StateInd(StartReq(d), "STARTUP") EXCEPT !.ar.cmdev = "W_PEIND"]
           IN  h \in DevType /\ Orderly(h)
<1> DEFINE b == Activate(d, CRs)
           g == StartReq(d)
           i == StateInd(g, "STARTUP")
           h == [i EXCEPT !.ar.cmdev = "W_PEIND"]
<1>1. d.ar \in ArType /\ d.ci \in [CRs -> TimerType]
  BY DEF DevType
<1>2. b \in DevType /\ b.sess = d.sess /\ b.ar = [d.ar EXCEPT !.cpm = b.ar.cpm]
  BY ActivateTypes
<1>3. \A c \in CRs : b.map[c] = d.map[c] + 1 /\ b.ci[c] = Added(d.ci[c]) /\ b.ar.cpm[c].running
  BY ActivateAll
<1>4. g = [b EXCEPT !.ar.cmsu = "STARTUP"]
  BY DEF StartReq
<1> HIDE DEF b, g
<1>5. /\ g \in DevType /\ g.sess = d.sess /\ g.map = b.map /\ g.ci = b.ci
      /\ g.ar = [b.ar EXCEPT !.cmsu = "STARTUP"]
  BY SMTT(30), <1>2, <1>4 DEF DevType, ArType
<1>6. /\ g.ar.in_use /\ g.ar.uuid = d.ar.uuid /\ g.ar.sess = d.ar.sess /\ g.ar.cmsu = "STARTUP"
      /\ g.ar.cmio = "IDLE" /\ g.ar.cmwrr = "IDLE" /\ g.ar.cmsm = "IDLE"
      /\ g.ar.cmpbe = "IDLE" /\ g.ar.ppm = "W_START" /\ ~g.ar.alarm
      /\ \A c \in CRs : g.ar.cpm[c].running
  BY <1>1, <1>2, <1>3, <1>5 DEF ArType, Allocated
<1>7. /\ KeptDev(g, i) /\ i.ar.cmio = "STARTUP" /\ i.ar.cmwrr = "STARTUP"
      /\ i.ar.cmsm = "RUN" /\ i.ar.cmpbe = "IDLE" /\ i.ar.ppm = "W_START"
  BY <1>5, <1>6, StateIndMoves DEF Events, CmioNext, CmwrrNext, CmsmNext, CmpbeNext
<1> HIDE DEF i
<1>8. /\ i \in DevType /\ i.sess = d.sess /\ i.map = b.map /\ i.ci = b.ci
      /\ i.ar.in_use /\ i.ar.uuid = d.ar.uuid /\ i.ar.sess = d.ar.sess /\ i.ar.cmsu = "STARTUP" /\ ~i.ar.alarm
      /\ \A c \in CRs : i.ar.cpm[c].running
  BY <1>5, <1>6, <1>7 DEF KeptDev, Kept
<1>9. /\ h \in DevType /\ h.sess = i.sess /\ h.map = i.map /\ h.ci = i.ci
       /\ h.ar = [i.ar EXCEPT !.cmdev = "W_PEIND"]
  BY <1>8 DEF DevType, ArType
<1> HIDE DEF h
<1>10. /\ h.ar.in_use /\ h.ar.uuid = d.ar.uuid /\ h.ar.sess = d.ar.sess /\ h.ar.cmsu = "STARTUP" /\ ~h.ar.alarm
       /\ h.ar.cmdev = "W_PEIND" /\ h.ar.cmio = "STARTUP" /\ h.ar.cmwrr = "STARTUP"
       /\ h.ar.cmsm = "RUN" /\ h.ar.cmpbe = "IDLE" /\ h.ar.ppm = "W_START"
       /\ \A c \in CRs : h.ar.cpm[c].running
  BY <1>7, <1>8, <1>9 DEF DevType, ArType
<1>11. InStepAr(h.ar) /\ InUseAr(h.ar)
  BY <1>10 DEF InStepAr, InUseAr, IdleAr
<1>12. ConsumersDev(h)
  <2> SUFFICES ASSUME NEW c \in CRs
               PROVE  /\ h.map[c] = 1 /\ h.ci[c].lost = 0 /\ h.ci[c].named
    BY <1>10 DEF ConsumersDev, Handlers
  <2>1. d.map[c] = 0 /\ d.ci[c].lost = 0 /\ ~d.ci[c].named
    BY DEF Allocated
  <2>2. Added(d.ci[c]).lost = 0 /\ Added(d.ci[c]).named
    BY <1>1, <2>1 DEF Added, Orphan, Count
  <2> QED BY <1>3, <1>8, <1>9, <2>1, <2>2
<1>13. ActsDev(h)
  BY <1>8, <1>9 DEF Allocated, ActsDev
<1>14. ArDev(h)
  BY <1>8, <1>9, <1>10 DEF Allocated, ArDev
<1>15. Orderly(h)
  BY <1>11, <1>12, <1>13, <1>14 DEF Orderly
<1> QED BY <1>9, <1>15 DEF h, i, g

-----------------------------------------------------------------------------
\* An AR that is aborted leaves an orderly state.
LEMMA AbortsOrderly ==
    ASSUME NEW d, Sound(d), Orderly(d), NEW r \in S \cup {NoSess}
    PROVE  Abort(d, r) \in DevType /\ Orderly(Abort(d, r)) /\ ~Abort(d, r).ar.in_use
<1>1. d \in DevType /\ SessionsDev(d) /\ (d.monitor => d.ar.cmsm = "RUN")
  BY SoundAborts
<1>2. Abort(d, r).ar = NoAr
  BY <1>1, AbortFacts
<1> QED BY <1>1, <1>2, AbortOrderly, OrderlyCloses DEF NoAr

\* A request of a controller, when it has its session.
LEMMA Handled ==
    ASSUME Sound(Dev), Orderly(Dev), NEW a \in Activities, Arrives(a)
    PROVE  LET s == SessionFor(a)
               d == Received(a, s)
           IN  /\ s \in S /\ d \in DevType /\ Sound(d) /\ Orderly(d) /\ d.ar = ar
               /\ d.sess[s].in_use /\ d.sess[s].act = a /\ d.sess[s].ar = sess[s].ar
<1>1. SessionFor(a) \in S /\ OfOrFresh(a, SessionFor(a))
  BY SessionChosen
<1>2. a # Own
  BY ConnectionAssumption
<1> QED BY <1>1, <1>2, ReceivedOrderly

\* The AR and the session of a Connect that is going to be accepted.
LEMMA AllocatedAr ==
    ASSUME Sound(Dev), Orderly(Dev), NEW p \in Uses, Arrives(p[1]), ~ar.in_use,
           NEW legacy \in BOOLEAN
    PROVE  LET s == SessionFor(p[1])
               f == [Received(p[1], s) EXCEPT !.ar = NewAr(p[2], s, legacy), !.sess[s].ar = TRUE]
           IN  f \in DevType /\ Allocated(f)
<1> DEFINE s == SessionFor(p[1])
           d == Received(p[1], s)
           n == NewAr(p[2], s, legacy)
           x == [d.sess[s] EXCEPT !.ar = TRUE]
           f == [d EXCEPT !.ar = n, !.sess[s].ar = TRUE]
<1>1. p[1] \in Activities /\ p[2] \in Uuids
  BY ConnectionAssumption
<1>2. /\ s \in S /\ d \in DevType /\ Orderly(d) /\ d.ar = ar
      /\ d.sess[s].in_use /\ d.sess[s].act = p[1]
  BY <1>1, Handled
<1> HIDE DEF s, d
<1>3. /\ n \in ArType /\ n.in_use /\ n.uuid = p[2] /\ n.sess = s
      /\ n.cmio = "IDLE" /\ n.cmwrr = "IDLE" /\ n.cmsm = "IDLE" /\ n.cmpbe = "IDLE"
      /\ n.ppm = "W_START" /\ ~n.alarm
  BY <1>1, <1>2, ClearedTypes DEF NewAr, NoAr, ArType
<1> HIDE DEF n
<1>4. d.sess \in [S -> SessionType] /\ d.sess[s] \in SessionType
  BY <1>2 DEF DevType
<1>5. /\ x \in SessionType /\ x.in_use /\ x.act = p[1] /\ x.ar
      /\ x.from_me <=> d.sess[s].from_me
  BY <1>2, <1>4 DEF SessionType
<1>6. f = [d EXCEPT !.ar = n, !.sess = [d.sess EXCEPT ![s] = x]]
  BY <1>2, <1>4 DEF DevType
<1> HIDE DEF x, f
<1>7. /\ f \in DevType /\ f.ar = n /\ f.map = d.map /\ f.ci = d.ci
      /\ f.sess[s] = x /\ \A t \in S \ {s} : f.sess[t] = d.sess[t]
  BY <1>2, <1>3, <1>4, <1>5, <1>6 DEF DevType
<1>8. \A c \in CRs : f.map[c] = 0 /\ f.ci[c].lost = 0 /\ ~f.ci[c].named
  <2>1. ar = NoAr
    BY <1>2 DEF Orderly, InUseAr, IdleAr
  <2> QED BY <1>2, <1>7, <2>1 DEF Orderly, ConsumersDev, Handlers, NoAr, CpmOff
<1>9. ActsDev(f)
  <2>1. \A t \in S : /\ f.sess[t].in_use <=> d.sess[t].in_use
                     /\ f.sess[t].from_me <=> d.sess[t].from_me
                     /\ f.sess[t].act = d.sess[t].act
    BY <1>2, <1>5, <1>7
  <2> QED BY <1>2, <2>1 DEF Orderly, ActsDev
<1>10. ArDev(f)
  <2>1. <<p[1], p[2]>> \in Uses
    BY ConnectionAssumption
  <2> QED BY <1>2, <1>3, <1>5, <1>7, <2>1 DEF ArDev
<1>11. Allocated(f)
  BY <1>3, <1>7, <1>8, <1>9, <1>10 DEF Allocated
<1> QED BY <1>7, <1>11 DEF f, n, d, s

LEMMA ConnectOrderly ==
    ASSUME Sound(Dev), Orderly(Dev), Discipline, ConnectStep
    PROVE  Orderly(Dev)'
<1>1. PICK p \in Uses :
        \/ \E valid \in BOOLEAN : ConnectInUse(p[1], p[2], valid)
        \/ ConnectRefused(p[1])
        \/ ConnectUnanswered(p[1], p[2])
        \/ \E legacy \in BOOLEAN : ConnectAccepted(p[1], p[2], legacy)
        \/ \E done, half \in SUBSET CRs : ConnectFails(p[1], done, half)
  BY DEF ConnectStep
<1> DEFINE s == SessionFor(p[1])
           d == Received(p[1], s)
<1>2. p[1] \in Activities
  BY ConnectionAssumption
<1>3. CASE \E valid \in BOOLEAN : ConnectInUse(p[1], p[2], valid)
  <2>1. /\ Arrives(p[1]) /\ ar.in_use
        /\ Becomes(Kill(IF Known(p[2]) THEN Abort(d, NoSess) ELSE d, s))
    BY <1>3 DEF ConnectInUse, Discipline
  <2>2. /\ s \in S /\ d \in DevType /\ Sound(d) /\ Orderly(d) /\ d.ar = ar
    BY <1>2, <2>1, Handled
  <2>3. ~Known(p[2]) => s # ar.sess
    BY <2>1, OtherSession
  <2> HIDE DEF s, d
  <2>4. CASE Known(p[2])
    <3> DEFINE f == Abort(d, NoSess)
    <3>1. f \in DevType /\ Orderly(f) /\ ~f.ar.in_use
      BY <2>2, AbortsOrderly
    <3>2. Becomes(Kill(f, s))
      BY <2>1, <2>4
    <3> HIDE DEF f
    <3> QED BY <2>2, <3>1, <3>2, KillOrderly, BecomesOrderly
  <2>5. CASE ~Known(p[2])
    <3>1. Becomes(Kill(d, s))
      BY <2>1, <2>5
    <3> QED BY <2>2, <2>3, <2>5, <3>1, KillOrderly, BecomesOrderly
  <2> QED BY <2>4, <2>5
<1>4. CASE ConnectRefused(p[1])
  <2>1. Arrives(p[1]) /\ ~ar.in_use /\ Becomes(Kill(d, s))
    BY <1>4 DEF ConnectRefused
  <2>2. s \in S /\ d \in DevType /\ Orderly(d) /\ d.ar = ar
    BY <1>2, <2>1, Handled
  <2> HIDE DEF s, d
  <2> QED BY <2>1, <2>2, KillOrderly, BecomesOrderly
<1>5. CASE \E legacy \in BOOLEAN : ConnectAccepted(p[1], p[2], legacy)
  <2>1. PICK legacy \in BOOLEAN : ConnectAccepted(p[1], p[2], legacy)
    BY <1>5
  <2> DEFINE f == [d EXCEPT !.ar = NewAr(p[2], s, legacy), !.sess[s].ar = TRUE]
             h == [StateInd(StartReq(f), "STARTUP") EXCEPT !.ar.cmdev = "W_PEIND"]
  <2>2. Arrives(p[1]) /\ ~ar.in_use /\ Becomes(h)
    BY <2>1 DEF ConnectAccepted
  <2>3. f \in DevType /\ Allocated(f)
    BY <2>2, AllocatedAr
  <2> HIDE DEF f
  <2>4. h \in DevType /\ Orderly(h)
    BY <2>3, AcceptedOrderly
  <2> HIDE DEF h
  <2> QED BY <2>2, <2>4, BecomesOrderly
<1> QED BY <1>1, <1>3, <1>4, <1>5 DEF ConnectUnanswered, ConnectFails, Discipline

-----------------------------------------------------------------------------
\* The other requests.  A PrmEnd that is acted on comes on the session of the
\* AR, so PNET_EVENT_PRMEND follows it.
LEMMA PrmEndOrderly ==
    ASSUME NEW d, Sound(d), Orderly(d), NEW ok \in BOOLEAN, d.ar.in_use
    PROVE  PrmEnd(d, d.ar.sess, ok) \in DevType /\ Orderly(PrmEnd(d, d.ar.sess, ok))
<1> DEFINE s == d.ar.sess
           e == [d EXCEPT !.ar.cmdev = "W_ARDY"]
           h == StateInd(e, "PRMEND")
<1>1. /\ d \in DevType /\ d.ar \in ArType /\ s \in S /\ d.sess[s].ar
      /\ InStepAr(d.ar)
  BY DEF Sound, DevType, Orderly, ArDev
<1>2. CASE d.ar.cmdev # "W_PEIND"
  BY <1>1, <1>2 DEF PrmEnd
<1>3. CASE d.ar.cmdev = "W_PEIND" /\ ~ok
  BY <1>3, AbortsOrderly DEF PrmEnd
<1>4. CASE d.ar.cmdev = "W_PEIND" /\ ok
  <2>1. /\ e \in DevType /\ e.sess = d.sess /\ e.ci = d.ci /\ e.map = d.map
        /\ e.ar = [d.ar EXCEPT !.cmdev = "W_ARDY"]
    BY <1>1 DEF DevType, ArType
  <2>2. PrmEnd(d, s, ok) = h
    BY <1>1, <1>4, <2>1 DEF PrmEnd
  <2> HIDE DEF e
  <2>3. /\ d.ar.cmsu = "STARTUP" /\ d.ar.cmio = "STARTUP" /\ d.ar.cmwrr = "STARTUP"
        /\ d.ar.cmsm = "RUN" /\ d.ar.cmpbe = "IDLE" /\ ~d.ar.alarm
    BY <1>1, <1>4 DEF InStepAr
  <2>4. /\ e.ar.cmsu = "STARTUP" /\ e.ar.cmio = "STARTUP" /\ e.ar.cmwrr = "STARTUP"
        /\ e.ar.cmsm = "RUN" /\ e.ar.cmpbe = "IDLE" /\ ~e.ar.alarm /\ e.ar.cmdev = "W_ARDY"
        /\ e.ar.in_use = d.ar.in_use /\ e.ar.uuid = d.ar.uuid /\ e.ar.sess = d.ar.sess
        /\ e.ar.cpm = d.ar.cpm
    BY <1>1, <2>1, <2>3 DEF ArType
  <2>5. /\ KeptDev(e, h) /\ h.ar.ppm = "RUN" /\ h.ar.cmio = "WDATA"
        /\ h.ar.cmwrr = "PRMEND" /\ h.ar.cmsm = "RUN" /\ h.ar.cmpbe = "IDLE"
    BY <2>1, <2>4, StateIndMoves DEF Events, CmioNext, CmwrrNext, CmsmNext, CmpbeNext
  <2> HIDE DEF h
  <2>6. /\ h \in DevType /\ h.sess = d.sess /\ h.ci = d.ci /\ h.map = d.map
        /\ h.ar \in ArType /\ h.ar.in_use = d.ar.in_use /\ h.ar.uuid = d.ar.uuid
        /\ h.ar.sess = d.ar.sess /\ h.ar.cmdev = "W_ARDY" /\ h.ar.cmsu = d.ar.cmsu
        /\ h.ar.alarm = d.ar.alarm
        /\ \A c \in CRs : h.ar.cpm[c].running = d.ar.cpm[c].running
    BY <2>1, <2>3, <2>4, <2>5 DEF KeptDev, Kept
  <2>7. InStepAr(h.ar)
    BY <2>3, <2>5, <2>6 DEF InStepAr
  <2>8. Kept(d.ar, [h.ar EXCEPT !.cmdev = d.ar.cmdev, !.alarm = d.ar.alarm])
    BY <1>1, <2>6, KeptIs
  <2>9. h \in DevType /\ Orderly(h)
    BY <1>1, <2>6, <2>7, <2>8, MachinesOrderly
  <2> QED BY <2>2, <2>9
<1> QED BY <1>2, <1>3, <1>4

LEMMA DControlOrderly ==
    ASSUME Sound(Dev), Orderly(Dev), Discipline, NEW p \in Uses, NEW q \in Seqs,
           NEW ok \in BOOLEAN, DControl(p[1], p[2], q, ok)
    PROVE  Orderly(Dev)'
<1> DEFINE s == SessionFor(p[1])
           r == Received(p[1], s)
           d == [r EXCEPT !.sess[s].dseq = q]
<1>1. /\ Arrives(p[1])
      /\ \/ Becomes(r)
         \/ Known(p[2]) /\ Becomes(PrmEnd(d, s, ok))
         \/ ~Known(p[2]) /\ Becomes(Kill(d, s))
  BY DEF DControl
<1>2. /\ s \in S /\ r \in DevType /\ Sound(r) /\ Orderly(r) /\ r.ar = ar
  BY <1>1, Handled, ConnectionAssumption
<1>3. Known(p[2]) => s = ar.sess /\ ar.in_use
  BY <1>1, HisSession DEF Known
<1>4. ~Known(p[2]) /\ ar.in_use => s # ar.sess
  BY <1>1, OtherSession
<1> HIDE DEF s, r
<1>5. Sound(d) /\ d \in DevType
  BY <1>2, SeqSound DEF Sound
<1>6. d.ar = ar /\ d.ci = r.ci /\ d.map = r.map /\ SameSessions(r, d)
  <2>1. r.sess \in [S -> SessionType] /\ r.sess[s] \in SessionType
    BY <1>2 DEF DevType
  <2> DEFINE n == [r.sess[s] EXCEPT !.dseq = q]
  <2>2. /\ n.ar = r.sess[s].ar /\ n.in_use = r.sess[s].in_use
        /\ n.from_me = r.sess[s].from_me /\ n.act = r.sess[s].act
    BY <2>1 DEF SessionType
  <2>3. d = [r EXCEPT !.sess = [r.sess EXCEPT ![s] = n]]
    BY <1>2, <2>1 DEF DevType
  <2> HIDE DEF n, d
  <2>4. /\ d.ar = ar /\ d.ci = r.ci /\ d.map = r.map
        /\ d.sess[s] = n /\ \A t \in S \ {s} : d.sess[t] = r.sess[t]
    BY <1>2, <2>1, <2>3 DEF DevType
  <2> QED BY <2>2, <2>4 DEF SameSessions
<1> HIDE DEF d
<1>7. Orderly(d)
  BY <1>2, <1>5, <1>6, SameSessionsOrderly
<1>8. CASE Becomes(r)
  BY <1>2, <1>8, BecomesOrderly
<1>9. CASE Known(p[2]) /\ Becomes(PrmEnd(d, s, ok))
  <2>1. PrmEnd(d, s, ok) \in DevType /\ Orderly(PrmEnd(d, s, ok))
    BY <1>3, <1>5, <1>6, <1>7, <1>9, PrmEndOrderly
  <2> QED BY <1>9, <2>1, BecomesOrderly
<1>10. CASE ~Known(p[2]) /\ Becomes(Kill(d, s))
  <2>1. Kill(d, s) \in DevType /\ Orderly(Kill(d, s))
    BY <1>2, <1>4, <1>5, <1>6, <1>7, <1>10, KillOrderly
  <2> QED BY <1>10, <2>1, BecomesOrderly
<1> QED BY <1>1, <1>8, <1>9, <1>10

\* A fault ends the AR whose session it comes on, and leaves any other alone.
LEMMA FaultOrderly ==
    ASSUME Sound(Dev), Orderly(Dev), NEW s \in S, NEW d \in DevType, Sound(d), Orderly(d),
           d.ar = ar, Becomes(Kill(IF d.sess[s].ar THEN Abort(d, NoSess) ELSE d, s))
    PROVE  Orderly(Dev)'
<1>1. CASE d.sess[s].ar
  <2> DEFINE f == Abort(d, NoSess)
  <2>1. f \in DevType /\ Orderly(f) /\ ~f.ar.in_use
    BY AbortsOrderly
  <2>2. Becomes(Kill(f, s))
    BY <1>1
  <2> HIDE DEF f
  <2> QED BY <2>1, <2>2, KillOrderly, BecomesOrderly
<1>2. CASE ~d.sess[s].ar
  <2>1. d.ar.in_use => s # d.ar.sess
    BY <1>2 DEF Orderly, ArDev
  <2>2. Becomes(Kill(d, s))
    BY <1>2
  <2> QED BY <2>1, <2>2, KillOrderly, BecomesOrderly
<1> QED BY <1>1, <1>2

LEMMA RequestOrderly ==
    ASSUME Sound(Dev), Orderly(Dev), Discipline, RequestStep
    PROVE  Orderly(Dev)'
<1>1. ASSUME NEW a \in Activities, Arrives(a)
      PROVE  LET s == SessionFor(a)
                 d == Received(a, s)
             IN  s \in S /\ d \in DevType /\ Sound(d) /\ Orderly(d) /\ d.ar = ar
  BY <1>1, Handled
<1>2. \A p \in Uses : p[1] \in Activities
  BY ConnectionAssumption
<1>3. ASSUME NEW p \in Uses, ReleaseInd(p[1], p[2]) PROVE Orderly(Dev)'
  <2> DEFINE s == SessionFor(p[1])
             d == Received(p[1], s)
  <2>1. /\ Arrives(p[1])
        /\ \/ Known(p[2]) /\ ar.cmdev \in Releasable /\ Becomes(Kill(Abort(d, s), s))
           \/ ~(Known(p[2]) /\ ar.cmdev \in Releasable) /\ Becomes(Kill(d, s))
    BY <1>3 DEF ReleaseInd
  <2>2. s \in S /\ d \in DevType /\ Sound(d) /\ Orderly(d) /\ d.ar = ar
    BY <1>1, <1>2, <2>1
  <2>3. Known(p[2]) => ar.cmdev \in Releasable
    BY <2>2 DEF Known, Orderly, InUseAr, Sound, DevType, ArType, Releasable
  <2>4. ~Known(p[2]) /\ ar.in_use => s # ar.sess
    BY <2>1, OtherSession
  <2> HIDE DEF s, d
  <2>5. CASE Becomes(Kill(Abort(d, s), s))
    <3> DEFINE f == Abort(d, s)
    <3>1. f \in DevType /\ Orderly(f) /\ ~f.ar.in_use
      BY <2>2, AbortsOrderly
    <3> HIDE DEF f
    <3>2. Becomes(Kill(f, s))
      BY <2>5 DEF f
    <3> QED BY <2>2, <3>1, <3>2, KillOrderly, BecomesOrderly
  <2>6. CASE ~Known(p[2]) /\ Becomes(Kill(d, s))
    BY <2>2, <2>4, <2>6, KillOrderly, BecomesOrderly
  <2> QED BY <2>1, <2>3, <2>5, <2>6
<1>4. ASSUME NEW p \in Uses, Read(p[1]) PROVE Orderly(Dev)'
  <2> DEFINE d == Received(p[1], SessionFor(p[1]))
  <2>1. Arrives(p[1]) /\ Becomes(d)
    BY <1>4 DEF Read
  <2>2. d \in DevType /\ Orderly(d)
    BY <1>1, <1>2, <2>1
  <2> HIDE DEF d
  <2> QED BY <2>1, <2>2, BecomesOrderly
<1>5. ASSUME NEW p \in Uses, Write(p[1], p[2]) PROVE Orderly(Dev)'
  <2> DEFINE s == SessionFor(p[1])
             d == Received(p[1], s)
  <2>1. Arrives(p[1]) /\ Becomes(IF Known(p[2]) THEN d ELSE Kill(d, s))
    BY <1>5 DEF Write
  <2>2. s \in S /\ d \in DevType /\ Orderly(d) /\ d.ar = ar
    BY <1>1, <1>2, <2>1
  <2>3. ~Known(p[2]) /\ ar.in_use => s # ar.sess
    BY <2>1, OtherSession
  <2> HIDE DEF s, d
  <2> QED BY <2>1, <2>2, <2>3, KillOrderly, BecomesOrderly
<1>6. ASSUME NEW p \in Uses, Fault(p[1]) PROVE Orderly(Dev)'
  <2> DEFINE s == SessionFor(p[1])
             d == Received(p[1], s)
  <2>1. Arrives(p[1]) /\ Becomes(Kill(IF d.sess[s].ar THEN Abort(d, NoSess) ELSE d, s))
    BY <1>6 DEF Fault
  <2>2. s \in S /\ d \in DevType /\ Sound(d) /\ Orderly(d) /\ d.ar = ar
    BY <1>1, <1>2, <2>1
  <2> HIDE DEF s, d
  <2> QED BY <2>1, <2>2, FaultOrderly
<1>7. ASSUME NEW a \in Implicit, ReadImplicit(a) PROVE Orderly(Dev)'
  <2> DEFINE s == SessionFor(a)
             d == Received(a, s)
  <2>1. Arrives(a) /\ Becomes(Kill(d, s))
    BY <1>7 DEF ReadImplicit
  <2>2. s \in S /\ d \in DevType /\ Orderly(d) /\ d.ar = ar
    BY <1>1, <2>1, ConnectionAssumption
  <2>3. ar.in_use => s # ar.sess
    BY <2>1, OtherSession
  <2> HIDE DEF s, d
  <2> QED BY <2>1, <2>2, <2>3, KillOrderly, BecomesOrderly
<1> QED BY <1>3, <1>4, <1>5, <1>6, <1>7, DControlOrderly DEF RequestStep

-----------------------------------------------------------------------------
\* Data exchange begins, from the answer of the controller or from the poll.
LEMMA DataOrderly ==
    ASSUME NEW d \in DevType, Orderly(d), d.ar.in_use, d.ar.cmdev \in {"W_ARDYCNF", "WDATA"},
           NEW e \in DevType, e.sess = d.sess, e.ci = d.ci, e.map = d.map,
           Kept(d.ar, [e.ar EXCEPT !.alarm = d.ar.alarm]), e.ar.alarm, SamePpm(d.ar, e.ar),
           SameCmio(d.ar, e.ar), SameCmwrr(d.ar, e.ar), SameCmsm(d.ar, e.ar), SameCmpbe(d.ar, e.ar)
    PROVE  LET f == [StateInd(e, "DATA") EXCEPT !.ar.cmdev = "DATA"]
           IN  f \in DevType /\ Orderly(f) /\ f.ar.sess = d.ar.sess
<1> DEFINE h == StateInd(e, "DATA")
           f == [h EXCEPT !.ar.cmdev = "DATA"]
<1>1. d.ar \in ArType /\ e.ar \in ArType
  BY DEF DevType
<1>2. /\ d.ar.cmsu = "STARTUP" /\ d.ar.cmio = "WDATA" /\ d.ar.cmwrr = "DATA"
      /\ d.ar.cmsm = "RUN" /\ d.ar.cmpbe = "IDLE" /\ d.ar.ppm = "RUN"
  BY DEF Orderly, InStepAr
<1>3. /\ e.ar.in_use /\ e.ar.uuid = d.ar.uuid /\ e.ar.sess = d.ar.sess
      /\ e.ar.cmsu = "STARTUP"
      /\ \A c \in CRs : e.ar.cpm[c].running = d.ar.cpm[c].running
  BY <1>1, <1>2, KeptIs
<1>4. /\ e.ar.cmio = "WDATA" /\ e.ar.cmwrr = "DATA" /\ e.ar.cmsm = "RUN"
      /\ e.ar.cmpbe = "IDLE" /\ e.ar.ppm = "RUN"
  BY <1>2 DEF SamePpm, SameCmio, SameCmwrr, SameCmsm, SameCmpbe
<1>5. /\ KeptDev(e, h) /\ h.ar.ppm = "RUN" /\ h.ar.cmio = "DATA" /\ h.ar.cmwrr = "DATA"
      /\ h.ar.cmsm = "IDLE" /\ h.ar.cmpbe = "WFIND"
  BY <1>4, StateIndMoves DEF Events, CmioNext, CmwrrNext, CmsmNext, CmpbeNext
<1> HIDE DEF h
<1>6. /\ h \in DevType /\ h.ar \in ArType /\ h.sess = d.sess /\ h.ci = d.ci /\ h.map = d.map
      /\ h.ar.in_use /\ h.ar.uuid = d.ar.uuid /\ h.ar.sess = d.ar.sess
      /\ h.ar.cmsu = "STARTUP" /\ h.ar.alarm = e.ar.alarm
      /\ \A c \in CRs : h.ar.cpm[c].running = d.ar.cpm[c].running
  BY <1>3, <1>5 DEF KeptDev, Kept
<1>7. /\ f \in DevType /\ f.ar = [h.ar EXCEPT !.cmdev = "DATA"] /\ f.sess = d.sess
      /\ f.ci = d.ci /\ f.map = d.map
  <2>1. h \in DevType
    BY <1>6
  <2>2. /\ f \in DevType /\ f.ar = [h.ar EXCEPT !.cmdev = "DATA"] /\ f.sess = h.sess
        /\ f.ci = h.ci /\ f.map = h.map
    BY SMTT(30), <2>1 DEF DevType, ArType
  <2> QED BY <1>6, <2>2
<1> HIDE DEF f
<1>8. /\ f.ar.cmdev = "DATA" /\ f.ar.cmsu = "STARTUP" /\ f.ar.cmio = "DATA"
      /\ f.ar.cmwrr = "DATA" /\ f.ar.cmsm = "IDLE" /\ f.ar.cmpbe = "WFIND"
      /\ f.ar.ppm = "RUN" /\ f.ar.alarm = e.ar.alarm
      /\ f.ar.in_use = h.ar.in_use /\ f.ar.uuid = h.ar.uuid /\ f.ar.sess = h.ar.sess
      /\ f.ar.cpm = h.ar.cpm /\ f.ar \in ArType
  <2>1. h.ar \in ArType /\ f.ar = [h.ar EXCEPT !.cmdev = "DATA"]
    BY <1>6, <1>7
  <2>2. /\ f.ar \in ArType /\ f.ar.cmdev = "DATA" /\ f.ar.cmsu = h.ar.cmsu
        /\ f.ar.cmio = h.ar.cmio /\ f.ar.cmwrr = h.ar.cmwrr /\ f.ar.cmsm = h.ar.cmsm
        /\ f.ar.cmpbe = h.ar.cmpbe /\ f.ar.ppm = h.ar.ppm /\ f.ar.alarm = h.ar.alarm
        /\ f.ar.in_use = h.ar.in_use /\ f.ar.uuid = h.ar.uuid
        /\ f.ar.sess = h.ar.sess /\ f.ar.cpm = h.ar.cpm
    BY <2>1 DEF ArType
  <2> QED BY <1>5, <1>6, <2>2
<1>9. InStepAr(f.ar)
  BY <1>8 DEF InStepAr
<1>10. InUseAr(f.ar)
  BY <1>6, <1>8 DEF InUseAr, IdleAr
<1>11. ConsumersDev(f)
  BY <1>2, <1>6, <1>7, <1>8 DEF Orderly, ConsumersDev, Handlers
<1>12. ActsDev(f) /\ ArDev(f)
  BY <1>6, <1>7, <1>8 DEF Orderly, ActsDev, ArDev
<1> QED BY <1>6, <1>7, <1>8, <1>9, <1>10, <1>11, <1>12 DEF Orderly, f, h

\* A session that the device has opened is not the one the AR names.
LEMMA OwnSession ==
    ASSUME Sound(Dev), Orderly(Dev), NEW s \in S, sess[s].in_use, sess[s].from_me
    PROVE  ar.in_use /\ s # ar.sess /\ sess[s].act = Own /\ OfOrFresh(Own, s)
<1>1. Dev.ar = ar /\ Dev.sess = sess
  BY DEF Dev
<1>2. sess[s].act = Own
  BY <1>1 DEF Orderly, ActsDev
<1>3. ar.in_use
  <2>1. ar.cmdev = "W_ARDYCNF"
    BY <1>1 DEF Sound, SessionsDev, OwnRequest
  <2> QED BY <1>1, <2>1 DEF Sound, SupervisedDev
<1>4. sess[ar.sess].act \in Activities
  BY <1>1, <1>3, ConnectionAssumption DEF Orderly, ArDev
<1> QED BY <1>2, <1>3, <1>4, ConnectionAssumption DEF OfOrFresh

LEMMA ConfirmOrderly ==
    ASSUME Sound(Dev), Orderly(Dev), NEW s \in S, sess[s].in_use, sess[s].from_me
    PROVE  Confirm(s) \in DevType /\ Orderly(Confirm(s))
<1> DEFINE r == Received(Own, s)
           q == [r.ar EXCEPT !.alarm = TRUE]
           d == [r EXCEPT !.ar.alarm = TRUE]
           f == [StateInd(d, "DATA") EXCEPT !.ar.cmdev = "DATA"]
           g == [d EXCEPT !.ar.cmdev = "WDATA"]
           w == [r.ar EXCEPT !.alarm = TRUE, !.cmdev = "WDATA"]
<1>1. ar.in_use /\ s # ar.sess /\ sess[s].act = Own /\ OfOrFresh(Own, s)
  BY OwnSession
<1>2. r \in DevType /\ Sound(r) /\ Orderly(r) /\ r.ar = ar
  BY <1>1, ReceivedOrderly
<1>3. Confirm(s) = Kill(IF ar.ready THEN f ELSE g, s)
  BY DEF Confirm
<1>4. ar.cmdev = "W_ARDYCNF"
  BY DEF Sound, SessionsDev, OwnRequest, Dev
<1> HIDE DEF r
<1>5. r.ar \in ArType
  BY <1>2 DEF DevType
<1>6. /\ q \in ArType /\ q.alarm /\ Kept(r.ar, [q EXCEPT !.alarm = r.ar.alarm])
      /\ SamePpm(r.ar, q) /\ SameCmio(r.ar, q) /\ SameCmwrr(r.ar, q) /\ SameCmsm(r.ar, q)
      /\ SameCmpbe(r.ar, q)
  BY <1>5 DEF ArType, Kept, SamePpm, SameCmio, SameCmwrr, SameCmsm, SameCmpbe
<1>7. d = [r EXCEPT !.ar = q]
  BY <1>2, <1>5 DEF DevType
<1>8. g = [r EXCEPT !.ar = w]
  BY <1>2, <1>5 DEF DevType, ArType
<1> HIDE DEF q, d, g
<1>9. d \in DevType /\ d.ar = q /\ d.sess = r.sess /\ d.ci = r.ci /\ d.map = r.map
  BY <1>2, <1>6, <1>7 DEF DevType
<1>10. f \in DevType /\ Orderly(f) /\ f.ar.sess = ar.sess
  BY <1>1, <1>2, <1>4, <1>6, <1>9, DataOrderly
<1> HIDE DEF f
<1>11. g \in DevType /\ Orderly(g) /\ g.ar.sess = ar.sess
  <2>1. /\ w \in ArType /\ w.cmdev = "WDATA" /\ w.sess = r.ar.sess
        /\ Kept(r.ar, [w EXCEPT !.cmdev = r.ar.cmdev, !.alarm = r.ar.alarm])
    BY <1>5 DEF ArType, Kept
  <2>2. InStepAr(w)
    BY <1>2, <1>4, <1>5 DEF ArType, Orderly, InStepAr
  <2> HIDE DEF w
  <2>3. g \in DevType /\ g.ar = w /\ g.sess = r.sess /\ g.ci = r.ci /\ g.map = r.map
    BY <1>2, <1>8, <2>1 DEF DevType
  <2>4. Orderly(g)
    BY <1>1, <1>2, <2>1, <2>2, <2>3, MachinesOrderly
  <2> QED BY <1>2, <2>1, <2>3, <2>4
<1> QED BY <1>1, <1>3, <1>10, <1>11, KillOrderly

LEMMA AnswerOrderly ==
    ASSUME Sound(Dev), Orderly(Dev), AnswerStep
    PROVE  Orderly(Dev)'
<1>1. ASSUME NEW s \in S, sess[s].in_use, sess[s].from_me
      PROVE  /\ Received(Own, s) \in DevType /\ Orderly(Received(Own, s))
             /\ Confirm(s) \in DevType /\ Orderly(Confirm(s))
  BY <1>1, OwnSession, ReceivedOrderly, ConfirmOrderly
<1>2. ASSUME NEW s \in S, NEW wellFormed \in BOOLEAN, CControlCnf(s, wellFormed)
      PROVE  Orderly(Dev)'
  <2>1. /\ sess[s].in_use /\ sess[s].from_me
        /\ Becomes(Confirm(s)) \/ Becomes(Received(Own, s))
    BY <1>2 DEF CControlCnf
  <2> QED BY <1>1, <2>1, BecomesOrderly
<1>3. ASSUME NEW s \in S, sess[s].in_use, sess[s].from_me, Fault(Own)
      PROVE  Orderly(Dev)'
  <2> DEFINE t == SessionFor(Own)
             d == Received(Own, t)
  <2>1. Arrives(Own) /\ Becomes(Kill(IF d.sess[t].ar THEN Abort(d, NoSess) ELSE d, t))
    BY <1>3 DEF Fault
  <2>2. t \in S /\ OfOrFresh(Own, t)
    BY <2>1, SessionChosen
  <2>3. OfActivity(Own) # {}
    BY <1>3, OwnSession DEF OfActivity
  <2>4. d \in DevType /\ Sound(d) /\ Orderly(d) /\ d.ar = ar
    BY <2>2, <2>3, ReceivedOrderly DEF OfOrFresh
  <2> HIDE DEF t, d
  <2> QED BY <2>1, <2>2, <2>4, FaultOrderly
<1> QED BY <1>2, <1>3 DEF AnswerStep

-----------------------------------------------------------------------------
\* A session for the request of the device: no other has its activity, for
\* the device has no request under way while it waits for Application Ready.
LEMMA AppReadyOrderly ==
    ASSUME Sound(Dev), Orderly(Dev), NEW sendOk \in BOOLEAN, AppReady(sendOk)
    PROVE  Orderly(Dev)'
<1> DEFINE d == StateInd(Dev, "APPLRDY")
           k == First(FreeSessions)
           n == [NoSession EXCEPT !.in_use = TRUE, !.act = Own, !.from_me = TRUE,
                                  !.ar = TRUE, !.left = Resends - 1, !.timer = sendOk]
           f == [[d EXCEPT !.sess[k] = n] EXCEPT !.ar.cmdev = "W_ARDYCNF"]
<1>1. /\ ar.in_use /\ ar.cmdev = "W_ARDY"
      /\ Becomes(d) \/ (FreeSessions # {} /\ Becomes(f))
  BY DEF AppReady, CControlReq
<1>2. /\ Dev \in DevType /\ SessionsDev(Dev) /\ ar \in ArType
      /\ Dev.ar = ar /\ Dev.sess = sess /\ Dev.ci = ci /\ Dev.map = map
  BY DEF Sound, Dev, DevType
<1>3. /\ ar.cmsu = "STARTUP" /\ ar.cmio = "WDATA" /\ ar.cmwrr \in {"PRMEND", "DATA"}
      /\ ar.cmsm = "RUN" /\ ar.cmpbe = "IDLE" /\ ar.ppm = "RUN" /\ ~ar.alarm
  BY <1>1, <1>2 DEF Orderly, InStepAr, ArType
<1>4. /\ KeptDev(Dev, d) /\ d.ar.ppm = "RUN" /\ d.ar.cmio = "WDATA" /\ d.ar.cmwrr = "DATA"
      /\ d.ar.cmsm = "RUN" /\ d.ar.cmpbe = "IDLE"
  BY <1>2, <1>3, StateIndMoves DEF Events, CmioNext, CmwrrNext, CmsmNext, CmpbeNext
<1> HIDE DEF d
<1>5. /\ d \in DevType /\ d.ar \in ArType /\ d.sess = sess /\ d.ci = ci /\ d.map = map
      /\ d.ar.in_use /\ d.ar.uuid = ar.uuid /\ d.ar.sess = ar.sess
      /\ d.ar.cmdev = "W_ARDY" /\ d.ar.cmsu = "STARTUP" /\ ~d.ar.alarm
      /\ \A c \in CRs : d.ar.cpm[c].running = ar.cpm[c].running
  BY <1>1, <1>2, <1>3, <1>4 DEF KeptDev, Kept
<1>6. Orderly(d)
  <2>1. InStepAr(d.ar)
    BY <1>4, <1>5 DEF InStepAr
  <2>2. Kept(ar, [d.ar EXCEPT !.cmdev = ar.cmdev, !.alarm = ar.alarm])
    <3> DEFINE q == d.ar
    <3>1. /\ q \in ArType /\ ar \in ArType /\ q.in_use = ar.in_use /\ q.uuid = ar.uuid
          /\ q.sess = ar.sess /\ q.cmsu = ar.cmsu
      <4>1. q.in_use /\ ar.in_use
        BY <1>1, <1>5
      <4>2. \A r \in ArType : r.in_use \in BOOLEAN
        BY DEF ArType
      <4> QED BY <1>2, <1>3, <1>5, <4>1, <4>2
    <3>2. \A c \in CRs : q.cpm[c].running = ar.cpm[c].running
      BY <1>5
    <3> HIDE DEF q
    <3>3. Kept(ar, [q EXCEPT !.cmdev = ar.cmdev, !.alarm = ar.alarm])
      BY <3>1, <3>2, KeptFrom
    <3> QED BY <3>3 DEF q
  <2> QED BY <1>1, <1>2, <1>5, <2>1, <2>2, MachinesOrderly
<1>7. ASSUME FreeSessions # {} PROVE f \in DevType /\ Orderly(f)
  <2>1. k \in S /\ ~sess[k].in_use
    BY <1>7, FirstSession DEF FreeSessions
  <2>2. n \in SessionType /\ n.in_use /\ n.from_me /\ n.act = Own
    <3>1. Resends - 1 \in 0 .. Resends
      BY ConnectionAssumption
    <3> QED BY <3>1, ClearedTypes DEF NoSession, SessionType
  <2> HIDE DEF k, n
  <2>3. /\ f \in DevType /\ f.sess = [sess EXCEPT ![k] = n] /\ f.ci = ci /\ f.map = map
        /\ f.ar = [d.ar EXCEPT !.cmdev = "W_ARDYCNF"]
    BY <1>5, <2>2 DEF DevType, ArType
  <2> HIDE DEF f
  <2>4. f.sess[k] = n /\ \A t \in S \ {k} : f.sess[t] = sess[t]
    BY <1>2, <2>1, <2>3 DEF DevType
  <2>5. /\ f.ar.in_use /\ f.ar.uuid = ar.uuid /\ f.ar.sess = ar.sess
        /\ f.ar.cmdev = "W_ARDYCNF" /\ f.ar.cmsu = "STARTUP" /\ ~f.ar.alarm
        /\ f.ar.ppm = "RUN" /\ f.ar.cmio = "WDATA" /\ f.ar.cmwrr = "DATA"
        /\ f.ar.cmsm = "RUN" /\ f.ar.cmpbe = "IDLE"
        /\ \A c \in CRs : f.ar.cpm[c].running = ar.cpm[c].running
    BY <1>4, <1>5, <2>3 DEF ArType
  <2>6. InStepAr(f.ar) /\ InUseAr(f.ar)
    BY <2>5 DEF InStepAr, InUseAr, IdleAr
  <2>7. ConsumersDev(f)
    BY <1>2, <1>3, <2>3, <2>5 DEF Orderly, ConsumersDev, Handlers
  <2>8. ActsDev(Dev) /\ ArDev(Dev)
    BY DEF Orderly
  <2>9. \A t \in S : sess[t].in_use => ~sess[t].from_me /\ sess[t].act # Own
    BY <1>1, <1>2, <2>8 DEF SessionsDev, OwnRequest, ActsDev
  <2>10. ActsDev(f)
    <3>1. ASSUME NEW t \in S, NEW q \in S, f.sess[t].in_use, f.sess[q].in_use,
                 f.sess[t].act = f.sess[q].act
          PROVE  t = q
      BY <1>2, <2>2, <2>4, <2>8, <2>9, <3>1 DEF ActsDev
    <3>2. ASSUME NEW t \in S, f.sess[t].in_use
          PROVE  f.sess[t].from_me <=> f.sess[t].act = Own
      BY <2>2, <2>4, <2>9, <3>2
    <3> QED BY <3>1, <3>2 DEF ActsDev
  <2>11. ArDev(f)
    <3>1. /\ ar.sess \in S /\ sess[ar.sess].in_use /\ sess[ar.sess].ar
          /\ <<sess[ar.sess].act, ar.uuid>> \in Uses
      BY <1>1, <1>2, <2>8 DEF ArDev
    <3>2. f.sess[ar.sess] = sess[ar.sess]
      BY <2>1, <2>4, <3>1
    <3> QED BY <2>5, <3>1, <3>2 DEF ArDev
  <2> QED BY <2>3, <2>6, <2>7, <2>10, <2>11 DEF Orderly
<1> HIDE DEF f
<1> QED BY <1>1, <1>5, <1>6, <1>7, BecomesOrderly

LEMMA ApplicationOrderly ==
    ASSUME Sound(Dev), Orderly(Dev), ApplicationStep
    PROVE  Orderly(Dev)'
<1>1. ASSUME LocalAbort PROVE Orderly(Dev)'
  <2>1. Becomes(Abort(Dev, NoSess))
    BY <1>1 DEF LocalAbort
  <2> QED BY <2>1, AbortsOrderly, BecomesOrderly
<1> QED BY <1>1, AppReadyOrderly DEF ApplicationStep

-----------------------------------------------------------------------------
\* The timers of pf_cmsm and of the device's own request.
LEMMA CmsmOrderly ==
    ASSUME Sound(Dev), Orderly(Dev), CmsmTimeout
    PROVE  Orderly(Dev)'
<1> DEFINE d == [Dev EXCEPT !.monitor = FALSE]
<1>1. Dev \in DevType /\ Dev.ar = ar /\ SessionsDev(Dev) /\ SupervisedDev(Dev)
  BY DEF Sound, Dev
<1>2. monitor /\ Becomes(IF ar.cmsm = "RUN" THEN Abort(d, NoSess) ELSE d)
  BY DEF CmsmTimeout
<1>3. Becomes(Abort(d, NoSess))
  BY <1>1, <1>2 DEF SupervisedDev, Dev
<1>4. /\ d \in DevType /\ ~d.monitor /\ d.ar = Dev.ar /\ d.sess = Dev.sess
      /\ d.ci = Dev.ci /\ d.map = Dev.map
  BY <1>1 DEF DevType
<1> HIDE DEF d
<1>5. SessionsDev(d)
  BY <1>1, <1>4 DEF SessionsDev, PointsToAr, OwnRequest
<1>6. Closable(d) /\ ActsDev(d)
  BY <1>1, <1>4, OrderlyCloses DEF Closable, ActsDev
<1>7. Abort(d, NoSess) \in DevType /\ Orderly(Abort(d, NoSess))
  BY <1>4, <1>5, <1>6, AbortOrderly
<1> QED BY <1>3, <1>7, BecomesOrderly

LEMMA ResendOrderly ==
    ASSUME Sound(Dev), Orderly(Dev), NEW s \in S, NEW sendOk \in BOOLEAN,
           ResendExpired(s, sendOk)
    PROVE  Orderly(Dev)'
<1> DEFINE n == [sess[s] EXCEPT !.left = @ - 1, !.timer = sendOk]
           m == [sess[s] EXCEPT !.timer = FALSE]
           f == [Dev EXCEPT !.sess = [sess EXCEPT ![s] = n]]
           g == [Dev EXCEPT !.sess = [sess EXCEPT ![s] = m]]
<1>1. /\ Dev \in DevType /\ SessionsDev(Dev) /\ SupervisedDev(Dev)
      /\ Dev.ar = ar /\ Dev.sess = sess /\ sess \in [S -> SessionType]
      /\ sess[s] \in SessionType
  BY DEF Sound, Dev, DevType
<1>2. sess[s].left > 0 => n \in SessionType
  <2>1. sess[s].left \in 0 .. Resends
    BY <1>1 DEF SessionType
  <2>2. sess[s].left > 0 => sess[s].left - 1 \in 0 .. Resends
    BY <2>1, ConnectionAssumption
  <2> QED BY <1>1, <2>2 DEF SessionType
<1>3. /\ n.ar = sess[s].ar /\ n.in_use = sess[s].in_use /\ n.from_me = sess[s].from_me
      /\ n.act = sess[s].act
      /\ m.ar = sess[s].ar /\ m.in_use = sess[s].in_use /\ m.from_me = sess[s].from_me
      /\ m.act = sess[s].act /\ ~m.timer /\ m \in SessionType
  BY <1>1 DEF SessionType
<1>4. \/ sess[s].left > 0 /\ Becomes(f)
      \/ Becomes(Abort(g, NoSess))
  BY <1>1 DEF ResendExpired, DevType
<1> HIDE DEF n, m
<1>5. ASSUME sess[s].left > 0 PROVE f \in DevType /\ Orderly(f)
  <2>1. /\ f \in DevType /\ f.ar = Dev.ar /\ f.ci = Dev.ci /\ f.map = Dev.map
        /\ f.sess[s] = n /\ \A t \in S \ {s} : f.sess[t] = sess[t]
    BY <1>1, <1>2, <1>5 DEF DevType
  <2> HIDE DEF f
  <2>2. SameSessions(Dev, f)
    BY <1>1, <1>3, <2>1 DEF SameSessions
  <2> QED BY <1>1, <2>1, <2>2, SameSessionsOrderly
<1>6. Abort(g, NoSess) \in DevType /\ Orderly(Abort(g, NoSess))
  <2>1. /\ g \in DevType /\ g.ar = Dev.ar /\ g.ci = Dev.ci /\ g.map = Dev.map
        /\ g.monitor = Dev.monitor
        /\ g.sess[s] = m /\ \A t \in S \ {s} : g.sess[t] = sess[t]
    BY <1>1, <1>3 DEF DevType
  <2> HIDE DEF g
  <2>2. SameSessions(Dev, g)
    BY <1>1, <1>3, <2>1 DEF SameSessions
  <2>3. Orderly(g)
    BY <1>1, <2>1, <2>2, SameSessionsOrderly
  <2>4. SessionsDev(g)
    <3>1. \A t \in S : g.sess[t].timer => sess[t].timer
      BY <1>3, <2>1
    <3> QED BY <1>1, <2>1, <2>2, <3>1 DEF SessionsDev, PointsToAr, OwnRequest, SameSessions
  <2>5. g.monitor => g.ar.cmsm = "RUN"
    BY <1>1, <2>1 DEF SupervisedDev
  <2> QED BY <2>1, <2>3, <2>4, <2>5, AbortOrderly, OrderlyCloses
<1> HIDE DEF f, g
<1> QED BY <1>4, <1>5, <1>6, BecomesOrderly

-----------------------------------------------------------------------------
\* The timers of pf_cmio and pf_cpm, and frames: what they write of an AR
\* that stays does not concern its machines.
SameMachines(r, q) ==
    /\ q.in_use = r.in_use /\ q.uuid = r.uuid /\ q.sess = r.sess /\ q.cmdev = r.cmdev
    /\ q.cmsu = r.cmsu /\ q.cmio = r.cmio /\ q.cmwrr = r.cmwrr /\ q.cmsm = r.cmsm
    /\ q.cmpbe = r.cmpbe /\ q.alarm = r.alarm /\ q.ppm = r.ppm

LEMMA RecordOrderly ==
    ASSUME NEW d \in DevType, NEW f \in DevType, Orderly(d), SameMachines(d.ar, f.ar),
           IdleAr(f.ar), f.sess = d.sess, ConsumersDev(f)
    PROVE  Orderly(f)
<1>1. InStepAr(f.ar)
  BY DEF Orderly, InStepAr, SameMachines
<1>2. InUseAr(f.ar)
  BY DEF Orderly, InUseAr, SameMachines
<1>3. ActsDev(f) /\ ArDev(f)
  BY DEF Orderly, ActsDev, ArDev, SameMachines
<1> QED BY <1>1, <1>2, <1>3 DEF Orderly

\* The same, when no consumer starts or stops.
LEMMA ReadyOrderly ==
    ASSUME NEW d \in DevType, NEW f \in DevType, Orderly(d), SameMachines(d.ar, f.ar),
           IdleAr(f.ar), f.sess = d.sess, f.ci = d.ci, f.map = d.map,
           \A c \in CRs : f.ar.cpm[c].running = d.ar.cpm[c].running
    PROVE  Orderly(f)
<1>1. ConsumersDev(f)
  BY DEF Orderly, ConsumersDev, SameMachines, Handlers
<1> QED BY <1>1, RecordOrderly

LEMMA PollOrderly ==
    ASSUME Sound(Dev), Orderly(Dev), PollExpired
    PROVE  Orderly(Dev)'
<1>1. PICK t \in Expiring(poll) :
        LET d == [Dev EXCEPT !.poll = t]
            i == CmioInfoInd(d, \A c \in CRs : ar.cpm[c].start)
        IN  Becomes(IF ar.cmio = "WDATA" /\ ar.resched
                    THEN [i EXCEPT !.poll = Added(@)]
                    ELSE [d EXCEPT !.poll = Orphan(@), !.ar.resched = FALSE])
  BY DEF PollExpired
<1> DEFINE possible == \A c \in CRs : ar.cpm[c].start
           d == [Dev EXCEPT !.poll = t]
           i == CmioInfoInd(d, possible)
           f == [i EXCEPT !.poll = Added(@)]
           g == [d EXCEPT !.poll = Orphan(@), !.ar.resched = FALSE]
           x(b) == [d EXCEPT !.ar.ready = b]
           y == [StateInd(x(TRUE), "DATA") EXCEPT !.ar.cmdev = "DATA"]
<1>2. /\ Dev \in DevType /\ Dev.ar = ar /\ Dev.sess = sess /\ Dev.ci = ci /\ Dev.map = map
      /\ poll \in TimerType /\ ar \in ArType
  BY DEF Sound, Dev, DevType
<1>3. t \in TimerType /\ possible \in BOOLEAN /\ InStepAr(ar) /\ InUseAr(ar) /\ IdleAr(ar)
  BY <1>2, ExpiringTypes DEF Orderly, InUseAr
<1>4. d \in DevType /\ d.ar = ar /\ d.sess = sess /\ d.ci = ci /\ d.map = map
  BY <1>2, <1>3 DEF DevType
<1>5. \/ ar.cmio = "WDATA" /\ Becomes(f)
      \/ Becomes(g)
  BY <1>1
<1> HIDE DEF possible, d
<1>6. Orderly(d)
  BY <1>2, <1>3, <1>4, ReadyOrderly DEF SameMachines
<1>7. \/ i = x(possible) \/ i = x(FALSE) \/ i = d
      \/ i = y /\ ar.cmdev = "WDATA"
  BY <1>3, <1>4 DEF CmioInfoInd
<1>8. ASSUME NEW b \in BOOLEAN
      PROVE  /\ x(b) \in DevType /\ x(b).sess = sess /\ x(b).ci = ci /\ x(b).map = map
             /\ SameMachines(ar, x(b).ar) /\ x(b).ar.cpm = ar.cpm
             /\ x(b).ar \in ArType
  BY <1>2, <1>4 DEF DevType, ArType, SameMachines
<1> HIDE DEF x
<1>9. ASSUME ar.cmio = "WDATA", NEW b \in BOOLEAN PROVE x(b) \in DevType /\ Orderly(x(b))
  <2>1. ar.in_use
    BY <1>3, <1>9 DEF IdleAr, NoAr
  <2>2. IdleAr(x(b).ar)
    BY <1>8, <2>1 DEF IdleAr, SameMachines
  <2> QED BY <1>2, <1>8, <2>2, ReadyOrderly
<1>10. ASSUME ar.cmdev = "WDATA" PROVE y \in DevType /\ Orderly(y)
  <2> DEFINE e == x(TRUE)
  <2>1. /\ e \in DevType /\ e.sess = Dev.sess /\ e.ci = Dev.ci /\ e.map = Dev.map
        /\ SameMachines(ar, e.ar) /\ e.ar.cpm = ar.cpm /\ e.ar \in ArType
    BY <1>2, <1>8
  <2> HIDE DEF e
  <2>2. e.ar.alarm /\ ar.in_use
    BY <1>3, <1>10, <2>1 DEF InStepAr, SameMachines, InUseAr, IdleAr, NoAr
  <2>3. /\ SamePpm(ar, e.ar) /\ SameCmio(ar, e.ar) /\ SameCmwrr(ar, e.ar)
        /\ SameCmsm(ar, e.ar) /\ SameCmpbe(ar, e.ar)
    BY <2>1 DEF SameMachines, SamePpm, SameCmio, SameCmwrr, SameCmsm, SameCmpbe
  <2>4. Kept(ar, [e.ar EXCEPT !.alarm = ar.alarm])
    BY <1>2, <2>1 DEF SameMachines, Kept, ArType
  <2>5. LET h == [StateInd(e, "DATA") EXCEPT !.ar.cmdev = "DATA"]
        IN  h \in DevType /\ Orderly(h)
    BY <1>2, <1>10, <2>1, <2>2, <2>3, <2>4, DataOrderly
  <2> QED BY <2>5 DEF e
<1> HIDE DEF y
<1>11. ASSUME ar.cmio = "WDATA" PROVE i \in DevType /\ Orderly(i)
  <2>1. CASE i = x(possible)
    BY <1>3, <1>9, <1>11, <2>1
  <2>2. CASE i = x(FALSE)
    BY <1>9, <1>11, <2>2
  <2>3. CASE i = d
    BY <1>4, <1>6, <2>3
  <2>4. CASE i = y /\ ar.cmdev = "WDATA"
    BY <1>10, <2>4
  <2> QED BY <1>7, <2>1, <2>2, <2>3, <2>4
<1> HIDE DEF i
<1>12. CASE ar.cmio = "WDATA" /\ Becomes(f)
  <2>1. i \in DevType /\ Orderly(i) /\ i.poll \in TimerType
    BY <1>11, <1>12 DEF DevType
  <2>2. Added(i.poll) \in TimerType
    BY <2>1, TimerTypes
  <2>3. /\ f \in DevType /\ f.ar = i.ar /\ f.sess = i.sess /\ f.ci = i.ci /\ f.map = i.map
    BY <2>1, <2>2 DEF DevType
  <2> HIDE DEF f
  <2>4. Orderly(f)
    BY <2>1, <2>3, SameSessionsOrderly DEF SameSessions
  <2> QED BY <1>12, <2>3, <2>4, BecomesOrderly
<1>13. CASE Becomes(g)
  <2> DEFINE u == Orphan(d.poll)
             r == [ar EXCEPT !.resched = FALSE]
  <2>1. u \in TimerType
    BY <1>4, TimerTypes DEF DevType
  <2>2. r \in ArType /\ SameMachines(ar, r) /\ r.cpm = ar.cpm
    BY <1>2 DEF ArType, SameMachines
  <2>3. IdleAr(r)
    <3>1. CASE ar.in_use
      BY <2>2, <3>1 DEF IdleAr, SameMachines
    <3>2. CASE ~ar.in_use
      <4>1. ar = NoAr /\ ar.resched = FALSE
        BY <1>3, <3>2 DEF IdleAr, NoAr
      <4>2. r = ar
        BY <1>2, <4>1 DEF ArType
      <4> QED BY <4>1, <4>2 DEF IdleAr
    <3> QED BY <3>1, <3>2
  <2>4. g = [d EXCEPT !.poll = u, !.ar = r]
    BY <1>4 DEF DevType
  <2> HIDE DEF u, r, g
  <2>5. g \in DevType /\ g.ar = r /\ g.sess = d.sess /\ g.ci = d.ci /\ g.map = d.map
    BY <1>4, <2>1, <2>2, <2>4 DEF DevType
  <2>6. Orderly(g)
    BY <1>4, <1>6, <2>2, <2>3, <2>5, ReadyOrderly
  <2> QED BY <1>13, <2>5, <2>6, BecomesOrderly
<1> QED BY <1>5, <1>12, <1>13

\* The one timer of a consumer that runs has expired: it has none until the
\* handler starts it again.
LEMMA CiTimer ==
    ASSUME NEW t \in TimerType, t.lost = 0, NEW u \in Expiring(t)
    PROVE  /\ t.named /\ ~Orphan(u).named /\ Orphan(u).lost = 0 /\ Orphan(u) \in TimerType
           /\ Added(Orphan(u)).named /\ Added(Orphan(u)).lost = 0
           /\ Added(Orphan(u)) \in TimerType
<1>1. u \in TimerType
  BY ExpiringTypes
<1>2. u = [t EXCEPT !.named = FALSE] /\ u # t
  BY DEF Expiring, TimerType
<1>3. t.named /\ ~u.named /\ u.lost = 0
  BY <1>2 DEF TimerType
<1>4. ~Orphan(u).named /\ Orphan(u).lost = 0
  BY <1>3 DEF Orphan, Count
<1> DEFINE o == Orphan(u)
<1>5. o \in TimerType /\ Added(o) \in TimerType /\ Added(o).named
  BY <1>1, TimerTypes
<1> HIDE DEF o
<1>6. Added(o).lost = o.lost + Count(o.named)
  BY DEF Added, Orphan
<1>7. Added(o).lost = 0
  BY <1>4, <1>6 DEF Count, o
<1> QED BY <1>3, <1>4, <1>5, <1>7 DEF o

LEMMA CiOrderly ==
    ASSUME Sound(Dev), Orderly(Dev), NEW c \in CRs, CiExpired(c)
    PROVE  Orderly(Dev)'
<1>1. PICK t \in Expiring(ci[c]) :
        LET d == [Dev EXCEPT !.ci[c] = Orphan(t)]
            e == [d EXCEPT !.ci[c] = Added(@)]
        IN  Becomes(
              IF ~ar.cpm[c].running THEN d
              ELSE IF ar.cpm[c].state # "RUN" THEN e
              ELSE IF ar.cpm[c].dht < DataHold THEN [e EXCEPT !.ar.cpm[c].dht = @ + 1]
              ELSE CpmStopped(d, c))
  BY DEF CiExpired
<1> DEFINE o == Orphan(t)
           d == [Dev EXCEPT !.ci[c] = o]
           e == [d EXCEPT !.ci[c] = Added(@)]
           f == [e EXCEPT !.ar.cpm[c].dht = @ + 1]
           x(v) == [d EXCEPT !.ar.cpm[c] = v]
           w == [CpmOff EXCEPT !.start = d.ar.cpm[c].start]
<1>2. /\ Dev \in DevType /\ Dev.ar = ar /\ Dev.ci = ci /\ Dev.sess = sess /\ Dev.map = map
      /\ Dev.monitor = monitor /\ SessionsDev(Dev) /\ SupervisedDev(Dev)
      /\ ci \in [CRs -> TimerType] /\ ar \in ArType /\ ar.cpm \in [CRs -> CpmType]
  BY DEF Sound, Dev, DevType, ArType
<1>3. \A b \in CRs : /\ map[b] = Handlers(ar) /\ ci[b].lost = 0
                     /\ ci[b].named <=> ar.cpm[b].running
  BY <1>2 DEF Orderly, ConsumersDev
<1>4. /\ ci[c].named /\ o \in TimerType /\ ~o.named /\ o.lost = 0
      /\ Added(o) \in TimerType /\ Added(o).named /\ Added(o).lost = 0
  BY <1>2, <1>3, CiTimer
<1>5. ar.cpm[c].running /\ ar.in_use
  <2>1. ar.cpm[c].running
    BY <1>3, <1>4
  <2> QED BY <1>2, <2>1 DEF Orderly, InUseAr, IdleAr, NoAr, CpmOff
<1>6. \/ Becomes(e) \/ (ar.cpm[c].dht < DataHold /\ Becomes(f)) \/ Becomes(CpmStopped(d, c))
  BY <1>1, <1>5
<1> HIDE DEF o
<1>7. /\ d \in DevType /\ d.ar = ar /\ d.sess = sess /\ d.map = map /\ d.monitor = monitor
      /\ d.ci[c] = o /\ \A b \in CRs \ {c} : d.ci[b] = ci[b]
  BY <1>2, <1>4 DEF DevType
<1> HIDE DEF d
<1>8. /\ e \in DevType /\ e.ar = ar /\ e.sess = sess /\ e.map = map
      /\ e.ci[c] = Added(o) /\ \A b \in CRs \ {c} : e.ci[b] = ci[b]
  BY <1>4, <1>7 DEF DevType
<1> HIDE DEF e
<1>9. SameMachines(ar, ar) /\ IdleAr(ar)
  BY <1>2 DEF SameMachines, Orderly, InUseAr
<1>10. Orderly(e)
  <2>1. ConsumersDev(e)
    BY <1>3, <1>4, <1>5, <1>8 DEF ConsumersDev
  <2> QED BY <1>2, <1>8, <1>9, <2>1, RecordOrderly
\* A consumer's record changes in an AR that is in use.
<1>11. ASSUME NEW v, NEW p \in [CRs -> CpmType], p = [ar.cpm EXCEPT ![c] = v]
       PROVE  LET r == [ar EXCEPT !.cpm = p]
              IN  r \in ArType /\ SameMachines(ar, r) /\ IdleAr(r) /\ r.cpm = p
  BY <1>2, <1>5 DEF ArType, SameMachines, IdleAr
<1>12. ASSUME ar.cpm[c].dht < DataHold PROVE f \in DevType /\ Orderly(f)
  <2> DEFINE v == [ar.cpm[c] EXCEPT !.dht = @ + 1]
             p == [ar.cpm EXCEPT ![c] = v]
             r == [ar EXCEPT !.cpm = p]
  <2>1. ar.cpm[c] \in CpmType /\ ar.cpm[c].dht \in 0 .. DataHold
    BY <1>2 DEF CpmType
  <2>2. ar.cpm[c].dht + 1 \in 0 .. DataHold
    BY <1>12, <2>1, ConnectionAssumption
  <2>3. v \in CpmType /\ v.running = ar.cpm[c].running
    BY <2>1, <2>2 DEF CpmType
  <2>4. f = [e EXCEPT !.ar = r]
    BY <1>2, <1>8 DEF DevType, ArType
  <2> HIDE DEF v, f
  <2>5. p \in [CRs -> CpmType] /\ \A b \in CRs : p[b].running = ar.cpm[b].running
    BY <1>2, <2>3
  <2>6. r \in ArType /\ SameMachines(ar, r) /\ IdleAr(r) /\ r.cpm = p
    BY <1>11, <2>5
  <2> HIDE DEF p, r
  <2>7. f \in DevType /\ f.ar = r /\ f.sess = e.sess /\ f.ci = e.ci /\ f.map = e.map
    BY <1>8, <2>4, <2>6 DEF DevType
  <2>8. Orderly(f)
    BY <1>8, <1>10, <2>5, <2>6, <2>7, ReadyOrderly
  <2> QED BY <2>7, <2>8
<1>13. ASSUME NEW v \in CpmType, ~v.running PROVE x(v) \in DevType /\ Orderly(x(v))
  <2> DEFINE p == [ar.cpm EXCEPT ![c] = v]
             r == [ar EXCEPT !.cpm = p]
             g == [d EXCEPT !.ar = r]
  <2>1. x(v) = g
    BY <1>2, <1>7 DEF DevType, ArType
  <2>2. p \in [CRs -> CpmType] /\ p[c] = v /\ \A b \in CRs \ {c} : p[b] = ar.cpm[b]
    BY <1>2
  <2>3. r \in ArType /\ SameMachines(ar, r) /\ IdleAr(r) /\ r.cpm = p
    BY <1>11, <2>2
  <2> HIDE DEF p, r, x
  <2>4. g \in DevType /\ g.ar = r /\ g.sess = d.sess /\ g.ci = d.ci /\ g.map = d.map
    BY <1>7, <2>3 DEF DevType
  <2> HIDE DEF g
  <2>5. Handlers(r) = Handlers(ar)
    BY <2>3 DEF Handlers, SameMachines
  <2>6. ConsumersDev(g)
    BY <1>3, <1>4, <1>7, <1>13, <2>2, <2>3, <2>4, <2>5 DEF ConsumersDev
  <2>7. Orderly(g)
    BY <1>2, <1>7, <2>3, <2>4, <2>6, RecordOrderly
  <2> QED BY <2>1, <2>4, <2>7
<1>14. Abort(d, NoSess) \in DevType /\ Orderly(Abort(d, NoSess))
  <2>1. SessionsDev(d) /\ (d.monitor => d.ar.cmsm = "RUN")
    BY <1>2, <1>7 DEF SessionsDev, PointsToAr, OwnRequest, SupervisedDev
  <2>2. Closable(Dev) /\ ActsDev(Dev)
    BY <1>2, OrderlyCloses
  <2>3. Closable(d)
    BY <1>2, <1>4, <1>7, <2>2 DEF Closable
  <2>4. ActsDev(d)
    BY <1>2, <1>7, <2>2 DEF ActsDev
  <2> QED BY <1>7, <2>1, <2>3, <2>4, AbortOrderly
<1>15. CpmOff \in CpmType /\ ~CpmOff.running /\ w \in CpmType /\ ~w.running
  <2>1. d.ar.cpm[c].start \in BOOLEAN
    BY <1>2, <1>7 DEF CpmType
  <2> QED BY <2>1, ClearedTypes DEF CpmType, CpmOff
<1>16. \/ CpmStopped(d, c) = Abort(d, NoSess)
       \/ CpmStopped(d, c) = x(CpmOff)
       \/ CpmStopped(d, c) = x(w)
  BY DEF CpmStopped
<1> HIDE DEF f, x, w
<1>17. CpmStopped(d, c) \in DevType /\ Orderly(CpmStopped(d, c))
  BY <1>13, <1>14, <1>15, <1>16
<1> QED BY <1>6, <1>8, <1>10, <1>12, <1>17, BecomesOrderly

LEMMA TimerOrderly ==
    ASSUME Sound(Dev), Orderly(Dev), TimerStep
    PROVE  Orderly(Dev)'
BY CmsmOrderly, PollOrderly, CiOrderly, ResendOrderly DEF TimerStep

\* A received frame writes a consumer's record, but never whether it runs.
LEMMA EthernetOrderly ==
    ASSUME Sound(Dev), Orderly(Dev), EthernetStep
    PROVE  Orderly(Dev)'
<1>1. /\ Dev \in DevType /\ Dev.ar = ar /\ Dev.sess = sess /\ Dev.ci = ci /\ Dev.map = map
      /\ Dev.poll = poll /\ Dev.monitor = monitor
      /\ ar \in ArType /\ ar.cpm \in [CRs -> CpmType]
  BY DEF Sound, Dev, DevType, ArType
<1>2. UNCHANGED <<sess, poll, ci, monitor, map>>
  BY DEF EthernetStep
<1>3. ASSUME UNCHANGED ar PROVE Orderly(Dev)'
  <2>1. Becomes(Dev)
    BY <1>1, <1>2, <1>3 DEF Becomes
  <2> QED BY <1>1, <2>1, BecomesOrderly
<1>4. ASSUME ar.in_use, NEW p \in [CRs -> CpmType], ar' = [ar EXCEPT !.cpm = p],
             \A c \in CRs : p[c].running = ar.cpm[c].running
      PROVE  Orderly(Dev)'
  <2> DEFINE r == [ar EXCEPT !.cpm = p]
             f == [Dev EXCEPT !.ar = r]
  <2>1. r \in ArType /\ SameMachines(ar, r) /\ IdleAr(r) /\ r.cpm = p
    BY <1>1, <1>4 DEF ArType, SameMachines, IdleAr
  <2>2. ar' = r
    BY <1>4
  <2> HIDE DEF r
  <2>3. /\ f \in DevType /\ f.ar = r /\ f.sess = Dev.sess /\ f.ci = Dev.ci /\ f.map = Dev.map
        /\ f.poll = Dev.poll /\ f.monitor = Dev.monitor
    BY <1>1, <2>1 DEF DevType
  <2> HIDE DEF f
  <2>4. Orderly(f)
    BY <1>1, <1>4, <2>1, <2>3, ReadyOrderly
  <2>5. Becomes(f)
    BY <1>1, <1>2, <2>2, <2>3 DEF Becomes
  <2> QED BY <2>3, <2>4, <2>5, BecomesOrderly
<1>5. ASSUME NEW c \in CRs, FrameStart(c) PROVE Orderly(Dev)'
  <2>1. UNCHANGED ar
    BY <1>5 DEF FrameStart, NullAr
  <2> QED BY <1>3, <2>1
<1>6. ASSUME FrameData PROVE Orderly(Dev)'
  <2> DEFINE p == [c \in CRs |-> IF c = rx.cr
                       THEN [ar.cpm[c] EXCEPT !.start = @ \/ ar.cmio = "WDATA"]
                       ELSE ar.cpm[c]]
  <2>1. CASE ~ar.in_use
    BY <1>3, <1>6, <2>1 DEF FrameData, NullAr
  <2>2. CASE ar.in_use
    <3>1. ar' = [ar EXCEPT !.cpm[rx.cr].start = @ \/ ar.cmio = "WDATA"]
      BY <1>6, <2>2 DEF FrameData, NullAr
    <3>2. \A c \in CRs : p[c] \in CpmType /\ p[c].running = ar.cpm[c].running
      <4>1. \A c \in CRs : ar.cpm[c] \in CpmType
        BY <1>1 DEF ArType
      <4>2. ASSUME NEW r \in CpmType, NEW b \in BOOLEAN
            PROVE  [r EXCEPT !.start = b] \in CpmType /\ [r EXCEPT !.start = b].running = r.running
        BY DEF CpmType
      <4>3. ASSUME NEW c \in CRs
            PROVE  p[c] = ar.cpm[c] \/ \E b \in BOOLEAN : p[c] = [ar.cpm[c] EXCEPT !.start = b]
        <5>1. (ar.cpm[c].start \/ ar.cmio = "WDATA") \in BOOLEAN
          BY <4>1 DEF CpmType
        <5> QED BY <5>1
      <4> HIDE DEF p
      <4> TAKE c \in CRs
      <4>4. CASE p[c] = ar.cpm[c]
        BY <4>1, <4>4
      <4>5. ASSUME NEW b \in BOOLEAN, p[c] = [ar.cpm[c] EXCEPT !.start = b]
            PROVE  p[c] \in CpmType /\ p[c].running = ar.cpm[c].running
        BY <4>1, <4>2, <4>5
      <4> QED BY <4>3, <4>4, <4>5
    <3>3. p \in [CRs -> CpmType]
      BY <3>2
    <3>4. ar' = [ar EXCEPT !.cpm = p]
      BY <1>1, <3>1 DEF ArType
    <3> HIDE DEF p
    <3> QED BY <1>4, <2>2, <3>2, <3>3, <3>4
  <2> QED BY <2>1, <2>2
<1>7. ASSUME FrameEnd PROVE Orderly(Dev)'
  <2> DEFINE p == [c \in CRs |-> IF c = rx.cr
                       THEN [ar.cpm[c] EXCEPT !.dht = 0, !.state = "RUN"]
                       ELSE ar.cpm[c]]
  <2>1. CASE ~ar.in_use
    BY <1>3, <1>7, <2>1 DEF FrameEnd
  <2>2. CASE ar.in_use
    <3>1. ar' = [ar EXCEPT !.cpm[rx.cr] = [@ EXCEPT !.dht = 0, !.state = "RUN"]]
      BY <1>7, <2>2 DEF FrameEnd
    <3>2. 0 \in 0 .. DataHold
      BY ConnectionAssumption
    <3>3. ASSUME NEW c \in CRs PROVE p[c] \in CpmType /\ p[c].running = ar.cpm[c].running
      <4>1. ar.cpm[c] \in CpmType
        BY <1>1
      <4>2. /\ [ar.cpm[c] EXCEPT !.dht = 0, !.state = "RUN"] \in CpmType
            /\ [ar.cpm[c] EXCEPT !.dht = 0, !.state = "RUN"].running = ar.cpm[c].running
        BY <3>2, <4>1 DEF CpmType
      <4> QED BY <4>1, <4>2
    <3>4. p \in [CRs -> CpmType]
      BY <3>3
    <3>5. ar' = [ar EXCEPT !.cpm = p]
      BY <1>1, <3>1 DEF ArType
    <3> HIDE DEF p
    <3> QED BY <1>4, <2>2, <3>3, <3>4, <3>5
  <2> QED BY <2>1, <2>2
<1> QED BY <1>5, <1>6, <1>7 DEF EthernetStep

-----------------------------------------------------------------------------
(***************************************************************************)
(* The invariant: Sound, which holds whatever the controllers send, and    *)
(* Orderly, which needs their discipline.  NothingLeftBehind needs InStep  *)
(* (an abort closes the consumers when pf_cmsu says they were started),    *)
(* InStep needs ArHasSession (the session that a PrmEnd came on decides    *)
(* whether the machines hear of it), and ArHasSession needs the activities *)
(* to tell the sessions apart (a handler that ends by releasing a session  *)
(* releases another than the AR's).                                        *)
(***************************************************************************)
OInv == IInv /\ Orderly(Dev)

LEMMA InitOrderly == Init => OInv
<1> SUFFICES ASSUME Init PROVE OInv
  OBVIOUS
<1>1. IInv
  BY InitSound
<1>2. /\ Dev \in DevType /\ Dev.ar = NoAr /\ Dev.sess = [s \in S |-> NoSession]
      /\ Dev.ci = [c \in CRs |-> NoTimer] /\ Dev.map = [c \in CRs |-> 0]
  BY <1>1 DEF IInv, Sound, Init, Dev
<1>3. ActsDev(Dev)
  BY <1>2 DEF ActsDev, NoSession
<1>4. Orderly(Dev)
  BY <1>2, <1>3, GoneOrderly DEF NoTimer
<1> QED BY <1>1, <1>4 DEF OInv

LEMMA NextOrderly == ASSUME Discipline PROVE OInv /\ [Next]_vars => OInv'
<1> SUFFICES ASSUME OInv, [Next]_vars PROVE OInv'
  OBVIOUS
<1>1. IInv /\ Sound(Dev) /\ Orderly(Dev)
  BY DEF OInv, IInv
<1>2. IInv'
  BY <1>1, NextSound
<1>3. Orderly(Dev)'
  <2>1. CASE MainStep
    <3>1. CASE ConnectStep
      BY <1>1, <3>1, ConnectOrderly
    <3>2. CASE RequestStep
      BY <1>1, <3>2, RequestOrderly
    <3>3. CASE AnswerStep
      BY <1>1, <3>3, AnswerOrderly
    <3>4. CASE ApplicationStep
      BY <1>1, <3>4, ApplicationOrderly
    <3>5. CASE TimerStep
      BY <1>1, <3>5, TimerOrderly
    <3> QED BY <2>1, <3>1, <3>2, <3>3, <3>4, <3>5 DEF MainStep
  <2>2. CASE EthernetStep
    BY <1>1, <2>2, EthernetOrderly
  <2>3. CASE UNCHANGED vars
    <3>1. Becomes(Dev) /\ Dev \in DevType
      BY <1>1, <2>3 DEF vars, Becomes, Dev, Sound
    <3> QED BY <1>1, <3>1, BecomesOrderly
  <2> QED BY <2>1, <2>2, <2>3 DEF Next
<1> QED BY <1>2, <1>3 DEF OInv

LEMMA AlwaysOrderly == ASSUME Discipline PROVE Spec => []OInv
<1>1. OInv /\ [Next]_vars => OInv'
  BY NextOrderly
<1> QED BY <1>1, InitOrderly, PTL DEF Spec

\* Whatever the order of messages, timers and calls, between two handlers the
\* state of pf_cmdev determines that of the machines it drives: none of them
\* has missed an event or has heard one twice (pf_cmdev_state_ind).
THEOREM MachinesInStep == Discipline => (Spec => []InStep)
<1>1. OInv => InStep
  <2> SUFFICES ASSUME OInv PROVE InStep
    OBVIOUS
  <2>1. ar \in ArType /\ ar.alarm \in BOOLEAN /\ InStepAr(ar)
    BY DEF OInv, IInv, Sound, Orderly, Dev, DevType, ArType
  <2> QED BY <2>1 DEF InStep, InStepAr
<1>2. Discipline => (Spec => []OInv)
  BY AlwaysOrderly
<1> QED BY <1>1, <1>2, PTL

\* No consumer's timer and no frame handler outlives its AR, and while the AR
\* is there each consumer has one handler and as many timers as it needs
\* (pf_cmsu.c, pf_cpm.c, pf_cpm_driver_sw.c).
THEOREM NothingOutlivesTheAr == Discipline => (Spec => []NothingLeftBehind)
<1>1. OInv => NothingLeftBehind
  <2> SUFFICES ASSUME OInv, NEW c \in CRs
               PROVE  /\ map[c] = Count(ar.cmsu = "STARTUP")
                      /\ ci[c].lost = 0 /\ ci[c].named = ar.cpm[c].running
    BY DEF NothingLeftBehind
  <2>1. /\ ar \in ArType /\ ar.cpm \in [CRs -> CpmType] /\ ci \in [CRs -> TimerType]
        /\ ConsumersDev(Dev) /\ Dev.ar = ar /\ Dev.ci = ci /\ Dev.map = map
    BY DEF OInv, IInv, Sound, Orderly, Dev, DevType, ArType
  <2>2. /\ map[c] = Handlers(ar) /\ ci[c].lost = 0
        /\ ci[c].named <=> ar.cpm[c].running
    BY <2>1 DEF ConsumersDev
  <2>3. ci[c].named \in BOOLEAN /\ ar.cpm[c].running \in BOOLEAN
    BY <2>1 DEF TimerType, CpmType
  <2>4. ci[c].named = ar.cpm[c].running
    BY <2>2, <2>3
  <2> QED BY <2>2, <2>4 DEF Handlers, Count
<1>2. Discipline => (Spec => []OInv)
  BY AlwaysOrderly
<1> QED BY <1>1, <1>2, PTL

\* The session an AR names is in use and points back to it, for as long as
\* the AR lives: no handler releases a session that is not its own
\* (pf_session_release, kill_session in pf_cmrpc.c).
THEOREM SessionOutlivesTheAr == Discipline => (Spec => []ArHasSession)
<1>1. OInv => ArHasSession
  BY DEF OInv, Orderly, ArDev, ArHasSession, Dev
<1>2. Discipline => (Spec => []OInv)
  BY AlwaysOrderly
<1> QED BY <1>1, <1>2, PTL
=============================================================================
