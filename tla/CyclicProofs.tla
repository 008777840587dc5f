---------------------------- MODULE CyclicProofs ----------------------------
(***************************************************************************)
(* Proofs about Consumer and Provider, for any number of buffers, any data *)
(* hold factor, any width of the cycle counter, and any frames that are    *)
(* less late than the window allows.                                       *)
(***************************************************************************)
EXTENDS Consumer, Provider, TLAPS

-----------------------------------------------------------------------------
(***************************************************************************)
(* Arithmetic of the cycle counter.                                        *)
(***************************************************************************)
LEMMA ModIs ==
    ASSUME NEW M \in Nat \ {0}, NEW q \in Int, NEW r \in 0 .. M - 1
    PROVE  (q * M + r) % M = r
<1> DEFINE a == q * M + r
           k == a \div M
           m == a % M
<1>1. a \in Int /\ k \in Int /\ m \in 0 .. M - 1 /\ a = k * M + m
  OBVIOUS
<1>2. (q - k) * M = m - r
  BY <1>1
<1>3. q - k >= 1 => (q - k) * M >= M
  BY <1>1
<1>4. q - k <= -1 => (q - k) * M <= -M
  BY <1>1
<1>5. q = k
  BY <1>1, <1>2, <1>3, <1>4
<1> QED BY <1>1, <1>5

\* Residues can be taken before or after a subtraction.
LEMMA ModDifference ==
    ASSUME NEW M \in Nat \ {0}, NEW a \in Int, NEW b \in Int
    PROVE  ((a % M) - (b % M)) % M = (a - b) % M
<1> DEFINE c == a - b
           x == a \div M
           y == b \div M
           z == c \div M
<1>1. /\ x \in Int /\ a % M \in 0 .. M - 1 /\ a = x * M + (a % M)
      /\ y \in Int /\ b % M \in 0 .. M - 1 /\ b = y * M + (b % M)
      /\ z \in Int /\ c % M \in 0 .. M - 1 /\ c = z * M + (c % M)
  OBVIOUS
<1>2. (a % M) - (b % M) = (z - x + y) * M + (c % M)
  BY <1>1
<1> HIDE DEF c, x, y, z
<1>3. z - x + y \in Int
  BY <1>1
<1>4. ((z - x + y) * M + (c % M)) % M = c % M
  BY <1>1, <1>3, ModIs
<1> QED BY <1>2, <1>4 DEF c

\* A frame that passes the check of its cycle counter is newer, when it is less
\* late than the window allows.
LEMMA CheckedIsNewer ==
    ASSUME NEW prev \in Int, NEW n \in Int, n >= prev - MaxLate,
           CheckCycle(prev % CycleMod, n % CycleMod)
    PROVE  n > prev
<1>1. CycleMod \in Nat \ {0} /\ Window \in Nat /\ MaxLate \in Nat
      /\ MaxLate < CycleMod - Window
  BY CycleAssumption, ConsumerAssumption
<1>2. (n - prev) % CycleMod \in 1 .. Window
  BY <1>1, ModDifference DEF CheckCycle
<1>3. SUFFICES ASSUME n <= prev PROVE FALSE
  OBVIOUS
<1>4. CASE n = prev
  <2>1. (0 * CycleMod + 0) % CycleMod = 0
    BY <1>1, ModIs
  <2> QED BY <1>1, <1>2, <1>4, <2>1
<1>5. CASE n < prev
  <2> DEFINE r == n - prev + CycleMod
  <2>1. r \in 0 .. CycleMod - 1 /\ r > Window
    BY <1>1, <1>5
  <2>2. ((-1) * CycleMod + r) % CycleMod = r
    BY <1>1, <2>1, ModIs
  <2>3. (-1) * CycleMod + r = n - prev
    BY <1>1
  <2> HIDE DEF r
  <2>4. (n - prev) % CycleMod > Window
    BY <1>1, <2>1, <2>2, <2>3
  <2> QED BY <1>1, <1>2, <2>4
<1> QED BY <1>3, <1>4, <1>5

\* pf_ppm_calculate_next_cyclecounter gives a counter that pf_cpm_check_cycle
\* accepts after the one before, whatever that was.
THEOREM NextIsNewer ==
    ASSUME NEW prev \in 0 .. CycleMod - 1, NEW interval \in 1 .. Window
    PROVE  /\ NextCycle(prev, interval) \in 0 .. CycleMod - 1
           /\ CheckCycle(prev, NextCycle(prev, interval))
<1>1. CycleMod \in Nat \ {0} /\ Window \in Nat /\ Window < CycleMod
  BY CycleAssumption
<1> DEFINE q == prev \div interval
           r == prev % interval
           k == interval - r
           n == (q + 1) * interval
<1>2. q \in Int /\ r \in 0 .. interval - 1 /\ prev = q * interval + r
  BY <1>1
<1>3. k \in 1 .. Window /\ n \in Int /\ n = prev + k
  BY <1>1, <1>2
<1> HIDE DEF q, r, k, n
<1>4. n % CycleMod \in 0 .. CycleMod - 1
  BY <1>1, <1>3
<1>5. ((n % CycleMod) - (prev % CycleMod)) % CycleMod = (n - prev) % CycleMod
  <2>1. CycleMod \in Nat \ {0} /\ n \in Int /\ prev \in Int
    BY <1>1, <1>3
  <2> QED BY <2>1, ModDifference
<1>6. (0 * CycleMod + prev) % CycleMod = prev /\ (0 * CycleMod + k) % CycleMod = k
  BY <1>1, <1>3, ModIs
<1>7. prev % CycleMod = prev /\ k % CycleMod = k /\ n - prev = k
  BY <1>1, <1>3, <1>6
<1>8. ((n % CycleMod) - prev) % CycleMod = k
  BY <1>5, <1>7
<1> QED BY <1>3, <1>4, <1>8 DEF NextCycle, CheckCycle, n, q

-----------------------------------------------------------------------------
(***************************************************************************)
(* The consumer.  Nothing moves after a close in the middle of the frame   *)
(* handler, so all but the types is claimed only without one.              *)
(***************************************************************************)
CpmType ==
    [state : {"W_START", "FRUN", "RUN"}, running : BOOLEAN, dht : 0 .. DataHold,
     cycle : -1 .. CycleMod - 1, new_buf : BOOLEAN,
     buf_cpm : BufOrNone, buf_app : BufOrNone, pos : Offsets \cup {None}]
RxType == [at : {"idle", "found", "put", "pos", "update"}, buf : BufOrNone, f : Frame]
MainType == [at : {"idle", "loaded", "reading", "closing", "closed"}, dht : 0 .. DataHold]

Handling == rx.at \in {"put", "pos", "update"}

Control ==
    /\ rx.at = "idle" => rx.buf = None
    /\ rx.at \in {"found", "put"} => rx.buf # None /\ content[rx.buf] = rx.f
    /\ rx.at # "idle" => rx.f.n \in Int /\ rx.f.n <= sent
    /\ Handling => cpm.state # "W_START"
    /\ main.at = "closed" => cpm.state = "W_START"

\* OneOwner, place by place.
Buffers ==
    /\ rx.buf # None =>
         rx.buf # cpm.buf_cpm /\ rx.buf # cpm.buf_app /\ rx.buf \notin free
    /\ cpm.buf_cpm # None => cpm.buf_cpm # cpm.buf_app /\ cpm.buf_cpm \notin free
    /\ cpm.buf_app # None => cpm.buf_app \notin free
    /\ \A b \in Bufs : b \in {rx.buf, cpm.buf_cpm, cpm.buf_app} \cup free

Newest ==
    last # None =>
        /\ cpm.new_buf => cpm.buf_cpm # None /\ content[cpm.buf_cpm].n = last
        /\ ~cpm.new_buf => cpm.buf_app # None /\ content[cpm.buf_app].n = last

Timing ==
    /\ cpm.running => cpm.dht >= starved /\ (~crossed => cpm.dht = starved)
    /\ main.at = "loaded" =>
         main.dht < DataHold /\ main.dht >= starved /\ (~crossed => main.dht = starved)

Order ==
    last # None =>
        /\ last \in Int /\ last <= sent
        /\ rx.at \notin {"pos", "update"} => cpm.cycle = last % CycleMod
        /\ rx.at \in {"pos", "update"} => last = rx.f.n
        /\ rx.at = "found" => rx.f.n >= last - MaxLate
        /\ rx.at = "put" => rx.f.n > last

IInv == TypeOK /\ (~raced => Control /\ Buffers /\ Newest /\ Timing /\ Order)

LEMMA Ranges ==
    /\ CycleMod \in Nat \ {0} /\ DataHold \in Nat \ {0} /\ None \notin Bufs
    /\ 0 \in 0 .. DataHold /\ 0 \in -1 .. CycleMod - 1 /\ -1 \in -1 .. CycleMod - 1
    /\ \A n \in Int : n % CycleMod \in -1 .. CycleMod - 1
    /\ NoFrame \in Frame
<1>1. CycleMod \in Nat \ {0} /\ DataHold \in Nat \ {0} /\ None \notin Bufs
  BY ConsumerAssumption, CycleAssumption
<1>2. ASSUME NEW n \in Int PROVE n % CycleMod \in -1 .. CycleMod - 1
  BY <1>1
<1>3. NoFrame \in Frame
  BY DEF NoFrame, Frame, Offsets
<1> QED BY <1>1, <1>2, <1>3

LEMMA InitInv == Init => IInv
<1> SUFFICES ASSUME Init PROVE IInv
  OBVIOUS
<1> USE Ranges DEF Init, Cleared, NoFrame, NothingRead, Waiting
<1>1. TypeOK
  BY DEF TypeOK, Frame, Offsets, BufOrNone
<1>2. Control /\ Buffers /\ Newest /\ Timing /\ Order
  BY DEF Control, Handling, Buffers, Newest, Timing, Order
<1> QED BY <1>1, <1>2 DEF IInv

LEMMA ReleaseTypes ==
    ASSUME TypeOK, NEW bs \in SUBSET Bufs, Release(bs)
    PROVE  /\ free' \subseteq Bufs /\ content' \in [Bufs -> Frame]
           /\ \A b \in Bufs \ bs : content'[b] = content[b]
<1> QED BY Ranges DEF TypeOK, Release

LEMMA SendInv == ASSUME IInv, Send PROVE IInv'
<1> USE Ranges DEF IInv, Send
<1>1. TypeOK'
  BY DEF TypeOK, Frame, Offsets, BufOrNone
<1>2. Control' \/ raced'
  BY DEF TypeOK, Control, Handling, Frame, BufOrNone
<1>3. Buffers' \/ raced'
  BY DEF TypeOK, Control, Buffers, BufOrNone
<1>4. Newest' \/ raced'
  BY DEF TypeOK, Control, Buffers, Newest, BufOrNone
<1>5. Timing' \/ raced'
  BY DEF TypeOK, Control, Timing
<1>6. Order' \/ raced'
  BY DEF TypeOK, Control, Order
<1> QED BY <1>1, <1>2, <1>3, <1>4, <1>5, <1>6

LEMMA ArriveInv == ASSUME IInv, NEW b \in Bufs, NEW n \in Int, NEW o \in Offsets, NEW good \in BOOLEAN, Arrive(b, n, o, good) PROVE IInv'
<1> USE Ranges DEF IInv, Arrive
<1>1. TypeOK'
  BY DEF TypeOK, Frame, Offsets, BufOrNone
<1>2. Control' \/ raced'
  BY DEF TypeOK, Control, Handling, Frame, BufOrNone
<1>3. Buffers' \/ raced'
  BY DEF TypeOK, Control, Buffers, BufOrNone
<1>4. Newest' \/ raced'
  BY DEF TypeOK, Control, Buffers, Newest, BufOrNone
<1>5. Timing' \/ raced'
  BY DEF TypeOK, Control, Timing
<1>6. Order' \/ raced'
  <2>1. n \in Int /\ sent \in Nat /\ MaxLate \in Nat /\ n >= sent - MaxLate
        /\ rx'.at = "found" /\ rx'.f.n = n /\ rx.at = "idle"
    BY ConsumerAssumption DEF TypeOK
  <2>2. Order /\ last' = last /\ cpm' = cpm /\ sent' = sent
    OBVIOUS
  <2> HIDE DEF IInv, Arrive
  <2>3. ASSUME last # None PROVE last \in Int /\ last <= sent /\ n >= last - MaxLate
    <3>1. last \in Int /\ last <= sent
      BY <2>2, <2>3 DEF Order
    <3> QED BY <2>1, <3>1
  <2> QED BY <2>1, <2>2, <2>3 DEF Order
<1> QED BY <1>1, <1>2, <1>3, <1>4, <1>5, <1>6

LEMMA EnterInv == ASSUME IInv, Enter PROVE IInv'
<1> USE Ranges DEF IInv, Enter, Release, Waiting
<1>1. TypeOK'
  <2>1. cpm' \in CpmType
    BY DEF TypeOK, CpmType, Control, Timing, BufOrNone, Offsets
  <2>2. rx' \in RxType /\ main' \in MainType
    BY DEF TypeOK, RxType, MainType, Timing, BufOrNone
  <2>3. free' \subseteq Bufs /\ content' \in [Bufs -> Frame]
    BY DEF TypeOK, Control, BufOrNone
  <2>4. /\ mapped' \in BOOLEAN /\ sent' \in Nat /\ last' \in Int \cup {None} /\ starved' \in Nat
        /\ got' \in [n : Int \cup {None}, inside : BOOLEAN]
        /\ crossed' \in BOOLEAN /\ raced' \in BOOLEAN
    BY DEF TypeOK, Frame, Offsets
  <2> QED BY <2>1, <2>2, <2>3, <2>4 DEF TypeOK, CpmType, RxType, MainType
<1>2. Control' \/ raced'
  BY DEF TypeOK, Control, Handling, Frame, BufOrNone
<1>3. Buffers' \/ raced'
  BY DEF TypeOK, Control, Buffers, BufOrNone
<1>4. Newest' \/ raced'
  BY DEF TypeOK, Control, Buffers, Newest, BufOrNone
<1>5. Timing' \/ raced'
  BY DEF TypeOK, Control, Timing
<1>6. Order' \/ raced'
  <2>1. CASE cpm.state # "W_START" /\ rx.f.good /\ CheckCycle(cpm.cycle, rx.f.n % CycleMod)
    <3>1. rx'.at = "put" /\ rx'.f = rx.f /\ rx.f.n \in Int /\ cpm' = cpm /\ last' = last /\ sent' = sent
      BY <2>1 DEF TypeOK, RxType, Control
    <3>2. ASSUME last # None PROVE rx.f.n > last
      <4>1. last \in Int /\ cpm.cycle = last % CycleMod /\ rx.f.n >= last - MaxLate
        BY <3>2 DEF Order
      <4> QED BY <2>1, <3>1, <4>1, CheckedIsNewer
    <3> QED BY <3>1, <3>2 DEF Order
  <2>2. CASE ~(cpm.state # "W_START" /\ rx.f.good /\ CheckCycle(cpm.cycle, rx.f.n % CycleMod))
    BY <2>2 DEF TypeOK, Order
  <2> QED BY <2>1, <2>2
<1> QED BY <1>1, <1>2, <1>3, <1>4, <1>5, <1>6

LEMMA PutBufInv == ASSUME IInv, PutBuf PROVE IInv'
<1> USE Ranges DEF IInv, PutBuf
<1>1. TypeOK'
  BY DEF TypeOK, Frame, Offsets, BufOrNone
<1>2. Control' \/ raced'
  BY DEF TypeOK, Control, Handling, Frame, BufOrNone
<1>3. Buffers' \/ raced'
  BY DEF TypeOK, Control, Buffers, BufOrNone
<1>4. Newest' \/ raced'
  BY DEF TypeOK, Control, Buffers, Newest, BufOrNone
<1>5. Timing' \/ raced'
  BY DEF TypeOK, Control, Timing
<1>6. Order' \/ raced'
  BY DEF TypeOK, Control, Order
<1> QED BY <1>1, <1>2, <1>3, <1>4, <1>5, <1>6

LEMMA SetPosInv == ASSUME IInv, SetPos PROVE IInv'
<1> USE Ranges DEF IInv, SetPos
<1>1. TypeOK'
  BY DEF TypeOK, Frame, Offsets, BufOrNone
<1>2. Control' \/ raced'
  BY DEF TypeOK, Control, Handling, Frame, BufOrNone
<1>3. Buffers' \/ raced'
  BY DEF TypeOK, Control, Buffers, BufOrNone
<1>4. Newest' \/ raced'
  BY DEF TypeOK, Control, Buffers, Newest, BufOrNone
<1>5. Timing' \/ raced'
  BY DEF TypeOK, Control, Timing
<1>6. Order' \/ raced'
  BY DEF TypeOK, Control, Order
<1> QED BY <1>1, <1>2, <1>3, <1>4, <1>5, <1>6

LEMMA UpdateInv == ASSUME IInv, Update PROVE IInv'
<1> USE Ranges DEF IInv, Update, Release, Waiting, Updated, Held
<1>1. TypeOK'
  <2>1. cpm' \in CpmType
    BY DEF TypeOK, CpmType, Control, Timing, BufOrNone, Offsets
  <2>2. rx' \in RxType /\ main' \in MainType
    BY DEF TypeOK, RxType, MainType, Timing, BufOrNone
  <2>3. free' \subseteq Bufs /\ content' \in [Bufs -> Frame]
    BY DEF TypeOK, Control, BufOrNone
  <2>4. /\ mapped' \in BOOLEAN /\ sent' \in Nat /\ last' \in Int \cup {None} /\ starved' \in Nat
        /\ got' \in [n : Int \cup {None}, inside : BOOLEAN]
        /\ crossed' \in BOOLEAN /\ raced' \in BOOLEAN
    BY DEF TypeOK, Frame, Offsets
  <2> QED BY <2>1, <2>2, <2>3, <2>4 DEF TypeOK, CpmType, RxType, MainType
<1>2. Control' \/ raced'
  BY DEF TypeOK, Control, Handling, Frame, BufOrNone
<1>3. Buffers' \/ raced'
  BY DEF TypeOK, Control, Buffers, BufOrNone
<1>4. Newest' \/ raced'
  BY DEF TypeOK, Control, Buffers, Newest, BufOrNone
<1>5. Timing' \/ raced'
  <2>1. /\ cpm'.dht = 0 /\ cpm'.running = cpm.running /\ starved' = 0
        /\ main' = main /\ main.dht \in Nat
    BY DEF TypeOK
  <2>2. main.at = "loaded" => main.dht < DataHold /\ starved >= 0
    BY DEF Timing, TypeOK
  <2>3. crossed' = (crossed \/ main.at = "loaded")
    OBVIOUS
  <2>4. ~crossed' => main.at # "loaded"
    BY <2>3, Zenon
  <2> HIDE DEF IInv, Update
  <2> QED BY <2>1, <2>2, <2>4 DEF Timing
<1>6. Order' \/ raced'
  BY DEF TypeOK, Control, Order
<1> QED BY <1>1, <1>2, <1>3, <1>4, <1>5, <1>6

LEMMA ActivateInv == ASSUME IInv, Activate PROVE IInv'
<1> USE Ranges DEF IInv, Activate, NothingRead
<1>1. TypeOK'
  <2>1. cpm' \in CpmType
    BY DEF TypeOK, CpmType, Control, Timing, BufOrNone, Offsets
  <2>2. rx' \in RxType /\ main' \in MainType
    BY DEF TypeOK, RxType, MainType, Timing, BufOrNone
  <2>3. free' \subseteq Bufs /\ content' \in [Bufs -> Frame]
    BY DEF TypeOK, Control, BufOrNone
  <2>4. /\ mapped' \in BOOLEAN /\ sent' \in Nat /\ last' \in Int \cup {None} /\ starved' \in Nat
        /\ got' \in [n : Int \cup {None}, inside : BOOLEAN]
        /\ crossed' \in BOOLEAN /\ raced' \in BOOLEAN
    BY DEF TypeOK, Frame, Offsets
  <2> QED BY <2>1, <2>2, <2>3, <2>4 DEF TypeOK, CpmType, RxType, MainType
<1>2. Control' \/ raced'
  BY DEF TypeOK, Control, Handling, Frame, BufOrNone
<1>3. Buffers' \/ raced'
  BY DEF TypeOK, Control, Buffers, BufOrNone
<1>4. Newest' \/ raced'
  BY DEF TypeOK, Control, Buffers, Newest, BufOrNone
<1>5. Timing' \/ raced'
  BY DEF TypeOK, Control, Timing
<1>6. Order' \/ raced'
  BY DEF TypeOK, Control, Order
<1> QED BY <1>1, <1>2, <1>3, <1>4, <1>5, <1>6

LEMMA TimerLoadInv == ASSUME IInv, TimerLoad PROVE IInv'
<1> USE Ranges DEF IInv, TimerLoad, Starved
<1>1. TypeOK'
  <2>1. cpm' \in CpmType
    BY DEF TypeOK, CpmType, Control, Timing, BufOrNone, Offsets
  <2>2. rx' \in RxType /\ main' \in MainType
    BY DEF TypeOK, RxType, MainType, Timing, BufOrNone
  <2>3. free' \subseteq Bufs /\ content' \in [Bufs -> Frame]
    BY DEF TypeOK, Control, BufOrNone
  <2>4. /\ mapped' \in BOOLEAN /\ sent' \in Nat /\ last' \in Int \cup {None} /\ starved' \in Nat
        /\ got' \in [n : Int \cup {None}, inside : BOOLEAN]
        /\ crossed' \in BOOLEAN /\ raced' \in BOOLEAN
    BY DEF TypeOK, Frame, Offsets
  <2> QED BY <2>1, <2>2, <2>3, <2>4 DEF TypeOK, CpmType, RxType, MainType
<1>2. Control' \/ raced'
  BY DEF TypeOK, Control, Handling, Frame, BufOrNone
<1>3. Buffers' \/ raced'
  BY DEF TypeOK, Control, Buffers, BufOrNone
<1>4. Newest' \/ raced'
  BY DEF TypeOK, Control, Buffers, Newest, BufOrNone
<1>5. Timing' \/ raced'
  BY DEF TypeOK, Control, Timing
<1>6. Order' \/ raced'
  BY DEF TypeOK, Control, Order
<1> QED BY <1>1, <1>2, <1>3, <1>4, <1>5, <1>6

LEMMA TimerStoreInv == ASSUME IInv, TimerStore PROVE IInv'
<1> USE Ranges DEF IInv, TimerStore
<1>1. TypeOK'
  <2>1. cpm' \in CpmType
    BY DEF TypeOK, CpmType, Control, Timing, BufOrNone, Offsets
  <2>2. rx' \in RxType /\ main' \in MainType
    BY DEF TypeOK, RxType, MainType, Timing, BufOrNone
  <2>3. free' \subseteq Bufs /\ content' \in [Bufs -> Frame]
    BY DEF TypeOK, Control, BufOrNone
  <2>4. /\ mapped' \in BOOLEAN /\ sent' \in Nat /\ last' \in Int \cup {None} /\ starved' \in Nat
        /\ got' \in [n : Int \cup {None}, inside : BOOLEAN]
        /\ crossed' \in BOOLEAN /\ raced' \in BOOLEAN
    BY DEF TypeOK, Frame, Offsets
  <2> QED BY <2>1, <2>2, <2>3, <2>4 DEF TypeOK, CpmType, RxType, MainType
<1>2. Control' \/ raced'
  BY DEF TypeOK, Control, Handling, Frame, BufOrNone
<1>3. Buffers' \/ raced'
  BY DEF TypeOK, Control, Buffers, BufOrNone
<1>4. Newest' \/ raced'
  BY DEF TypeOK, Control, Buffers, Newest, BufOrNone
<1>5. Timing' \/ raced'
  BY DEF TypeOK, Control, Timing
<1>6. Order' \/ raced'
  BY DEF TypeOK, Control, Order
<1> QED BY <1>1, <1>2, <1>3, <1>4, <1>5, <1>6

LEMMA TimerExpireInv == ASSUME IInv, TimerExpire PROVE IInv'
<1> USE Ranges DEF IInv, TimerExpire, Starved
<1>1. TypeOK'
  <2>1. cpm' \in CpmType
    BY DEF TypeOK, CpmType, Control, Timing, BufOrNone, Offsets
  <2>2. rx' \in RxType /\ main' \in MainType
    BY DEF TypeOK, RxType, MainType, Timing, BufOrNone
  <2>3. free' \subseteq Bufs /\ content' \in [Bufs -> Frame]
    BY DEF TypeOK, Control, BufOrNone
  <2>4. /\ mapped' \in BOOLEAN /\ sent' \in Nat /\ last' \in Int \cup {None} /\ starved' \in Nat
        /\ got' \in [n : Int \cup {None}, inside : BOOLEAN]
        /\ crossed' \in BOOLEAN /\ raced' \in BOOLEAN
    BY DEF TypeOK, Frame, Offsets
  <2> QED BY <2>1, <2>2, <2>3, <2>4 DEF TypeOK, CpmType, RxType, MainType
<1>2. Control' \/ raced'
  BY DEF TypeOK, Control, Handling, Frame, BufOrNone
<1>3. Buffers' \/ raced'
  BY DEF TypeOK, Control, Buffers, BufOrNone
<1>4. Newest' \/ raced'
  BY DEF TypeOK, Control, Buffers, Newest, BufOrNone
<1>5. Timing' \/ raced'
  BY DEF TypeOK, Control, Timing
<1>6. Order' \/ raced'
  BY DEF TypeOK, Control, Order
<1> QED BY <1>1, <1>2, <1>3, <1>4, <1>5, <1>6

LEMMA EndInv == ASSUME IInv, End PROVE IInv'
<1> USE Ranges DEF IInv, End
<1>1. TypeOK'
  BY DEF TypeOK, Frame, Offsets, BufOrNone
<1>2. Control' \/ raced'
  BY DEF TypeOK, Control, Handling, Frame, BufOrNone
<1>3. Buffers' \/ raced'
  BY DEF TypeOK, Control, Buffers, BufOrNone
<1>4. Newest' \/ raced'
  BY DEF TypeOK, Control, Buffers, Newest, BufOrNone
<1>5. Timing' \/ raced'
  BY DEF TypeOK, Control, Timing
<1>6. Order' \/ raced'
  BY DEF TypeOK, Control, Order
<1> QED BY <1>1, <1>2, <1>3, <1>4, <1>5, <1>6

LEMMA CloseStateInv == ASSUME IInv, CloseState PROVE IInv'
<1> USE Ranges DEF IInv, CloseState
<1>1. TypeOK'
  BY DEF TypeOK, Frame, Offsets, BufOrNone
<1>2. Control' \/ raced'
  BY DEF TypeOK, Control, Handling, Frame, BufOrNone
<1>3. Buffers' \/ raced'
  BY DEF TypeOK, Control, Buffers, BufOrNone
<1>4. Newest' \/ raced'
  BY DEF TypeOK, Control, Buffers, Newest, BufOrNone
<1>5. Timing' \/ raced'
  BY DEF TypeOK, Control, Timing
<1>6. Order' \/ raced'
  BY DEF TypeOK, Control, Order
<1> QED BY <1>1, <1>2, <1>3, <1>4, <1>5, <1>6

LEMMA CloseDriverInv == ASSUME IInv, CloseDriver PROVE IInv'
<1> USE Ranges DEF IInv, CloseDriver, Release, Freed, Held, Cleared, NothingRead
<1>1. TypeOK'
  <2>1. cpm' \in CpmType
    BY DEF TypeOK, CpmType, Control, Timing, BufOrNone, Offsets
  <2>2. rx' \in RxType /\ main' \in MainType
    BY DEF TypeOK, RxType, MainType, Timing, BufOrNone
  <2>3. free' \subseteq Bufs /\ content' \in [Bufs -> Frame]
    BY DEF TypeOK, Control, BufOrNone
  <2>4. /\ mapped' \in BOOLEAN /\ sent' \in Nat /\ last' \in Int \cup {None} /\ starved' \in Nat
        /\ got' \in [n : Int \cup {None}, inside : BOOLEAN]
        /\ crossed' \in BOOLEAN /\ raced' \in BOOLEAN
    BY DEF TypeOK, Frame, Offsets
  <2> QED BY <2>1, <2>2, <2>3, <2>4 DEF TypeOK, CpmType, RxType, MainType
<1>2. Control' \/ raced'
  BY DEF TypeOK, Control, Handling, Buffers, BufOrNone
<1>3. Buffers' \/ raced'
  BY DEF TypeOK, Control, Buffers, BufOrNone
<1>4. Newest' \/ raced'
  BY DEF TypeOK, Control, Buffers, Newest, BufOrNone
<1>5. Timing' \/ raced'
  BY DEF TypeOK, Control, Timing
<1>6. Order' \/ raced'
  BY DEF TypeOK, Control, Order
<1> QED BY <1>1, <1>2, <1>3, <1>4, <1>5, <1>6

LEMMA GetBufInv == ASSUME IInv, GetBuf PROVE IInv'
<1> USE Ranges DEF IInv, GetBuf, Swapped
<1>1. TypeOK'
  <2>1. cpm' \in CpmType
    BY DEF TypeOK, CpmType, Control, Timing, BufOrNone, Offsets
  <2>2. rx' \in RxType /\ main' \in MainType
    BY DEF TypeOK, RxType, MainType, Timing, BufOrNone
  <2>3. free' \subseteq Bufs /\ content' \in [Bufs -> Frame]
    BY DEF TypeOK, Control, BufOrNone
  <2>4. /\ mapped' \in BOOLEAN /\ sent' \in Nat /\ last' \in Int \cup {None} /\ starved' \in Nat
        /\ got' \in [n : Int \cup {None}, inside : BOOLEAN]
        /\ crossed' \in BOOLEAN /\ raced' \in BOOLEAN
    BY DEF TypeOK, Frame, Offsets
  <2> QED BY <2>1, <2>2, <2>3, <2>4 DEF TypeOK, CpmType, RxType, MainType
<1>2. Control' \/ raced'
  BY DEF TypeOK, Control, Handling, Frame, BufOrNone
<1>3. Buffers' \/ raced'
  BY DEF TypeOK, Control, Buffers, BufOrNone
<1>4. Newest' \/ raced'
  BY DEF TypeOK, Control, Buffers, Newest, BufOrNone
<1>5. Timing' \/ raced'
  BY DEF TypeOK, Control, Timing
<1>6. Order' \/ raced'
  BY DEF TypeOK, Control, Order
<1> QED BY <1>1, <1>2, <1>3, <1>4, <1>5, <1>6

LEMMA CopyInv == ASSUME IInv, Copy PROVE IInv'
<1> USE Ranges DEF IInv, Copy
<1>1. TypeOK'
  <2>1. cpm' \in CpmType
    BY DEF TypeOK, CpmType, Control, Timing, BufOrNone, Offsets
  <2>2. rx' \in RxType /\ main' \in MainType
    BY DEF TypeOK, RxType, MainType, Timing, BufOrNone
  <2>3. free' \subseteq Bufs /\ content' \in [Bufs -> Frame]
    BY DEF TypeOK, Control, BufOrNone
  <2>4. /\ mapped' \in BOOLEAN /\ sent' \in Nat /\ last' \in Int \cup {None} /\ starved' \in Nat
        /\ got' \in [n : Int \cup {None}, inside : BOOLEAN]
        /\ crossed' \in BOOLEAN /\ raced' \in BOOLEAN
    <3>1. cpm.buf_app # None => content[cpm.buf_app] \in Frame
      BY DEF TypeOK, BufOrNone
    <3>2. cpm.buf_app # None => content[cpm.buf_app].n \in Int \cup {None}
      BY <3>1 DEF Frame
    <3> QED BY <3>2 DEF TypeOK
  <2> QED BY <2>1, <2>2, <2>3, <2>4 DEF TypeOK, CpmType, RxType, MainType
<1>2. Control' \/ raced'
  BY DEF TypeOK, Control, Handling, Frame, BufOrNone
<1>3. Buffers' \/ raced'
  BY DEF TypeOK, Control, Buffers, BufOrNone
<1>4. Newest' \/ raced'
  BY DEF TypeOK, Control, Buffers, Newest, BufOrNone
<1>5. Timing' \/ raced'
  BY DEF TypeOK, Control, Timing
<1>6. Order' \/ raced'
  BY DEF TypeOK, Control, Order
<1> QED BY <1>1, <1>2, <1>3, <1>4, <1>5, <1>6

LEMMA StutterInv == ASSUME IInv, UNCHANGED vars PROVE IInv'
<1>1. TypeOK'
  BY DEF IInv, TypeOK, vars
<1>2. (Control' /\ Buffers' /\ Newest' /\ Timing' /\ Order') \/ raced
  BY DEF IInv, Control, Handling, Buffers, Newest, Timing, Order, vars
<1> QED BY <1>1, <1>2 DEF IInv, vars

LEMMA StepInv == IInv /\ [Next]_vars => IInv'
<1> SUFFICES ASSUME IInv, [Next]_vars PROVE IInv'
  OBVIOUS
<1>1. CASE Send
  BY <1>1, SendInv
<1>2. CASE Ethernet
  <2>1. ASSUME NEW b \in Bufs, NEW n \in 1 .. MaxSent, NEW o \in Offsets,
               NEW good \in BOOLEAN, Arrive(b, n, o, good)
        PROVE  IInv'
    BY <2>1, ArriveInv
  <2> QED BY <1>2, <2>1, EnterInv, PutBufInv, SetPosInv, UpdateInv DEF Ethernet
<1>3. CASE MainThread
  BY <1>3, ActivateInv, TimerLoadInv, TimerStoreInv, TimerExpireInv, EndInv, CloseStateInv,
     CloseDriverInv, GetBufInv, CopyInv DEF MainThread
<1>4. CASE UNCHANGED vars
  BY <1>4, StutterInv
<1> QED BY <1>1, <1>2, <1>3, <1>4 DEF Next

THEOREM ConsumerInvariant == Spec => []IInv
<1> QED BY InitInv, StepInv, PTL DEF Spec

\* Every variable of the consumer keeps its type; the data hold counter never
\* passes the data hold factor.
THEOREM ConsumerTypes == Spec => []TypeOK
<1>1. IInv => TypeOK
  BY DEF IInv
<1> QED BY <1>1, ConsumerInvariant, PTL

\* No frame buffer is lost, freed twice or shared by the two threads
\* (pf_cpm_put_buf, pf_cpm_get_buf, pf_cpm_driver_sw_close_req).
THEOREM BuffersOwned == Spec => []OneOwner
<1>1. ASSUME IInv PROVE OneOwner
  <2> SUFFICES ASSUME ~raced
               PROVE  /\ \A i, j \in 1 .. 4 : i # j => Places[i] \cap Places[j] = {}
                      /\ UNION {Places[i] : i \in 1 .. 4} = Bufs
    BY DEF OneOwner
  <2> DEFINE A == Held(rx.buf)
             B == Held(cpm.buf_cpm)
             C == Held(cpm.buf_app)
  <2>1. Places[1] = A /\ Places[2] = B /\ Places[3] = C /\ Places[4] = free
    BY DEF Places
  <2>2. /\ rx.buf \in Bufs \cup {None} /\ cpm.buf_cpm \in Bufs \cup {None}
        /\ cpm.buf_app \in Bufs \cup {None} /\ free \subseteq Bufs
    BY <1>1 DEF IInv, TypeOK, BufOrNone
  <2>3. Buffers /\ None \notin Bufs
    BY <1>1, ConsumerAssumption DEF IInv
  <2>4. A \cap B = {} /\ A \cap C = {} /\ A \cap free = {}
        /\ B \cap C = {} /\ B \cap free = {} /\ C \cap free = {}
    BY <2>2, <2>3 DEF Buffers, Held
  <2>5. A \cup B \cup C \cup free = Bufs
    BY <2>2, <2>3 DEF Buffers, Held
  <2> HIDE DEF A, B, C, Places
  <2>6. \A i \in 1 .. 4 : i = 1 \/ i = 2 \/ i = 3 \/ i = 4
    OBVIOUS
  <2>7. \A i, j \in 1 .. 4 : i # j => Places[i] \cap Places[j] = {}
    BY <2>1, <2>4, <2>6, Zenon
  <2>8. UNION {Places[i] : i \in 1 .. 4} = A \cup B \cup C \cup free
    BY <2>1, <2>6
  <2> QED BY <2>5, <2>7, <2>8
<1> QED BY <1>1, ConsumerInvariant, PTL

\* The frame put last is one exchange away from the application
\* (pf_cpm_get_buf), whatever the two threads did before.
THEOREM NewestReachable == Spec => []NewestAtHand
<1>1. IInv => NewestAtHand
  BY DEF IInv, TypeOK, Newest, NewestAtHand
<1> QED BY <1>1, ConsumerInvariant, PTL

\* A starved consumer stops within the data hold time
\* (pf_cpm_control_interval_expired).
THEOREM StarvedEnds == Spec => []EndsInTime
<1>1. ASSUME IInv PROVE EndsInTime
  <2>1. cpm.dht \in 0 .. DataHold /\ starved \in Nat /\ DataHold \in Nat
    BY <1>1, ConsumerAssumption DEF IInv, TypeOK
  <2>2. ~raced /\ cpm.running => cpm.dht >= starved
    BY <1>1 DEF IInv, Timing
  <2> QED BY <2>1, <2>2 DEF EndsInTime
<1> QED BY <1>1, ConsumerInvariant, PTL

\* The timer stops only a consumer that got no frame for the data hold time,
\* or one whose reset of dht it has overwritten itself.
THEOREM FedIsKept == Spec => HoldsWhileFed
<1>1. ASSUME IInv, TimerExpire PROVE starved >= DataHold \/ crossed
  <2>1. cpm.running /\ cpm.dht >= DataHold /\ (~crossed => cpm.dht = starved)
    BY <1>1 DEF IInv, Timing, TimerExpire, Starved
  <2>2. CASE crossed
    BY <2>2
  <2>3. CASE ~crossed
    BY <2>1, <2>3
  <2> QED BY <2>2, <2>3
<1>2. IInv /\ [Next]_vars => [TimerExpire => starved >= DataHold \/ crossed]_vars
  BY <1>1
<1> QED BY <1>2, ConsumerInvariant, PTL DEF Spec, HoldsWhileFed

\* Late and repeated frames never replace newer data (pf_cpm_check_cycle), over
\* the wraparound of the cycle counter.
THEOREM NewerOnly == Spec => DataMovesForward
<1>1. ASSUME IInv, PutBuf, last # None PROVE last' > last
  BY <1>1 DEF IInv, Order, PutBuf
<1>2. IInv /\ [Next]_vars => [PutBuf /\ last # None => last' > last]_vars
  BY <1>1
<1> QED BY <1>2, ConsumerInvariant, PTL DEF Spec, DataMovesForward

-----------------------------------------------------------------------------
(***************************************************************************)
(* The provider.  Times are taken relative to now, as plain integers.      *)
(***************************************************************************)
LEMMA ClockFacts ==
    /\ ClockMod \in Nat \ {0} /\ MaxDelay \in Nat /\ MaxBehind \in Nat
    /\ TickTime \in Nat \ {0} /\ Interval \in Nat \ {0} /\ Step \in 1 .. Window
    /\ Interval + TickTime <= MaxDelay
    /\ 2 * MaxDelay < ClockMod /\ 2 * (MaxBehind + TickTime) < ClockMod
BY ProviderAssumption

LEMMA ClockSum ==
    ASSUME NEW a \in Int, NEW c \in Int
    PROVE  Clock(a) \in 0 .. ClockMod - 1 /\ Clock(Clock(a) + c) = Clock(a + c)
<1> DEFINE M == ClockMod
           k == a \div M
           b == a + c
           z == b \div M
<1>1. M \in Nat \ {0}
  BY ClockFacts
<1>2. /\ k \in Int /\ a % M \in 0 .. M - 1 /\ a = k * M + (a % M)
      /\ b \in Int /\ z \in Int /\ b % M \in 0 .. M - 1 /\ b = z * M + (b % M)
  BY <1>1
<1>3. (a % M) + c = (z - k) * M + (b % M)
  BY <1>1, <1>2
<1>4. z - k \in Int
  BY <1>2
<1> HIDE DEF M, k, b, z
<1>5. ((z - k) * M + (b % M)) % M = b % M
  BY <1>1, <1>2, <1>4, ModIs
<1> QED BY <1>2, <1>3, <1>5 DEF Clock, M, b

LEMMA SignedIs ==
    ASSUME NEW a \in Int, NEW b \in Int, 2 * (a - b) < ClockMod, -ClockMod < 2 * (a - b)
    PROVE  Signed(Clock(a) - Clock(b)) = a - b
<1> DEFINE d == a - b
<1>1. ClockMod \in Nat \ {0} /\ d \in Int /\ 2 * d < ClockMod /\ -ClockMod < 2 * d
  BY ClockFacts
<1>2. ((a % ClockMod) - (b % ClockMod)) % ClockMod = d % ClockMod
  BY <1>1, ModDifference
<1> HIDE DEF d
<1>3. CASE d >= 0
  <2>1. (0 * ClockMod + d) % ClockMod = d
    BY <1>1, <1>3, ModIs
  <2>2. d % ClockMod = d
    BY <1>1, <2>1
  <2>3. Signed(Clock(a) - Clock(b)) = d
    BY <1>1, <1>2, <2>2 DEF Signed, Clock
  <2> QED BY <2>3 DEF d
<1>4. CASE d < 0
  <2> DEFINE r == d + ClockMod
  <2>1. r \in 0 .. ClockMod - 1 /\ d = (-1) * ClockMod + r /\ 2 * r >= ClockMod
    BY <1>1, <1>4
  <2> HIDE DEF r
  <2>2. d % ClockMod = r
    BY <1>1, <2>1, ModIs
  <2>3. Signed(Clock(a) - Clock(b)) = r - ClockMod
    BY <1>1, <1>2, <2>1, <2>2 DEF Signed, Clock
  <2> QED BY <1>1, <2>1, <2>3 DEF d
<1> QED BY <1>1, <1>3, <1>4

\* How far away the callback is from the deadline that is y away.
Near(x, y) ==
    /\ x \in 1 .. MaxDelay /\ y \in -MaxBehind .. MaxDelay
    /\ x - y \in -TickTime .. 0 \/ (x >= y /\ x <= TickTime)

LEMMA SanitizedIsNear ==
    ASSUME NEW y \in -MaxBehind .. MaxDelay
    PROVE  Near(Sanitized(y % ClockMod), y)
<1> DEFINE T == TickTime
           h == T \div 2
           delay == y % ClockMod
           w == IF delay > MaxDelay THEN 0 ELSE delay
           q == (w + h) \div T
           ticks == IF w > T + h THEN q ELSE 1
<1>1. T \in Nat \ {0} /\ T <= MaxDelay /\ h \in Nat /\ 2 * h <= T /\ h < T
  BY ClockFacts
<1>2. w \in 0 .. MaxDelay /\ (y >= 0 => w = y) /\ (y < 0 => w = 0)
  <2>1. CASE y >= 0
    <3>1. y \in 0 .. ClockMod - 1 /\ ClockMod \in Nat \ {0}
      BY <2>1, ClockFacts
    <3>2. (0 * ClockMod + y) % ClockMod = y
      BY <3>1, ModIs
    <3> QED BY <2>1, <3>1, <3>2, ClockFacts
  <2>2. CASE y < 0
    <3> DEFINE r == y + ClockMod
    <3>1. r \in 0 .. ClockMod - 1 /\ r > MaxDelay /\ y = (-1) * ClockMod + r
          /\ ClockMod \in Nat \ {0}
      BY <2>2, ClockFacts
    <3> HIDE DEF r
    <3>2. y % ClockMod = r
      BY <3>1, ModIs
    <3> QED BY <2>2, <3>1, <3>2, ClockFacts
  <2> QED BY <2>1, <2>2, ClockFacts
<1>3. Sanitized(delay) = ticks * T - h
  BY DEF Sanitized
<1> HIDE DEF w, delay
<1>4. CASE w > T + h
  <2>1. q \in Int /\ q * T <= w + h /\ q * T > w + h - T
    BY <1>1, <1>2
  <2>2. q * T \in Int /\ ticks * T = q * T
    BY <1>1, <1>4, <2>1
  <2> HIDE DEF q, ticks, T, h
  <2>3. ticks * T - h \in w - T + 1 .. w
    BY <1>1, <1>2, <2>1, <2>2
  <2>4. y = w
    BY <1>1, <1>2, <1>4
  <2> DEFINE x == ticks * T - h
  <2>5. x \in w - T + 1 .. w
    BY <2>3
  <2> HIDE DEF x
  <2>6. w \in 0 .. MaxDelay /\ w > T + h /\ T \in Nat \ {0} /\ h \in Nat /\ y = w
    BY <1>1, <1>2, <1>4, <2>4
  <2>7. x \in 1 .. MaxDelay /\ x - y \in -T .. 0
    BY <2>5, <2>6, ClockFacts
  <2>8. Near(x, y)
    BY <2>7 DEF Near, T
  <2> QED BY <1>3, <2>8 DEF delay, x
<1>5. CASE ~(w > T + h)
  <2>1. ticks * T - h = T - h
    BY <1>1, <1>5
  <2>2. Near(T - h, y)
    BY <1>1, <1>2, <1>5, ClockFacts DEF Near
  <2> QED BY <1>3, <2>1, <2>2 DEF delay
<1> QED BY <1>4, <1>5

PpmType ==
    [state : {"W_START", "RUN"}, running : BOOLEAN, next_exec : 0 .. ClockMod - 1,
     cycle : 0 .. CycleMod - 1]

ProviderInv ==
    /\ ppm \in PpmType /\ now \in 0 .. ClockMod - 1 /\ failed \in BOOLEAN
    /\ ppm.running <=> ppm.state = "RUN"
    /\ timer # {} <=> ppm.running /\ ~failed
    /\ timer # {} =>
         \E x, y \in Int : /\ Near(x, y) /\ timer = {Clock(now + x)}
                           /\ ppm.next_exec = Clock(now + y)
    /\ counter # -1 => ppm.running
    /\ counter # -1 /\ timer # {} => counter = ppm.cycle

LEMMA ClosedInv ==
    ASSUME ProviderInv, Closed, now' \in 0 .. ClockMod - 1
    PROVE  ProviderInv' /\ counter' = -1
<1>1. PpmOff \in PpmType
  BY ClockFacts, CycleAssumption DEF PpmOff, PpmType
<1> QED BY <1>1 DEF ProviderInv, Closed, PpmOff

LEMMA NextCycleType ==
    ASSUME NEW c \in 0 .. CycleMod - 1
    PROVE  NextCycle(c, Step) \in 0 .. CycleMod - 1 /\ CheckCycle(c, NextCycle(c, Step))
BY ClockFacts, NextIsNewer

LEMMA ActivateProviderInv ==
    ASSUME ProviderInv, NEW full \in BOOLEAN, Activate_PPM(full)
    PROVE  ProviderInv' /\ counter' = -1
<1>1. now \in 0 .. ClockMod - 1 /\ now' = now
  BY DEF ProviderInv, Activate_PPM
<1>2. CASE full
  BY <1>1, <1>2, ClosedInv DEF Activate_PPM
<1>3. CASE ~full
  <2> DEFINE p == [state |-> "RUN", running |-> TRUE,
                   next_exec |-> Clock(now + Interval), cycle |-> 0]
             x == Sanitized(Interval)
  <2>1. /\ ppm' = Finished(p) /\ timer' = {Clock(now + x)}
        /\ counter' = -1 /\ failed' = FALSE
    BY <1>3 DEF Activate_PPM
  <2>2. 0 \in 0 .. CycleMod - 1 /\ Interval \in -MaxBehind .. MaxDelay
        /\ Interval \in 0 .. ClockMod - 1 /\ ClockMod \in Nat \ {0}
    BY ClockFacts, CycleAssumption
  <2>3. Clock(now + Interval) \in 0 .. ClockMod - 1
    <3>1. now + Interval \in Int /\ 0 \in Int
      BY <1>1, <2>2
    <3> QED BY <3>1, ClockSum
  <2>4. /\ ppm' \in PpmType /\ ppm'.state = "RUN" /\ ppm'.running
        /\ ppm'.next_exec = Clock(now + Interval)
    BY <2>1, <2>2, <2>3, NextCycleType DEF Finished, PpmType
  <2>5. (0 * ClockMod + Interval) % ClockMod = Interval
    BY <2>2, ModIs
  <2>6. Interval % ClockMod = Interval
    BY <2>2, <2>5
  <2>7. Near(x, Interval)
    BY <2>2, <2>6, SanitizedIsNear
  <2> HIDE DEF x, p
  <2>8. x \in Int /\ Interval \in Int
    BY <2>2, <2>7 DEF Near
  <2> QED BY <1>1, <2>1, <2>4, <2>7, <2>8 DEF ProviderInv
<1> QED BY <1>2, <1>3

LEMMA PeriodicInv ==
    ASSUME ProviderInv, NEW d \in 1 .. TickTime + MaxBehind, NEW result \in Results,
           Periodic(d, result)
    PROVE  /\ ProviderInv'
           /\ counter # -1 /\ ppm'.next_exec # ppm.next_exec /\ ppm'.running
                => CheckCycle(counter, counter')
<1> DEFINE Advances == counter # -1 /\ ppm'.next_exec # ppm.next_exec /\ ppm'.running
                         => CheckCycle(counter, counter')
<1>1. d \in Nat \ {0} /\ now \in 0 .. ClockMod - 1 /\ now' = Clock(now + d)
      /\ now' \in 0 .. ClockMod - 1
  BY ClockFacts, ClockSum DEF ProviderInv, Periodic
<1>2. CASE timer = {}
  <2>1. ~Due /\ UNCHANGED <<ppm, timer, counter, failed>>
    BY <1>2 DEF Due, Periodic
  <2>2. ppm' = ppm /\ timer' = {} /\ counter' = counter /\ failed' = failed
    BY <1>2, <2>1
  <2> QED BY <1>1, <1>2, <2>2 DEF ProviderInv
<1>3. CASE timer # {}
  <2>1. PICK x \in Int, y \in Int : /\ Near(x, y) /\ timer = {Clock(now + x)}
                                    /\ ppm.next_exec = Clock(now + y)
    BY <1>3 DEF ProviderInv
  <2>2. ppm \in PpmType /\ ppm.running /\ ppm.state = "RUN" /\ ~failed
    BY <1>3 DEF ProviderInv
  <2>3. /\ x \in 1 .. MaxDelay /\ y \in -MaxBehind .. MaxDelay
        /\ x - y \in -TickTime .. 0 \/ (x >= y /\ x <= TickTime)
    BY <2>1 DEF Near
  <2>4. Clock(now) = now
    <3>1. (0 * ClockMod + now) % ClockMod = now
      BY <1>1, ClockFacts, ModIs
    <3> QED BY <1>1, <3>1, ClockFacts DEF Clock
  <2>5. Signed(now - ppm.next_exec) = -y
    <3>1. Signed(Clock(now) - Clock(now + y)) = now - (now + y)
      BY <1>1, <2>3, ClockFacts, SignedIs
    <3> QED BY <1>1, <2>1, <2>3, <2>4, <3>1
  <2>6. y - d >= -MaxBehind
    BY <1>1, <2>2, <2>3, <2>5, ClockFacts DEF Periodic
  <2>7. Due <=> d >= x
    <3>1. Signed(Clock(now + d) - Clock(now + x)) = (now + d) - (now + x)
      BY <1>1, <2>3, <2>6, ClockFacts, SignedIs
    <3>2. Due <=> Signed(Clock(now + d) - Clock(now + x)) >= 0
      BY <1>1, <2>1 DEF Due
    <3> QED BY <1>1, <2>3, <3>1, <3>2
  <2>8. now + d \in Int /\ \A v \in Int : Clock(now' + v) = Clock(now + d + v)
    BY <1>1, ClockSum
  <2>9. CASE ~Due
    <3>1. ppm' = ppm /\ timer' = timer /\ counter' = counter /\ failed' = failed
      BY <2>9 DEF Periodic
    <3>2. Near(x - d, y - d) /\ x - d \in Int /\ y - d \in Int
      BY <1>1, <2>3, <2>6, <2>7, <2>9, ClockFacts DEF Near
    <3>3. Clock(now' + (x - d)) = Clock(now + x) /\ Clock(now' + (y - d)) = Clock(now + y)
      <4>1. now + d + (x - d) = now + x /\ now + d + (y - d) = now + y
        BY <1>1, <2>3
      <4> QED BY <2>8, <3>2, <4>1
    <3>4. \E a, b \in Int : /\ Near(a, b) /\ timer' = {Clock(now' + a)}
                            /\ ppm'.next_exec = Clock(now' + b)
      BY <2>1, <3>1, <3>2, <3>3
    <3> QED BY <1>1, <2>2, <3>1, <3>4 DEF ProviderInv
  <2>10. CASE Due
    <3> DEFINE p == Finished(ppm)
               z == y - d + Interval
               s == Sanitized(Clock(NextDeadline(p) - now'))
    <3>1. SendFrame(result)
      BY <2>10 DEF Periodic
    <3>2. /\ p \in PpmType /\ p.next_exec = ppm.next_exec /\ p.running /\ p.state = "RUN"
          /\ p.cycle \in 0 .. CycleMod - 1 /\ CheckCycle(ppm.cycle, p.cycle)
      BY <2>2, NextCycleType DEF Finished, PpmType
    <3> HIDE DEF p
    <3>3. CASE result = "sent"
      <4>1. /\ ppm' = [p EXCEPT !.next_exec = NextDeadline(p)]
            /\ timer' = {Clock(now' + s)} /\ counter' = p.cycle /\ failed' = failed
        BY <3>1, <3>3 DEF SendFrame, NextDue, p
      <4>2. z \in -MaxBehind .. MaxDelay
        BY <1>1, <2>3, <2>6, <2>7, <2>10, ClockFacts
      <4>3. NextDeadline(p) = Clock(now + y + Interval)
        BY <1>1, <2>1, <2>3, <3>2, ClockFacts, ClockSum DEF NextDeadline
      <4>4. NextDeadline(p) = Clock(now' + z) /\ NextDeadline(p) \in 0 .. ClockMod - 1
        <5>1. now + d + z = now + y + Interval /\ z \in Int /\ now + y + Interval \in Int
          BY <1>1, <2>3, <4>2, ClockFacts
        <5> QED BY <2>8, <4>3, <5>1, ClockSum
      <4>5. Clock(NextDeadline(p) - now') = z % ClockMod
        <5>1. /\ NextDeadline(p) = (now + d + z) % ClockMod
              /\ now' = (now + d) % ClockMod
              /\ now + d + z \in Int /\ now + d \in Int /\ (now + d + z) - (now + d) = z
          BY <1>1, <2>8, <4>2, <4>4 DEF Clock
        <5> QED BY <5>1, ClockFacts, ModDifference DEF Clock
      <4>6. Near(s, z)
        BY <4>2, <4>5, SanitizedIsNear
      <4> HIDE DEF s, z
      <4>7. s \in Int /\ z \in Int
        BY <4>2, <4>6 DEF Near
      <4>8. /\ ppm' \in PpmType /\ ppm'.running /\ ppm'.state = "RUN" /\ ppm'.cycle = p.cycle
            /\ ppm'.next_exec = Clock(now' + z)
        BY <3>2, <4>1, <4>4 DEF PpmType
      <4>9. ProviderInv'
        BY <1>1, <2>2, <4>1, <4>6, <4>7, <4>8 DEF ProviderInv
      <4>10. counter # -1 => CheckCycle(counter, counter')
        BY <1>3, <3>2, <4>1 DEF ProviderInv
      <4> QED BY <4>9, <4>10
    <3>4. CASE result = "not_sent"
      <4>1. ppm' = p /\ timer' = {} /\ failed' = TRUE /\ counter' = counter
        BY <3>1, <3>4 DEF SendFrame, p
      <4> QED BY <1>1, <3>2, <4>1 DEF ProviderInv
    <3>5. CASE result = "full"
      <4>1. Closed
        BY <3>1, <3>5 DEF SendFrame
      <4>2. ProviderInv' /\ ~ppm'.running
        BY <1>1, <4>1, ClosedInv DEF Closed, PpmOff
      <4> QED BY <4>2
    <3> QED BY <3>3, <3>4, <3>5 DEF Results
  <2> QED BY <2>9, <2>10
<1> QED BY <1>2, <1>3

LEMMA ProviderInvInit == ProviderInit => ProviderInv
<1>1. PpmOff \in PpmType
  BY ClockFacts, CycleAssumption DEF PpmOff, PpmType
<1>2. ASSUME ProviderInit PROVE now \in 0 .. ClockMod - 1
  BY <1>2, ClockFacts DEF ProviderInit
<1>3. ASSUME ProviderInit
      PROVE  ppm = PpmOff /\ timer = {} /\ counter = -1 /\ failed = FALSE
  BY <1>3 DEF ProviderInit
<1>4. PpmOff.state = "W_START" /\ PpmOff.running = FALSE
  BY DEF PpmOff
<1> QED BY <1>1, <1>2, <1>3, <1>4 DEF ProviderInv

Advancing == counter # -1 /\ ppm'.next_exec # ppm.next_exec /\ ppm'.running
               => CheckCycle(counter, counter')

LEMMA ProviderStep == ProviderInv /\ [ProviderNext]_pvars => ProviderInv' /\ [Advancing]_pvars
<1> SUFFICES ASSUME ProviderInv, [ProviderNext]_pvars PROVE ProviderInv' /\ [Advancing]_pvars
  OBVIOUS
<1>1. ASSUME NEW full \in BOOLEAN, Activate_PPM(full) PROVE ProviderInv' /\ Advancing
  <2>1. ~ppm.running /\ counter = -1
    BY <1>1 DEF Activate_PPM, ProviderInv
  <2> QED BY <1>1, <2>1, ActivateProviderInv DEF Advancing
<1>2. CASE Close_PPM
  <2>1. Closed /\ now' = now /\ now \in 0 .. ClockMod - 1
    BY <1>2 DEF Close_PPM, ProviderInv
  <2>2. ProviderInv' /\ ~ppm'.running
    BY <2>1, ClosedInv DEF Closed, PpmOff
  <2> QED BY <2>2 DEF Advancing
<1>3. ASSUME NEW d \in 1 .. TickTime + MaxBehind, NEW result \in Results, Periodic(d, result)
      PROVE  ProviderInv' /\ Advancing
  BY <1>3, PeriodicInv DEF Advancing
<1>4. CASE UNCHANGED pvars
  BY <1>4 DEF ProviderInv, pvars
<1> QED BY <1>1, <1>2, <1>3, <1>4 DEF ProviderNext

THEOREM ProviderInvariant == ProviderSpec => []ProviderInv
<1> QED BY ProviderInvInit, ProviderStep, PTL DEF ProviderSpec

\* While the provider runs and no frame has failed, the next frame is
\* scheduled for its deadline less at most a tick, or for the next tick when
\* the deadline was missed (pf_ppm_drv_sw_send, pf_scheduler_sanitize_delay),
\* however late the stack is called and whenever the clock wraps.
THEOREM AlwaysScheduled == ProviderSpec => []NextFrameScheduled
<1>1. ASSUME ProviderInv PROVE NextFrameScheduled
  <2> SUFFICES ASSUME NEW t \in timer
               PROVE  /\ Signed(t - now) > 0
                      /\ \/ Signed(t - ppm.next_exec) \in -TickTime .. 0
                         \/ Signed(t - ppm.next_exec) >= 0 /\ Signed(t - now) <= TickTime
    BY <1>1 DEF ProviderInv, NextFrameScheduled
  <2>1. PICK x \in Int, y \in Int : /\ Near(x, y) /\ timer = {Clock(now + x)}
                                    /\ ppm.next_exec = Clock(now + y)
    BY <1>1 DEF ProviderInv
  <2>2. /\ x \in 1 .. MaxDelay /\ y \in -MaxBehind .. MaxDelay
        /\ x - y \in -TickTime .. 0 \/ (x >= y /\ x <= TickTime)
    BY <2>1 DEF Near
  <2>3. now \in 0 .. ClockMod - 1 /\ t = Clock(now + x)
    BY <1>1, <2>1 DEF ProviderInv
  <2>4. Clock(now) = now
    <3>1. (0 * ClockMod + now) % ClockMod = now
      BY <2>3, ClockFacts, ModIs
    <3> QED BY <2>3, <3>1, ClockFacts DEF Clock
  <2>5. Signed(t - now) = x
    <3>1. Signed(Clock(now + x) - Clock(now)) = (now + x) - now
      BY <2>2, <2>3, ClockFacts, SignedIs
    <3> QED BY <2>2, <2>3, <2>4, <3>1
  <2>6. Signed(t - ppm.next_exec) = x - y
    <3>1. Signed(Clock(now + x) - Clock(now + y)) = (now + x) - (now + y)
      BY <2>2, <2>3, ClockFacts, SignedIs
    <3> QED BY <2>1, <2>2, <2>3, <3>1
  <2> QED BY <2>2, <2>5, <2>6, ClockFacts
<1> QED BY <1>1, ProviderInvariant, PTL

\* The controller takes every frame for a newer one.
THEOREM CountersGrow == ProviderSpec => CountersAdvance
<1>1. ProviderInv /\ [ProviderNext]_pvars
        => [counter # -1 /\ ppm'.next_exec # ppm.next_exec /\ ppm'.running
              => CheckCycle(counter, counter')]_pvars
  BY ProviderStep DEF Advancing
<1> QED BY <1>1, ProviderInvariant, PTL DEF ProviderSpec, CountersAdvance
=============================================================================
