-------------------------- MODULE FragmentsProofs ---------------------------
(***************************************************************************)
(* Proofs about Fragments, for any requests and answers, any sizes of      *)
(* frames and buffers, and whatever is lost, repeated and given up: a      *)
(* request is carried out only as it was sent, and an answer of up to two  *)
(* frames arrives as it was written, and is sent again until it is         *)
(* acknowledged.                                                           *)
(***************************************************************************)
EXTENDS Fragments, SequenceTheorems, TLAPS

RequestType == [kind : {"request"}, seq : Seqs, byte : ByteType, frag : BOOLEAN,
                nbr : Nat, last : BOOLEAN]
IsFragment(m) ==
    /\ m.seq = m.byte[1].seq
    /\ m.byte[2] = m.nbr + 1
    /\ m.nbr < m.byte[1].req.frags
    /\ m.frag <=> m.byte[1].req.frags > 1
    /\ m.last <=> m.nbr + 1 = m.byte[1].req.frags
UpType == {m \in RequestType : IsFragment(m)} \cup [kind : {"ack", "ping"}, seq : Seqs]
DownType ==
    [kind : {"ack"}, seq : Seqs, nbr : Nat]
      \cup [kind : {"answer"}, seq : Seqs, frag : BOOLEAN, nbr : Nat, last : BOOLEAN,
            body : Seq(OutByte)]
CtlType == [at : {"idle", "sending", "waiting"}, call : CallType \cup {Nil}, part : Nat,
            got : Seq(OutByte), next : Nat]

FragmentsTypeOK ==
    /\ sess \in SessionType \cup {Nil}
    /\ sess # Nil /\ sess.timer => sess.head # Nil
    /\ up \in Seq(UpType) /\ down \in Seq(DownType)
    /\ ctl \in CtlType
    /\ ctl.call = Nil => ctl.at = "idle" /\ ctl.got = <<>>
    /\ ctl.call # Nil => ctl.part < ctl.call.req.frags
    /\ ctl.at = "sending" => ctl.part + 1 < ctl.call.req.frags
    /\ ran \in Seq(ByteType)
    /\ disturbed \in BOOLEAN /\ fallen \in BOOLEAN

-----------------------------------------------------------------------------
\* The constants, one fact each.
LEMMA Constants ==
    /\ PayloadMax \in Nat /\ Header \in Nat /\ InMax \in Nat /\ OutMax \in Nat
    /\ Resends \in Nat /\ LinkMax \in Nat
    /\ 0 < Header /\ Header < PayloadMax /\ PayloadMax <= OutMax /\ 0 < InMax /\ 0 < Resends
    /\ Nil \notin CallType /\ Nil \notin HeadType /\ Nil \notin SessionType
BY FragmentsAssumption

LEMMA CallFacts ==
    ASSUME NEW c \in CallType
    PROVE  /\ c.seq \in Seqs /\ c # Nil
           /\ c.req.frags \in Nat /\ 0 < c.req.frags /\ c.req.once \in BOOLEAN
           /\ c.req.size \in 1..(OutMax - Header)
<1>1. c.seq \in Seqs /\ c.req \in Calls
  BY DEF CallType
<1> QED BY <1>1, Constants, FragmentsAssumption

LEMMA BytesFacts ==
    ASSUME NEW c \in CallType, NEW n \in Nat
    PROVE  /\ Bytes(c, n) \in Seq(ByteType) /\ Len(Bytes(c, n)) = n
           /\ \A j \in 1..n : Bytes(c, n)[j] = <<c, j>>
<1>1. \A j \in 1..n : <<c, j>> \in ByteType
  BY DEF ByteType
<1>2. Bytes(c, n) \in [1..n -> ByteType]
  BY <1>1 DEF Bytes
<1> QED BY <1>2 DEF Bytes

LEMMA UpFacts ==
    ASSUME NEW m \in UpType
    PROVE  /\ m.seq \in Seqs /\ m.kind \in {"request", "ack", "ping"}
           /\ m.kind = "request" =>
                /\ m.byte \in ByteType /\ m.byte[1] \in CallType /\ m.byte[2] = m.nbr + 1
                /\ m.byte = <<m.byte[1], m.nbr + 1>>
                /\ m.seq = m.byte[1].seq /\ m.nbr \in Nat /\ m.nbr < m.byte[1].req.frags
                /\ m.frag \in BOOLEAN /\ m.last \in BOOLEAN
                /\ m.frag <=> m.byte[1].req.frags > 1
                /\ m.last <=> m.nbr + 1 = m.byte[1].req.frags
<1>1. CASE m \in RequestType /\ IsFragment(m)
  <2>1. /\ m.kind = "request" /\ m.seq \in Seqs /\ m.byte \in ByteType /\ m.nbr \in Nat
        /\ m.frag \in BOOLEAN /\ m.last \in BOOLEAN
    BY <1>1 DEF RequestType
  <2>2. m.byte[1] \in CallType /\ m.byte = <<m.byte[1], m.byte[2]>>
    BY <2>1 DEF ByteType
  <2> QED BY <1>1, <2>1, <2>2 DEF IsFragment
<1>2. CASE m \in [kind : {"ack", "ping"}, seq : Seqs]
  BY <1>2
<1> QED BY <1>1, <1>2 DEF UpType

LEMMA DownFacts ==
    ASSUME NEW m \in DownType
    PROVE  /\ m.seq \in Seqs /\ m.kind \in {"ack", "answer"} /\ m.nbr \in Nat
           /\ m.kind = "answer" => /\ m.frag \in BOOLEAN /\ m.last \in BOOLEAN
                                   /\ m.body \in Seq(OutByte)
BY DEF DownType

LEMMA FragmentFacts ==
    ASSUME NEW c \in CallType, NEW j \in Nat, j < c.req.frags
    PROVE  /\ Fragment(c, j) \in UpType /\ Fragment(c, j).kind = "request"
           /\ Fragment(c, j).seq = c.seq /\ Fragment(c, j).byte[1] = c
           /\ Fragment(c, j).nbr = j
<1> DEFINE m == Fragment(c, j)
<1>1. <<c, j + 1>> \in ByteType
  BY DEF ByteType
<1>2. /\ m.kind = "request" /\ m.seq = c.seq /\ m.byte[1] = c /\ m.byte[2] = j + 1 /\ m.nbr = j
      /\ m.frag = (c.req.frags > 1) /\ m.last = (j + 1 = c.req.frags)
  BY DEF Fragment
<1>3. m \in RequestType
  BY <1>1, CallFacts DEF RequestType, Fragment
<1> HIDE DEF m
<1>4. IsFragment(m)
  BY <1>2 DEF IsFragment
<1>5. m \in UpType
  BY <1>3, <1>4 DEF UpType
<1> QED BY <1>2, <1>5 DEF m

-----------------------------------------------------------------------------
\* A link, as a sequence: what Tail and Sent do to it.
LEMMA TailLink ==
    ASSUME NEW T, NEW x \in Seq(T), x # <<>>
    PROVE  /\ Tail(x) \in Seq(T) /\ Head(x) \in T /\ Head(x) = x[1]
           /\ Len(x) \in Nat /\ 0 < Len(x) /\ Len(Tail(x)) = Len(x) - 1
           /\ \A i \in 1..Len(Tail(x)) : i + 1 \in 2..Len(x) /\ Tail(x)[i] = x[i + 1]
BY HeadTailProperties, LenProperties

LEMMA SentLink ==
    ASSUME NEW T, NEW x \in Seq(T), NEW m \in T
    PROVE  /\ Sent(x, m) \in Seq(T) /\ Len(x) \in Nat
           /\ \/ Sent(x, m) = x
              \/ /\ Len(Sent(x, m)) = Len(x) + 1
                 /\ \A i \in 1..Len(x) : Sent(x, m)[i] = x[i]
                 /\ Sent(x, m)[Len(x) + 1] = m
BY AppendProperties, LenProperties DEF Sent

LEMMA SentIs ==
    ASSUME NEW T, NEW x \in Seq(T), NEW m \in T, NEW y, y = Sent(x, m)
    PROVE  /\ Len(x) \in Nat
           /\ \/ y = x
              \/ /\ Len(y) = Len(x) + 1 /\ \A i \in 1..Len(x) : y[i] = x[i]
                 /\ y[Len(x) + 1] = m
<1>1. Len(x) \in Nat
  BY LenProperties
<1>2. CASE Len(x) < LinkMax
  <2>1. y = Append(x, m)
    BY <1>2 DEF Sent
  <2> QED BY <1>1, <2>1, AppendProperties
<1>3. CASE ~(Len(x) < LinkMax)
  BY <1>1, <1>3 DEF Sent
<1> QED BY <1>2, <1>3

-----------------------------------------------------------------------------
\* The session: what each of its operations changes and leaves.
SameOut(s, t) ==
    /\ t.out = s.out /\ t.head = s.head /\ t.len = s.len /\ t.sentPos = s.sentPos
    /\ t.sendLen = s.sendLen /\ t.nbr = s.nbr
SameIn(s, t) == t.in = s.in /\ t.inNbr = s.inNbr
\* The buffer of a session that collects the call c, or is empty.
Collects(s, c) == s.in = Bytes(c, s.inNbr)

LEMMA SessionFields ==
    ASSUME NEW s \in SessionType
    PROVE  /\ s.ar \in BOOLEAN /\ s.in \in Seq(ByteType) /\ s.inNbr \in Nat
           /\ s.out \in [1..OutMax -> OutByte] /\ s.head \in HeadType \cup {Nil}
           /\ s.len \in 0..OutMax /\ s.sentPos \in Nat /\ s.sendLen \in 0..OutMax
           /\ s.nbr \in Nat /\ s.timer \in BOOLEAN /\ s.left \in 0..(Resends - 1)
BY DEF SessionType

LEMMA NewSessionType ==
    /\ NewSession \in SessionType /\ NewSession.in = <<>> /\ NewSession.inNbr = 0
    /\ NewSession.len = 0 /\ ~NewSession.timer
<1>1. Empty \in [1..OutMax -> OutByte]
  BY DEF Empty, OutByte
<1>2. 0 \in 0..OutMax /\ 0 \in 0..(Resends - 1)
  BY Constants
<1> HIDE DEF Empty
<1> QED BY <1>1, <1>2 DEF NewSession, SessionType

LEMMA SessionIsOne ==
    ASSUME sess \in SessionType \cup {Nil}
    PROVE  Session \in SessionType /\ (sess # Nil => Session = sess) /\ (sess = Nil => Session = NewSession)
BY NewSessionType DEF Session

LEMMA BegunFacts ==
    ASSUME NEW s \in SessionType
    PROVE  /\ Begun(s) \in SessionType /\ Begun(s).in = <<>> /\ Begun(s).inNbr = 0
           /\ SameOut(s, Begun(s)) /\ Begun(s).timer = s.timer
<1>1. <<>> \in Seq(ByteType)
  OBVIOUS
<1> QED BY <1>1 DEF SessionType, Begun, SameOut

LEMMA StoppedFacts ==
    ASSUME NEW s \in SessionType
    PROVE  /\ Stopped(s) \in SessionType /\ SameIn(s, Stopped(s)) /\ SameOut(s, Stopped(s))
           /\ ~Stopped(s).timer
BY DEF SessionType, Stopped, SameOut, SameIn

LEMMA ClearedFacts ==
    ASSUME NEW s \in SessionType
    PROVE  /\ Cleared(s) \in SessionType /\ SameIn(s, Cleared(s)) /\ Cleared(s).timer = s.timer
           /\ Cleared(s).len = 0 /\ Cleared(s).sentPos = 0 /\ Cleared(s).sendLen = 0
           /\ Cleared(s).nbr = 0 /\ Cleared(s).out = s.out /\ Cleared(s).head = s.head
<1>1. 0 \in 0..OutMax
  BY Constants
<1> QED BY <1>1 DEF SessionType, Cleared, SameIn

LEMMA TimedFacts ==
    ASSUME NEW s \in SessionType
    PROVE  /\ Timed(s) \in SessionType /\ SameIn(s, Timed(s)) /\ SameOut(s, Timed(s))
           /\ Timed(s).timer
<1>1. Resends - 1 \in 0..(Resends - 1)
  BY Constants
<1> QED BY <1>1 DEF SessionType, Timed, SameOut, SameIn

LEMMA CopiedFacts ==
    ASSUME NEW s \in SessionType, NEW m \in UpType, m.kind = "request"
    PROVE  /\ Copied(s, m) \in SessionType /\ SameOut(s, Copied(s, m))
           /\ Copied(s, m).timer = s.timer
           /\ InTurn(s, m) => /\ Copied(s, m).in = Append(s.in, m.byte)
                              /\ Copied(s, m).inNbr = s.inNbr + 1
           /\ ~InTurn(s, m) => SameIn(s, Copied(s, m))
<1>1. Append(s.in, m.byte) \in Seq(ByteType) /\ s.inNbr + 1 \in Nat
  BY UpFacts, SessionFields, AppendProperties
<1>2. CASE InTurn(s, m)
  BY <1>1, <1>2 DEF Copied, SessionType, SameOut
<1>3. CASE ~InTurn(s, m)
  BY <1>3 DEF Copied, SameOut, SameIn
<1> QED BY <1>2, <1>3

LEMMA AppendBytes ==
    ASSUME NEW c \in CallType, NEW n \in Nat
    PROVE  Append(Bytes(c, n), <<c, n + 1>>) = Bytes(c, n + 1)
<1> DEFINE x == Append(Bytes(c, n), <<c, n + 1>>)
           y == Bytes(c, n + 1)
<1>1. <<c, n + 1>> \in ByteType
  BY DEF ByteType
<1>2. /\ x \in Seq(ByteType) /\ Len(x) = n + 1 /\ x[n + 1] = <<c, n + 1>>
      /\ \A j \in 1..n : x[j] = <<c, j>>
  BY <1>1, BytesFacts, AppendProperties
<1>3. y \in Seq(ByteType) /\ Len(y) = n + 1 /\ \A j \in 1..(n + 1) : y[j] = <<c, j>>
  BY BytesFacts
<1> HIDE DEF x, y
<1>4. ASSUME NEW j \in 1..(n + 1) PROVE x[j] = y[j]
  <2>1. j \in 1..n \/ j = n + 1
    OBVIOUS
  <2> QED BY <1>2, <1>3, <2>1
<1> QED BY <1>2, <1>3, <1>4, SeqEqual DEF x, y

\* A fragment keeps the buffer of its own call; the first one makes it so.
LEMMA GatheredFacts ==
    ASSUME NEW s \in SessionType, NEW m \in UpType, m.kind = "request"
    PROVE  /\ Gathered(s, m) \in SessionType /\ SameOut(s, Gathered(s, m))
           /\ Gathered(s, m).timer = s.timer
           /\ m.nbr = 0 \/ Collects(s, m.byte[1]) => Collects(Gathered(s, m), m.byte[1])
<1> DEFINE b == IF m.nbr = 0 THEN Begun(s) ELSE s
           c == m.byte[1]
           t == Copied(b, m)
<1>1. b \in SessionType /\ SameOut(s, b) /\ b.timer = s.timer
  BY BegunFacts DEF SameOut
<1>2. Gathered(s, m) = t
  BY DEF Gathered
<1>3. t \in SessionType /\ SameOut(b, t) /\ t.timer = b.timer
  BY <1>1, CopiedFacts
<1>4. m.nbr = 0 \/ Collects(s, c) => Collects(b, c)
  <2>1. Bytes(c, 0) = <<>>
    BY UpFacts, BytesFacts, EmptySeq
  <2> QED BY <2>1, BegunFacts DEF Collects
<1>5. c \in CallType /\ b.inNbr \in Nat /\ m.byte = <<c, m.nbr + 1>>
  BY <1>1, UpFacts, SessionFields
<1> HIDE DEF b, c
<1>6. ASSUME Collects(b, c) PROVE Collects(t, c)
  <2>1. CASE InTurn(b, m)
    <3>1. t.in = Append(b.in, <<c, b.inNbr + 1>>) /\ t.inNbr = b.inNbr + 1
      BY <1>1, <1>5, <2>1, CopiedFacts DEF InTurn
    <3> HIDE DEF t
    <3> QED BY <1>5, <1>6, <3>1, AppendBytes DEF Collects
  <2>2. CASE ~InTurn(b, m)
    <3>1. SameIn(b, t)
      BY <1>1, <2>2, CopiedFacts
    <3> HIDE DEF t
    <3> QED BY <1>6, <3>1 DEF Collects, SameIn
  <2> QED BY <2>1, <2>2
<1> HIDE DEF t
<1> QED BY <1>1, <1>2, <1>3, <1>4, <1>6 DEF SameOut, b, c

\* What is read is the buffer with the fragment that completes it, or the
\* fragment alone.
LEMMA ReadFacts ==
    ASSUME NEW s \in SessionType, NEW m \in UpType, m.kind = "request",
           m.nbr > 0 => Collects(s, m.byte[1])
    PROVE  \/ Read(s, m) = <<m.byte>>
           \/ Read(s, m) = Bytes(m.byte[1], m.nbr + 1)
<1> DEFINE b == IF m.nbr = 0 THEN Begun(s) ELSE s
           c == m.byte[1]
           t == Copied(b, m)
<1>1. Read(s, m) = <<m.byte>> \/ (InTurn(b, m) /\ Read(s, m) = t.in)
  BY DEF Read
<1>2. CASE InTurn(b, m) /\ Read(s, m) = t.in
  <2>1. b \in SessionType /\ Collects(b, c)
    <3>1. Bytes(c, 0) = <<>>
      BY UpFacts, BytesFacts, EmptySeq
    <3>2. m.nbr \in Nat
      BY UpFacts
    <3> QED BY <3>1, <3>2, BegunFacts DEF Collects
  <2>2. c \in CallType /\ m.nbr \in Nat /\ m.byte = <<c, m.nbr + 1>>
    BY UpFacts
  <2> HIDE DEF b, c
  <2>3. t.in = Append(b.in, <<c, m.nbr + 1>>) /\ b.inNbr = m.nbr
    BY <1>2, <2>1, <2>2, CopiedFacts DEF InTurn
  <2> HIDE DEF t
  <2>4. Read(s, m) = Bytes(c, m.nbr + 1)
    BY <1>2, <2>1, <2>2, <2>3, AppendBytes DEF Collects
  <2> QED BY <2>4 DEF c
<1> QED BY <1>1, <1>2

\* If what is read is in order, it is the request that the fragment belongs to.
LEMMA ParsedFacts ==
    ASSUME NEW s \in SessionType, NEW m \in UpType, m.kind = "request",
           m.nbr > 0 => Collects(s, m.byte[1])
    PROVE  /\ Read(s, m) \in Seq(ByteType)
           /\ Parses(Read(s, m)) => /\ Read(s, m) = Request(m.byte[1])
                                    /\ Read(s, m)[1][1] = m.byte[1]
           /\ Parses(Read(s, m)) => m.nbr = 0 \/ s.inNbr = m.nbr
<1> DEFINE c == m.byte[1]
           r == Read(s, m)
<1>1. /\ c \in CallType /\ m.nbr \in Nat /\ m.byte \in ByteType
      /\ m.byte[1] = c /\ m.byte[2] = m.nbr + 1 /\ (m.frag <=> c.req.frags > 1)
      /\ m.nbr < c.req.frags /\ c.req.frags \in Nat
  BY UpFacts, CallFacts
<1>2. r = <<m.byte>> \/ r = Bytes(c, m.nbr + 1)
  BY ReadFacts
<1>3. m.nbr > 0 /\ s.inNbr # m.nbr => r = <<m.byte>>
  BY <1>1 DEF Read, InTurn
<1> HIDE DEF c, r
<1>4. CASE r = <<m.byte>>
  <2>1. r \in Seq(ByteType) /\ Len(r) = 1 /\ r[1] = m.byte
    BY <1>1, <1>4
  <2>2. ASSUME Parses(r) PROVE m.nbr = 0 /\ c.req.frags = 1
    BY <1>1, <2>1, <2>2 DEF Parses
  <2>3. Bytes(c, 1) \in Seq(ByteType) /\ Len(Bytes(c, 1)) = 1 /\ Bytes(c, 1)[1] = <<c, 1>>
    <3>1. /\ Bytes(c, 1) \in Seq(ByteType) /\ Len(Bytes(c, 1)) = 1
          /\ \A j \in 1..1 : Bytes(c, 1)[j] = <<c, j>>
      BY <1>1, BytesFacts, 1 \in Nat
    <3> QED BY <3>1
  <2>4. m.byte = <<c, m.nbr + 1>>
    BY UpFacts DEF c
  <2>5. ASSUME Parses(r) PROVE r = Request(c)
    BY <2>1, <2>2, <2>3, <2>4, <2>5, SeqEqual DEF Request
  <2> QED BY <1>1, <2>1, <2>2, <2>5 DEF c, r
<1>5. CASE r = Bytes(c, m.nbr + 1)
  <2>1. r \in Seq(ByteType) /\ Len(r) = m.nbr + 1 /\ r[1] = <<c, 1>>
    BY <1>1, <1>5, BytesFacts
  <2>2. r[1][1] = c
    BY <2>1
  <2>3. ASSUME Parses(r) PROVE r = Request(c)
    BY <1>1, <1>5, <2>1, <2>2, <2>3 DEF Parses, Request
  <2>4. ASSUME Parses(r) PROVE m.nbr = 0 \/ s.inNbr = m.nbr
    <3>1. CASE r = <<m.byte>>
      BY <1>1, <2>4, <3>1 DEF Parses
    <3> QED BY <1>1, <1>3, <3>1
  <2> QED BY <2>1, <2>2, <2>3, <2>4 DEF c, r
<1> QED BY <1>2, <1>4, <1>5

-----------------------------------------------------------------------------
\* The frames of an answer.
LEMMA AnsweredFacts ==
    ASSUME NEW s \in SessionType, NEW q \in Seqs, NEW body \in Seq(OutByte),
           Header + Len(body) <= OutMax
    PROVE  LET t == Answered(s, q, body)
               total == Header + Len(body)
           IN  /\ t \in SessionType /\ SameIn(s, t) /\ t.len = total /\ t.sentPos = 0 /\ t.nbr = 0
               /\ t.head \in HeadType /\ t.head.seq = q /\ t.head.nbr = 0 /\ ~t.head.last
               /\ \A j \in 1..Len(body) : t.out[Header + j] = body[j]
               /\ total >= PayloadMax => t.timer /\ t.head.frag /\ t.sendLen = PayloadMax
               /\ total < PayloadMax => t.timer = s.timer /\ ~t.head.frag /\ t.sendLen = total
<1> DEFINE total == Header + Len(body)
           split == total >= PayloadMax
           out == [i \in 1..OutMax |-> IF i <= Header THEN "header"
                                       ELSE IF i <= total THEN body[i - Header] ELSE "unused"]
           head == [seq |-> q, frag |-> split, nbr |-> 0, last |-> FALSE]
           n == IF split THEN PayloadMax ELSE total
           t == [Cleared(s) EXCEPT !.out = out, !.head = head, !.len = total, !.sendLen = n]
<1>1. Len(body) \in Nat /\ total \in 0..OutMax /\ split \in BOOLEAN
  BY LenProperties, Constants
<1>2. \A i \in 1..OutMax : out[i] \in OutByte
  <2> TAKE i \in 1..OutMax
  <2>1. CASE i <= Header
    BY <2>1 DEF OutByte
  <2>2. CASE i > Header /\ i <= total
    <3>1. i - Header \in 1..Len(body)
      BY <1>1, <2>2, Constants
    <3>2. out[i] = body[i - Header]
      BY <2>2, Constants
    <3> QED BY <3>1, <3>2, ElementOfSeq
  <2>3. CASE i > Header /\ i > total
    BY <1>1, <2>3, Constants DEF OutByte
  <2> QED BY <2>1, <2>2, <2>3, Constants
<1>3. out \in [1..OutMax -> OutByte]
  <2>1. out = [i \in 1..OutMax |-> out[i]]
    OBVIOUS
  <2> HIDE DEF out
  <2> QED BY <1>2, <2>1
<1>4. \A j \in 1..Len(body) : out[Header + j] = body[j]
  BY <1>1, Constants
<1>5. head \in HeadType /\ head.seq = q /\ head.frag = split /\ head.nbr = 0 /\ ~head.last
  BY <1>1 DEF HeadType
<1>6. n \in 0..OutMax
  BY <1>1, Constants
<1>7. Answered(s, q, body) = IF split THEN Timed(t) ELSE t
  BY DEF Answered
<1> HIDE DEF out, head, n
<1>8. /\ t \in SessionType /\ SameIn(s, t) /\ t.timer = s.timer /\ t.out = out /\ t.head = head
      /\ t.len = total /\ t.sentPos = 0 /\ t.sendLen = n /\ t.nbr = 0
  <2> DEFINE b == Cleared(s)
  <2>1. b \in SessionType /\ SameIn(s, b) /\ b.timer = s.timer /\ b.sentPos = 0 /\ b.nbr = 0
    BY ClearedFacts
  <2> HIDE DEF b, total
  <2> QED BY <1>1, <1>3, <1>5, <1>6, <2>1 DEF SessionType, SameIn, b
<1> HIDE DEF t
<1>9. CASE split
  <2> DEFINE u == Timed(t)
  <2>1. u \in SessionType /\ SameIn(t, u) /\ SameOut(t, u) /\ u.timer
    BY <1>8, TimedFacts
  <2>2. n = PayloadMax /\ Answered(s, q, body) = u /\ ~(total < PayloadMax)
    BY <1>1, <1>7, <1>9, Constants DEF n
  <2> HIDE DEF u
  <2>3. SameIn(s, u)
    BY <1>8, <2>1 DEF SameIn
  <2>4. /\ u.len = total /\ u.sentPos = 0 /\ u.nbr = 0 /\ u.head = head /\ u.out = out
        /\ u.sendLen = PayloadMax
    BY <1>8, <2>1, <2>2 DEF SameOut
  <2> QED BY <1>4, <1>5, <1>9, <2>1, <2>2, <2>3, <2>4
<1>10. CASE ~split
  <2>1. total < PayloadMax
    BY <1>1, <1>10, Constants
  <2>2. ~(total >= PayloadMax) /\ n = total /\ Answered(s, q, body) = t
    BY <1>7, <1>10 DEF n
  <2>3. ~t.head.frag /\ t.sendLen = total
    BY <1>5, <1>8, <1>10, <2>2
  <2> HIDE DEF split, total
  <2> QED BY <1>4, <1>5, <1>8, <2>1, <2>2, <2>3 DEF total
<1> QED BY <1>9, <1>10

LEMMA NextFragmentFacts ==
    ASSUME NEW s \in SessionType, NEW q \in Seqs, s.sentPos < s.len
    PROVE  LET t == NextFragment(s, q)
               rest == s.len - s.sentPos
               last == rest < PayloadMax - Header
               n == IF last THEN rest ELSE PayloadMax - Header
           IN  /\ t \in SessionType /\ SameIn(s, t) /\ t.timer /\ t.len = s.len
               /\ t.sentPos = s.sentPos /\ t.nbr = s.nbr /\ t.sendLen = n + Header
               /\ t.head \in HeadType /\ t.head.seq = q /\ t.head.frag
               /\ t.head.nbr = s.nbr /\ t.head.last = last
               /\ \A j \in 1..n : t.out[Header + j] = s.out[s.sentPos + j]
<1> DEFINE rest == s.len - s.sentPos
           last == rest < PayloadMax - Header
           n == IF last THEN rest ELSE PayloadMax - Header
           out == Moved(s.out, s.sentPos, n)
           head == [seq |-> q, frag |-> TRUE, nbr |-> s.nbr, last |-> last]
           t == [s EXCEPT !.out = out, !.head = head, !.sendLen = n + Header]
<1>1. /\ s.len \in 0..OutMax /\ s.sentPos \in Nat /\ s.nbr \in Nat
      /\ s.out \in [1..OutMax -> OutByte] /\ last \in BOOLEAN
  BY SessionFields
<1>2. /\ n \in Nat /\ n <= rest /\ s.sentPos + n <= OutMax /\ n + Header <= PayloadMax
      /\ n + Header \in 0..OutMax
  <2>1. rest \in Nat /\ s.sentPos + rest = s.len
    BY <1>1
  <2>2. CASE last
    BY <1>1, <2>1, <2>2, Constants
  <2>3. CASE ~last
    BY <1>1, <2>1, <2>3, Constants
  <2> QED BY <2>2, <2>3
<1> HIDE DEF n
<1>3. out \in [1..OutMax -> OutByte]
  <2>1. \A i \in (Header + 1)..(Header + n) : s.sentPos + i - Header \in 1..OutMax
    BY <1>1, <1>2, Constants
  <2> QED BY <1>1, <2>1 DEF Moved
<1>4. \A j \in 1..n : out[Header + j] = s.out[s.sentPos + j]
  <2> TAKE j \in 1..n
  <2>1. /\ Header + j \in 1..OutMax /\ Header + j \in (Header + 1)..(Header + n)
        /\ s.sentPos + (Header + j) - Header = s.sentPos + j
    BY <1>1, <1>2, Constants
  <2> QED BY <2>1 DEF Moved
<1>5. /\ head \in HeadType /\ head.seq = q /\ head.frag /\ head.nbr = s.nbr /\ head.last = last
  BY <1>1 DEF HeadType
<1>6. NextFragment(s, q) = Timed(t)
  BY DEF NextFragment, n
<1> HIDE DEF out, head
<1>7. /\ t \in SessionType /\ SameIn(s, t) /\ t.out = out /\ t.head = head /\ t.len = s.len
      /\ t.sentPos = s.sentPos /\ t.sendLen = n + Header /\ t.nbr = s.nbr
  BY <1>2, <1>3, <1>5 DEF SessionType, SameIn
<1> HIDE DEF t
<1> QED BY <1>4, <1>5, <1>6, <1>7, TimedFacts DEF SameIn, SameOut, n

LEMMA PacketFacts ==
    ASSUME NEW s \in SessionType, s.head # Nil
    PROVE  LET p == Packet(s)
           IN  /\ p \in DownType /\ p.kind = "answer" /\ p.seq = s.head.seq
               /\ p.frag = s.head.frag /\ p.nbr = s.head.nbr /\ p.last = s.head.last
               /\ Len(p.body) = IF Header < s.sendLen THEN s.sendLen - Header ELSE 0
               /\ \A j \in 1..Len(p.body) : p.body[j] = s.out[Header + j]
<1> DEFINE b == SubSeq(s.out, Header + 1, s.sendLen)
<1>1. /\ s.head \in HeadType /\ s.sendLen \in 0..OutMax /\ s.out \in [1..OutMax -> OutByte]
  BY SessionFields
<1>2. \A i \in (Header + 1)..s.sendLen : s.out[i] \in OutByte
  BY <1>1, Constants
<1>3. /\ b \in Seq(OutByte)
      /\ Len(b) = IF Header + 1 <= s.sendLen THEN s.sendLen - (Header + 1) + 1 ELSE 0
      /\ \A i \in 1..(s.sendLen - (Header + 1) + 1) : b[i] = s.out[Header + 1 + i - 1]
  <2>1. Header + 1 \in Int /\ s.sendLen \in Int
    BY <1>1, Constants
  <2> QED BY <1>2, <2>1, SubSeqProperties
<1> HIDE DEF b
<1>4. Len(b) = IF Header < s.sendLen THEN s.sendLen - Header ELSE 0
  BY <1>1, <1>3, Constants
<1>5. \A j \in 1..Len(b) : b[j] = s.out[Header + j]
  <2> TAKE j \in 1..Len(b)
  <2>1. j \in 1..(s.sendLen - (Header + 1) + 1) /\ Header + 1 + j - 1 = Header + j
    BY <1>1, <1>4, Constants
  <2> QED BY <1>3, <2>1
<1>6. Packet(s) = [kind |-> "answer", seq |-> s.head.seq, frag |-> s.head.frag,
                   nbr |-> s.head.nbr, last |-> s.head.last, body |-> b]
  BY DEF Packet, b
<1>7. Packet(s) \in DownType
  BY <1>1, <1>3, <1>6 DEF DownType, HeadType
<1> QED BY <1>4, <1>5, <1>6, <1>7

-----------------------------------------------------------------------------
(***************************************************************************)
(* Requests.  The first fragment of a call empties the buffer, and a later *)
(* one is sent only when an earlier one was acknowledged; so when a later  *)
(* fragment is under way, the buffer holds nothing of another call, and no *)
(* fragment of another call is before it.                                  *)
(***************************************************************************)
Holds(c) == sess # Nil => Collects(sess, c)
HoldsThen(c) == sess' # Nil => Collects(sess', c)
Requested(i) == up[i].kind = "request"
CallOf(i) == up[i].byte[1]
OnlyFrom(c) == \A i \in 1..Len(up) : Requested(i) => CallOf(i) = c
Settled(c) == Holds(c) /\ OnlyFrom(c)

Assembled ==
    \A i \in 1..Len(up) : Requested(i) /\ up[i].nbr > 0 =>
       Holds(CallOf(i)) /\ \A j \in 1..i : Requested(j) => CallOf(j) = CallOf(i)

AckDown(q) == \E i \in 1..Len(down) : down[i].kind = "ack" /\ down[i].seq = q
\* What is under way of the controller's call is the end of what is under way.
OwnCall ==
    ctl.call # Nil =>
       /\ \A i \in 1..Len(up) : Requested(i) /\ up[i].seq = ctl.call.seq => CallOf(i) = ctl.call
       /\ \A i \in 1..Len(up) : \A j \in i..Len(up) :
             up[i].seq = ctl.call.seq => up[j].seq = ctl.call.seq
       /\ AckDown(ctl.call.seq) \/ ctl.part > 0 => Settled(ctl.call)

RequestsInv == FragmentsTypeOK /\ Assembled /\ OwnCall /\ RequestsWhole

\* What the first frame under way needs of the buffer.
LEMMA HeadCollects ==
    ASSUME FragmentsTypeOK, Assembled, Arrived("request")
    PROVE  /\ up # <<>> /\ Head(up) = up[1] /\ 1 \in 1..Len(up) /\ Head(up) \in UpType
           /\ Head(up).kind = "request" /\ Head(up).byte[1] \in CallType
           /\ Session \in SessionType
           /\ Head(up).nbr > 0 => Collects(Session, Head(up).byte[1])
<1> DEFINE m == Head(up)
           c == m.byte[1]
<1>1. up # <<>> /\ m.kind = "request"
  BY DEF Arrived
<1>2. m \in UpType /\ m = up[1] /\ 1 \in 1..Len(up)
  BY <1>1, TailLink DEF FragmentsTypeOK
<1>3. Session \in SessionType /\ c \in CallType
  BY <1>1, <1>2, UpFacts, SessionIsOne DEF FragmentsTypeOK
<1>4. Collects(NewSession, c)
  <2>1. Bytes(c, 0) = <<>>
    BY <1>3, BytesFacts, EmptySeq
  <2> QED BY <2>1, NewSessionType DEF Collects
<1>5. ASSUME m.nbr > 0 PROVE Collects(Session, c)
  <2>1. Holds(c)
    BY <1>1, <1>2, <1>5 DEF Assembled, Requested, CallOf
  <2> QED BY <1>4, <2>1 DEF Holds, Session
<1> QED BY <1>1, <1>2, <1>3, <1>5

LEMMA TakePartFacts ==
    ASSUME FragmentsTypeOK, Assembled, TakePart
    PROVE  LET m == Head(up)
               c == m.byte[1]
           IN  /\ m.last = FALSE
               /\ down' = Sent(down, [kind |-> "ack", seq |-> m.seq, nbr |-> m.nbr])
               /\ \/ sess = Nil /\ sess' = Nil
                  \/ /\ sess' \in SessionType /\ ~sess'.timer /\ SameOut(Session, sess')
                     /\ Collects(sess', c)
<1> DEFINE m == Head(up)
           c == m.byte[1]
           g == Gathered(Session, m)
<1>1. /\ Arrived("request") /\ m.last = FALSE
      /\ down' = Sent(down, [kind |-> "ack", seq |-> m.seq, nbr |-> m.nbr])
      /\ sess' = IF Named(m) THEN Stopped(g) ELSE sess
  <2>1. Arrived("request") /\ ~m.last
    BY DEF TakePart, Part
  <2>2. m.last \in BOOLEAN
    BY <2>1, HeadCollects, UpFacts
  <2> QED BY <2>1, <2>2 DEF TakePart
<1>2. m \in UpType /\ m.kind = "request" /\ c \in CallType /\ Session \in SessionType
  BY <1>1, HeadCollects
<1>3. m.nbr = 0 \/ Collects(Session, c)
  BY <1>1, <1>2, HeadCollects, UpFacts
<1>4. g \in SessionType /\ SameOut(Session, g) /\ Collects(g, c)
  BY <1>2, <1>3, GatheredFacts
<1> HIDE DEF g, m
<1>5. CASE Named(m)
  <2>1. sess' \in SessionType /\ SameIn(g, sess') /\ SameOut(g, sess') /\ ~sess'.timer
    BY <1>1, <1>4, <1>5, StoppedFacts
  <2>2. Collects(sess', c) /\ SameOut(Session, sess')
    BY <1>4, <2>1 DEF Collects, SameIn, SameOut
  <2> QED BY <1>1, <2>1, <2>2 DEF m
<1>6. CASE ~Named(m)
  BY <1>1, <1>6 DEF Named, m
<1> QED BY <1>5, <1>6

LEMMA TakeWholeFacts ==
    ASSUME FragmentsTypeOK, Assembled, TakeWhole
    PROVE  LET m == Head(up)
               c == m.byte[1]
           IN  \E u \in SessionType, body \in {<<>>, Answer(c)} :
                  LET t == Answered(u, m.seq, body)
                  IN  /\ ~u.timer /\ Collects(u, c)
                      /\ down' = Sent(down, Packet(t))
                      /\ sess' \in {Nil, t}
                      /\ \/ ran' = <<>>
                         \/ ran' = Request(c) /\ body = Answer(c) /\ (c.req.once \/ sess' = t)
<1> DEFINE m == Head(up)
           c == m.byte[1]
           r == Read(Session, m)
           body == IF Parses(r) THEN Answer(r[1][1]) ELSE <<>>
           s == IF m.frag THEN Gathered(Session, m) ELSE Begun(Session)
           u == Stopped(s)
           t == Answered(u, m.seq, body)
<1>1. /\ Arrived("request")
      /\ sess' = IF ~Named(m) THEN sess ELSE IF c.req.once THEN Nil ELSE t
      /\ down' = Sent(down, Packet(t))
      /\ ran' = IF Parses(r) THEN r ELSE <<>>
  BY DEF TakeWhole, Whole
<1>2. m \in UpType /\ m.kind = "request" /\ c \in CallType /\ Session \in SessionType
  BY <1>1, HeadCollects
<1>3. m.nbr > 0 => Collects(Session, c)
  BY <1>1, HeadCollects
<1>4. Parses(r) => r = Request(c) /\ r[1][1] = c /\ (m.nbr = 0 \/ Session.inNbr = m.nbr)
  BY <1>2, <1>3, ParsedFacts
<1>5. body \in {<<>>, Answer(c)}
  BY <1>4
<1>6. s \in SessionType /\ Collects(s, c)
  <2>1. CASE m.frag
    <3>1. m.nbr = 0 \/ Collects(Session, c)
      BY <1>2, <1>3, UpFacts
    <3> QED BY <1>2, <2>1, <3>1, GatheredFacts
  <2>2. CASE ~m.frag
    <3>1. Bytes(c, 0) = <<>>
      BY <1>2, BytesFacts, EmptySeq
    <3> QED BY <1>2, <2>2, <3>1, BegunFacts DEF Collects
  <2> QED BY <2>1, <2>2
<1> HIDE DEF s
<1>7. u \in SessionType /\ ~u.timer /\ Collects(u, c)
  BY <1>6, StoppedFacts DEF Collects, SameIn
<1>8. ~Named(m) => sess = Nil
  BY DEF Named
<1>9. Parses(r) => Named(m)
  <2>1. ASSUME sess = Nil, m.nbr # 0 PROVE Session.inNbr # m.nbr
    BY <2>1, NewSessionType DEF Session
  <2> QED BY <1>4, <2>1 DEF Named
<1>10. \/ ran' = <<>>
       \/ ran' = Request(c) /\ body = Answer(c) /\ (c.req.once \/ sess' = t)
  <2>1. CASE Parses(r)
    <3>1. r = Request(c) /\ r[1][1] = c /\ Named(m)
      BY <1>4, <1>9, <2>1
    <3>2. body = Answer(c)
      BY <2>1, <3>1
    <3> HIDE DEF r, t, body, c, m
    <3> QED BY <1>1, <2>1, <3>1, <3>2
  <2>2. CASE ~Parses(r)
    BY <1>1, <2>2
  <2> QED BY <2>1, <2>2
<1>11. sess' \in {Nil, t}
  BY <1>1, <1>8
<1> HIDE DEF r, body, u
<1> QED BY <1>1, <1>5, <1>7, <1>10, <1>11

LEMMA BodyFacts ==
    ASSUME NEW c \in CallType, NEW body \in {<<>>, Answer(c)}
    PROVE  body \in Seq(OutByte) /\ Header + Len(body) <= OutMax
<1>1. c.req.size \in Nat /\ Header + c.req.size <= OutMax
  BY CallFacts, Constants
<1>2. CASE body = <<>>
  BY <1>2, Constants
<1>3. CASE body = Answer(c)
  <2>1. body \in Seq(ByteType) /\ Len(body) = c.req.size
    BY <1>1, <1>3, BytesFacts DEF Answer
  <2>2. body \in Seq(OutByte)
    BY <2>1 DEF OutByte
  <2> QED BY <1>1, <2>1, <2>2
<1> QED BY <1>2, <1>3

\* The frame that an answer begins with, and the session after it.
LEMMA WholeTypes ==
    ASSUME NEW u \in SessionType, NEW c \in CallType, NEW body \in {<<>>, Answer(c)}
    PROVE  LET t == Answered(u, c.seq, body)
           IN  /\ body \in Seq(OutByte) /\ Header + Len(body) <= OutMax
               /\ t \in SessionType /\ t.head # Nil /\ t.head.seq = c.seq /\ SameIn(u, t)
               /\ Packet(t) \in DownType /\ Packet(t).kind = "answer" /\ Packet(t).seq = c.seq
<1> DEFINE t == Answered(u, c.seq, body)
<1>1. c.req.size \in Nat /\ Header + c.req.size <= OutMax /\ c.seq \in Seqs
  BY CallFacts, Constants
<1>2. body \in Seq(OutByte) /\ Header + Len(body) <= OutMax
  BY BodyFacts
<1>3. t \in SessionType /\ t.head \in HeadType /\ t.head.seq = c.seq /\ SameIn(u, t)
  BY <1>1, <1>2, AnsweredFacts
<1> HIDE DEF t
<1>4. t.head # Nil
  BY <1>3, Constants
<1>5. Packet(t) \in DownType /\ Packet(t).kind = "answer" /\ Packet(t).seq = c.seq
  BY <1>3, <1>4, PacketFacts
<1> QED BY <1>2, <1>3, <1>4, <1>5 DEF t

LEMMA TakeAckFacts ==
    ASSUME FragmentsTypeOK, TakeAck
    PROVE  \E t \in SessionType :
              /\ t.in = <<>> /\ t.inNbr = 0 /\ ~t.timer
              /\ t.out = Session.out /\ t.head = Session.head /\ t.len = Session.len
              /\ t.sentPos = Session.sentPos + Session.sendLen
              /\ t.nbr = Session.nbr + 1 /\ t.sendLen = Session.sendLen
              /\ \/ /\ t.sentPos < t.len /\ sess' = NextFragment(t, Head(up).seq)
                    /\ down' = Sent(down, Packet(sess'))
                 \/ t.len <= t.sentPos /\ sess' = Cleared(t) /\ down' = down
<1> DEFINE b == Begun(Session)
           s == Stopped(b)
           t == [s EXCEPT !.sentPos = @ + s.sendLen, !.nbr = @ + 1]
<1>1. Session \in SessionType
  BY SessionIsOne DEF FragmentsTypeOK
<1>2. b \in SessionType /\ b.in = <<>> /\ b.inNbr = 0 /\ SameOut(Session, b)
  BY <1>1, BegunFacts
<1>3. s \in SessionType /\ SameIn(b, s) /\ SameOut(b, s) /\ ~s.timer
  BY <1>2, StoppedFacts
<1>4. /\ sess' = IF t.len > t.sentPos THEN NextFragment(t, Head(up).seq) ELSE Cleared(t)
      /\ down' = IF t.len > t.sentPos THEN Sent(down, Packet(NextFragment(t, Head(up).seq))) ELSE down
  BY DEF TakeAck
<1> HIDE DEF s
<1>5. s.sentPos \in Nat /\ s.sendLen \in 0..OutMax /\ s.nbr \in Nat
  BY <1>3, SessionFields
<1>6. s.sentPos + s.sendLen \in Nat /\ s.nbr + 1 \in Nat
  BY <1>5
<1>7. /\ t \in SessionType /\ SameIn(s, t) /\ t.timer = s.timer /\ t.out = s.out /\ t.head = s.head
      /\ t.len = s.len /\ t.sentPos = s.sentPos + s.sendLen /\ t.nbr = s.nbr + 1
      /\ t.sendLen = s.sendLen
  BY <1>3, <1>6 DEF SessionType, SameIn
<1> HIDE DEF b, t
<1>8. t.len \in Nat /\ t.sentPos \in Nat
  BY <1>7, SessionFields
<1>9. /\ t.in = <<>> /\ t.inNbr = 0 /\ ~t.timer
      /\ t.out = Session.out /\ t.head = Session.head /\ t.len = Session.len
      /\ t.sentPos = Session.sentPos + Session.sendLen /\ t.nbr = Session.nbr + 1
      /\ t.sendLen = Session.sendLen
  BY <1>2, <1>3, <1>7 DEF SameIn, SameOut
<1>10. CASE t.sentPos < t.len
  BY <1>4, <1>7, <1>8, <1>9, <1>10
<1>11. CASE t.len <= t.sentPos
  BY <1>4, <1>7, <1>8, <1>9, <1>11
<1> QED BY <1>8, <1>10, <1>11

LEMMA TakePingFacts ==
    ASSUME FragmentsTypeOK, TakePing
    PROVE  \/ sess' = Nil
           \/ /\ sess' \in SessionType /\ sess'.in = <<>> /\ sess'.inNbr = 0 /\ ~sess'.timer
              /\ sess'.len = 0 /\ sess'.sentPos = 0 /\ sess'.sendLen = 0
<1> SUFFICES ASSUME sess # Nil
             PROVE  /\ sess' \in SessionType /\ sess'.in = <<>> /\ sess'.inNbr = 0 /\ ~sess'.timer
                    /\ sess'.len = 0 /\ sess'.sentPos = 0 /\ sess'.sendLen = 0
  BY DEF TakePing
<1> DEFINE b == Begun(sess)
           s == Stopped(b)
<1>1. b \in SessionType /\ b.in = <<>> /\ b.inNbr = 0
  BY BegunFacts DEF FragmentsTypeOK
<1>2. s \in SessionType /\ SameIn(b, s) /\ ~s.timer
  BY <1>1, StoppedFacts
<1>3. sess' = Cleared(s)
  BY DEF TakePing
<1> HIDE DEF b, s
<1> QED BY <1>1, <1>2, <1>3, ClearedFacts DEF SameIn

LEMMA TimeoutFacts ==
    ASSUME FragmentsTypeOK, Timeout
    PROVE  /\ sess \in SessionType /\ sess # Nil /\ sess.timer /\ sess.head # Nil
           /\ \/ /\ sess' \in SessionType /\ SameIn(sess, sess') /\ SameOut(sess, sess')
                 /\ sess'.timer /\ down' = Sent(down, Packet(sess)) /\ fallen' = fallen
              \/ sess' = Nil /\ down' = down
              \/ /\ sess' \in SessionType /\ SameIn(sess, sess') /\ SameOut(sess, sess')
                 /\ ~sess'.timer /\ down' = down /\ fallen'
<1>1. sess \in SessionType /\ sess # Nil /\ sess.timer /\ sess.head # Nil
  BY DEF Timeout, FragmentsTypeOK
<1>2. CASE sess.left > 0 /\ sess' = [sess EXCEPT !.left = @ - 1] /\ down' = Sent(down, Packet(sess))
           /\ fallen' = fallen
  <2>1. sess.left - 1 \in 0..(Resends - 1)
    BY <1>1, <1>2, SessionFields, Constants
  <2>2. sess' \in SessionType /\ SameIn(sess, sess') /\ SameOut(sess, sess') /\ sess'.timer
    BY <1>1, <1>2, <2>1 DEF SessionType, SameIn, SameOut
  <2> QED BY <1>1, <1>2, <2>2
<1>3. CASE sess' = (IF sess.ar THEN Nil ELSE Stopped(sess)) /\ fallen' = ~sess.ar /\ down' = down
  BY <1>1, <1>3, StoppedFacts
<1> QED BY <1>1, <1>2, <1>3 DEF Timeout

-----------------------------------------------------------------------------
\* The controller: what it is when it sends a fragment, and what it is after it.
LEMMA SendPartFacts ==
    ASSUME NEW c \in CtlType, c.call \in CallType, NEW j \in Nat, j < c.call.req.frags,
           SendPart(c, j)
    PROVE  /\ ctl' \in CtlType /\ ctl'.call = c.call /\ ctl'.part = j /\ ctl'.got = c.got
           /\ ctl'.next = c.next
           /\ ctl'.at = IF j + 1 = c.call.req.frags THEN "waiting" ELSE "sending"
           /\ up' = Sent(up, Fragment(c.call, j))
BY DEF SendPart, CtlType

LEMMA SendPartTypes ==
    ASSUME FragmentsTypeOK, NEW c \in CtlType, c.call \in CallType,
           NEW j \in Nat, j < c.call.req.frags, SendPart(c, j),
           sess' = sess, down' \in Seq(DownType), ran' \in Seq(ByteType), disturbed' \in BOOLEAN,
           fallen' = fallen
    PROVE  FragmentsTypeOK'
<1>1. Fragment(c.call, j) \in UpType
  BY FragmentFacts
<1>2. up' \in Seq(UpType)
  BY <1>1, SendPartFacts, SentLink DEF FragmentsTypeOK
<1>3. /\ ctl' \in CtlType /\ ctl'.call = c.call /\ ctl'.part = j
      /\ ctl'.at = IF j + 1 = c.call.req.frags THEN "waiting" ELSE "sending"
  BY SendPartFacts
<1>4. ctl'.call # Nil /\ c.call.req.frags \in Nat
  BY <1>3, CallFacts
<1>5. ctl'.at = "sending" => j + 1 < c.call.req.frags
  BY <1>3, <1>4
<1> QED BY <1>2, <1>3, <1>4, <1>5 DEF FragmentsTypeOK

LEMMA CtlFacts ==
    ASSUME FragmentsTypeOK
    PROVE  /\ ctl \in CtlType /\ ctl.at \in {"idle", "sending", "waiting"} /\ ctl.part \in Nat
           /\ ctl.got \in Seq(OutByte) /\ ctl.next \in Nat
           /\ ctl.at # "idle" => ctl.call # Nil
           /\ ctl.call # Nil => ctl.call \in CallType /\ ctl.part < ctl.call.req.frags
           /\ ctl.at = "sending" => ctl.part + 1 < ctl.call.req.frags
BY DEF FragmentsTypeOK, CtlType

LEMMA AskFacts ==
    ASSUME FragmentsTypeOK, NEW r \in Calls, NEW q \in Seqs, Ask(r, q)
    PROVE  /\ ctl' \in CtlType /\ ctl'.call = [seq |-> q, req |-> r] /\ ctl'.call \in CallType
           /\ ctl'.part = 0 /\ ctl'.got = <<>> /\ ctl'.next = 0 /\ ctl'.at # "idle"
           /\ up' = Sent(up, Fragment(ctl'.call, 0))
           /\ FragmentsTypeOK'
<1> DEFINE call == [seq |-> q, req |-> r]
           c == [ctl EXCEPT !.call = call, !.got = <<>>, !.next = 0]
<1>1. call \in CallType
  BY DEF CallType
<1>2. c \in CtlType /\ c.call = call /\ c.got = <<>> /\ c.next = 0
  <2>1. ctl \in CtlType /\ <<>> \in Seq(OutByte)
    BY CtlFacts
  <2> HIDE DEF call
  <2> QED BY <1>1, <2>1 DEF CtlType
<1>3. SendPart(c, 0) /\ UNCHANGED <<sess, down, fallen>> /\ ran' = <<>> /\ disturbed' = FALSE
  BY DEF Ask
<1>4. 0 \in Nat /\ 0 < call.req.frags
  BY <1>1, CallFacts
<1> HIDE DEF c, call
<1>5. /\ ctl' \in CtlType /\ ctl'.call = call /\ ctl'.part = 0 /\ ctl'.got = <<>>
      /\ ctl'.next = 0 /\ ctl'.at # "idle" /\ up' = Sent(up, Fragment(call, 0))
  BY <1>1, <1>2, <1>3, <1>4, SendPartFacts
<1>6. FragmentsTypeOK'
  <2>1. down' \in Seq(DownType) /\ ran' \in Seq(ByteType)
    BY <1>3 DEF FragmentsTypeOK
  <2> QED BY <1>1, <1>2, <1>3, <1>4, <2>1, SendPartTypes
<1> QED BY <1>1, <1>5, <1>6 DEF call

LEMMA RepeatFacts ==
    ASSUME FragmentsTypeOK, Repeat
    PROVE  /\ ctl.at # "idle" /\ ctl.call \in CallType
           /\ \E j \in {0, ctl.part} :
                 j \in Nat /\ j < ctl.call.req.frags /\ SendPart(ctl, j)
           /\ FragmentsTypeOK'
<1> DEFINE j == IF ctl.at = "sending" THEN ctl.part ELSE 0
<1>1. SendPart(ctl, j) /\ ctl.at # "idle" /\ UNCHANGED <<sess, down, ran, fallen>>
  BY DEF Repeat
<1>2. ctl.call \in CallType /\ ctl \in CtlType /\ j \in Nat /\ j < ctl.call.req.frags
  BY <1>1, CtlFacts, CallFacts
<1>3. FragmentsTypeOK'
  <2>1. disturbed' \in BOOLEAN
    BY DEF Repeat
  <2>2. down' \in Seq(DownType) /\ ran' \in Seq(ByteType)
    BY <1>1 DEF FragmentsTypeOK
  <2> HIDE DEF j
  <2> QED BY <1>1, <1>2, <2>1, <2>2, SendPartTypes
<1> QED BY <1>1, <1>2, <1>3

LEMMA PingFacts ==
    ASSUME FragmentsTypeOK, Ping
    PROVE  /\ ctl.call \in CallType /\ up' = Sent(up, [kind |-> "ping", seq |-> ctl.call.seq])
           /\ [kind |-> "ping", seq |-> ctl.call.seq] \in UpType
           /\ FragmentsTypeOK'
<1>1. ctl.call \in CallType
  BY CtlFacts DEF Ping
<1>2. [kind |-> "ping", seq |-> ctl.call.seq] \in UpType
  BY <1>1, CallFacts DEF UpType
<1>3. up' = Sent(up, [kind |-> "ping", seq |-> ctl.call.seq])
  BY DEF Ping
<1>4. up' \in Seq(UpType)
  BY <1>2, <1>3, SentLink DEF FragmentsTypeOK
<1> QED BY <1>1, <1>2, <1>3, <1>4 DEF Ping, FragmentsTypeOK

LEMMA GetAckFacts ==
    ASSUME FragmentsTypeOK, GetAck
    PROVE  /\ down # <<>> /\ down' = Tail(down) /\ Head(down).kind = "ack"
           /\ \/ /\ ctl.at = "sending" /\ ctl.call \in CallType /\ Head(down).seq = ctl.call.seq
                 /\ ctl.part + 1 < ctl.call.req.frags /\ SendPart(ctl, ctl.part + 1)
              \/ ctl' = ctl /\ up' = up
           /\ FragmentsTypeOK'
<1>1. down # <<>> /\ down' = Tail(down) /\ down' \in Seq(DownType)
  BY TailLink DEF GetAck, FragmentsTypeOK
<1>2. CASE /\ ctl.at = "sending" /\ Head(down).seq = ctl.call.seq
           /\ SendPart(ctl, ctl.part + 1)
  <2>1. /\ ctl.call \in CallType /\ ctl \in CtlType /\ ctl.part + 1 \in Nat
        /\ ctl.part + 1 < ctl.call.req.frags
    BY <1>2, CtlFacts
  <2>2. sess' = sess /\ fallen' = fallen /\ ran' \in Seq(ByteType) /\ disturbed' \in BOOLEAN
    BY DEF GetAck, FragmentsTypeOK
  <2>3. FragmentsTypeOK'
    BY <1>1, <1>2, <2>1, <2>2, SendPartTypes
  <2> QED BY <1>1, <1>2, <2>1, <2>3 DEF GetAck
<1>3. CASE ctl' = ctl /\ up' = up
  BY <1>1, <1>3 DEF GetAck, FragmentsTypeOK
<1> QED BY <1>2, <1>3 DEF GetAck

LEMMA GetAnswerFacts ==
    ASSUME FragmentsTypeOK, GetAnswer
    PROVE  LET m == Head(down)
               mine == ctl.at # "sending" /\ m.seq = ctl.call.seq
               new == ctl.at = "waiting" /\ m.nbr = ctl.next
           IN  /\ down # <<>> /\ down' = Tail(down) /\ m.kind = "answer" /\ m \in DownType
               /\ ctl'.call = ctl.call /\ ctl'.part = ctl.part
               /\ \/ ~(mine /\ new) /\ ctl' = ctl
                  \/ /\ mine /\ new /\ ctl'.got = ctl.got \o m.body
                     /\ ctl'.next = ctl.next + 1
                     /\ ctl'.at = IF m.frag /\ ~m.last THEN "waiting" ELSE "idle"
               /\ \/ up' = up
                  \/ /\ mine /\ m.frag /\ up' = Sent(up, [kind |-> "ack", seq |-> m.seq])
                     /\ [kind |-> "ack", seq |-> m.seq] \in UpType
               /\ FragmentsTypeOK'
<1> DEFINE m == Head(down)
           mine == ctl.at # "sending" /\ m.seq = ctl.call.seq
           new == ctl.at = "waiting" /\ m.nbr = ctl.next
           at == IF m.frag /\ ~m.last THEN ctl.at ELSE "idle"
           c == [ctl EXCEPT !.got = @ \o m.body, !.next = @ + 1, !.at = at]
           a == [kind |-> "ack", seq |-> m.seq]
<1>1. /\ down # <<>> /\ down' = Tail(down) /\ m.kind = "answer" /\ m \in DownType
      /\ down' \in Seq(DownType)
  BY TailLink DEF GetAnswer, FragmentsTypeOK
<1>2. /\ ctl' = IF ~(mine /\ new) THEN ctl ELSE c
      /\ up' = IF mine /\ m.frag THEN Sent(up, a) ELSE up
      /\ UNCHANGED <<sess, ran, disturbed, fallen>>
  BY DEF GetAnswer
<1>3. m.body \in Seq(OutByte) /\ m.seq \in Seqs /\ a \in UpType
  BY <1>1, DownFacts DEF UpType
<1>4. /\ ctl.got \o m.body \in Seq(OutByte) /\ ctl.next + 1 \in Nat
      /\ at \in {"idle", "sending", "waiting"}
  BY <1>3, CtlFacts, ConcatProperties
<1>5. ctl \in CtlType
  BY CtlFacts
<1> HIDE DEF a, at, m
<1>6. /\ c \in CtlType /\ c.call = ctl.call /\ c.part = ctl.part /\ c.got = ctl.got \o m.body
      /\ c.next = ctl.next + 1 /\ c.at = at
  BY <1>4, <1>5 DEF CtlType
<1> HIDE DEF c
<1>7. up' \in Seq(UpType)
  BY <1>2, <1>3, SentLink DEF FragmentsTypeOK
<1>8. ctl' \in CtlType /\ ctl'.call = ctl.call /\ ctl'.part = ctl.part
  BY <1>2, <1>5, <1>6
<1>9. new => at = (IF m.frag /\ ~m.last THEN "waiting" ELSE "idle") /\ ctl.call # Nil
  BY CtlFacts DEF at
<1>10. FragmentsTypeOK'
  <2>1. ctl'.at = "sending" => ctl' = ctl
    BY <1>2, <1>6, <1>9
  <2>2. ctl'.call = Nil => ctl' = ctl
    BY <1>2, <1>8, <1>9
  <2> QED BY <1>1, <1>2, <1>7, <1>8, <2>1, <2>2 DEF FragmentsTypeOK
<1> QED BY <1>1, <1>2, <1>3, <1>6, <1>8, <1>9, <1>10 DEF a, m

-----------------------------------------------------------------------------
\* What is under way.
LEMMA UpSent ==
    ASSUME FragmentsTypeOK, NEW f \in UpType, up' = Sent(up, f)
    PROVE  /\ Len(up) \in Nat
           /\ \/ up' = up
              \/ /\ Len(up') = Len(up) + 1 /\ \A i \in 1..Len(up) : up'[i] = up[i]
                 /\ up'[Len(up) + 1] = f
<1>1. up \in Seq(UpType)
  BY DEF FragmentsTypeOK
<1> QED BY <1>1, SentIs

LEMMA DownSent ==
    ASSUME FragmentsTypeOK, NEW d \in DownType, down' = Sent(down, d)
    PROVE  /\ Len(down) \in Nat
           /\ \/ down' = down
              \/ /\ Len(down') = Len(down) + 1 /\ \A i \in 1..Len(down) : down'[i] = down[i]
                 /\ down'[Len(down) + 1] = d
<1>1. down \in Seq(DownType)
  BY DEF FragmentsTypeOK
<1> QED BY <1>1, SentIs

LEMMA AckSent ==
    ASSUME FragmentsTypeOK, NEW d \in DownType, down' = Sent(down, d), NEW q, AckDown(q)'
    PROVE  AckDown(q) \/ (d.kind = "ack" /\ d.seq = q)
<1>0. /\ Len(down) \in Nat
      /\ \/ down' = down
         \/ /\ Len(down') = Len(down) + 1 /\ \A k \in 1..Len(down) : down'[k] = down[k]
            /\ down'[Len(down) + 1] = d
  BY DownSent
<1>1. PICK i \in 1..Len(down') : down'[i].kind = "ack" /\ down'[i].seq = q
  BY DEF AckDown
<1>2. CASE down' = down
  BY <1>1, <1>2 DEF AckDown
<1>3. CASE /\ Len(down') = Len(down) + 1 /\ \A k \in 1..Len(down) : down'[k] = down[k]
           /\ down'[Len(down) + 1] = d
  <2>1. i \in 1..Len(down) \/ i = Len(down) + 1
    BY <1>0, <1>3
  <2> QED BY <1>1, <1>3, <2>1 DEF AckDown
<1> QED BY <1>0, <1>2, <1>3

LEMMA AckTail ==
    ASSUME FragmentsTypeOK, down # <<>>, down' = Tail(down), NEW q, AckDown(q)'
    PROVE  AckDown(q)
<1>1. PICK i \in 1..Len(down') : down'[i].kind = "ack" /\ down'[i].seq = q
  BY DEF AckDown
<1>2. i + 1 \in 1..Len(down) /\ down'[i] = down[i + 1]
  BY TailLink DEF FragmentsTypeOK
<1> QED BY <1>1, <1>2 DEF AckDown

\* A frame is taken from those to the device.
LEMMA TakenInv ==
    ASSUME RequestsInv, up # <<>>, up' = Tail(up), ctl' = ctl,
           \A c \in CallType : Holds(c) /\ (Requested(1) => CallOf(1) = c) => HoldsThen(c),
           \A q : AckDown(q)' =>
              AckDown(q) \/ (Requested(1) /\ up[1].seq = q /\ HoldsThen(CallOf(1)))
    PROVE  Assembled' /\ OwnCall'
<1>1. /\ Len(up) \in Nat /\ 1 \in 1..Len(up) /\ Len(up') = Len(up) - 1 /\ up \in Seq(UpType)
      /\ \A i \in 1..Len(up') : i + 1 \in 2..Len(up) /\ up'[i] = up[i + 1]
  BY TailLink DEF RequestsInv, FragmentsTypeOK
<1>2. \A i \in 1..Len(up) : Requested(i) => CallOf(i) \in CallType
  BY <1>1, UpFacts, ElementOfSeq DEF Requested, CallOf
<1>3. \A i \in 1..Len(up') : /\ Requested(i)' <=> Requested(i + 1)
                             /\ CallOf(i)' = CallOf(i + 1) /\ up'[i].seq = up[i + 1].seq
                             /\ up'[i].nbr = up[i + 1].nbr
  BY <1>1 DEF Requested, CallOf
<1>4. Assembled'
  <2> SUFFICES ASSUME NEW i \in 1..Len(up'), Requested(i)', up'[i].nbr > 0
               PROVE  /\ HoldsThen(CallOf(i + 1))
                      /\ \A j \in 1..i : Requested(j)' => CallOf(j)' = CallOf(i)'
    <3>1. \A i \in 1..Len(up') : HoldsThen(CallOf(i + 1)) => Holds(CallOf(i))'
      BY <1>3 DEF Holds, HoldsThen
    <3> QED BY <3>1 DEF Assembled
  <2>1. i + 1 \in 1..Len(up) /\ Requested(i + 1) /\ up[i + 1].nbr > 0
    BY <1>1, <1>3
  <2>2. /\ Holds(CallOf(i + 1))
        /\ \A j \in 1..(i + 1) : Requested(j) => CallOf(j) = CallOf(i + 1)
    BY <2>1 DEF RequestsInv, Assembled
  <2>3. Requested(1) => CallOf(1) = CallOf(i + 1)
    BY <1>1, <2>1, <2>2
  <2>4. ASSUME NEW j \in 1..i, Requested(j)' PROVE CallOf(j)' = CallOf(i)'
    <3>1. j + 1 \in 1..(i + 1) /\ j \in 1..Len(up')
      BY <1>1
    <3> QED BY <1>3, <2>2, <2>4, <3>1
  <2> QED BY <1>2, <2>1, <2>2, <2>3, <2>4
<1>5. OwnCall'
  <2> SUFFICES ASSUME ctl.call # Nil PROVE OwnCall'
    BY DEF OwnCall
  <2> DEFINE q == ctl.call.seq
  <2>1. /\ \A i \in 1..Len(up) : Requested(i) /\ up[i].seq = q => CallOf(i) = ctl.call
        /\ \A i \in 1..Len(up) : \A j \in i..Len(up) : up[i].seq = q => up[j].seq = q
        /\ AckDown(q) \/ ctl.part > 0 => Settled(ctl.call)
    BY DEF RequestsInv, OwnCall
  <2>2. \A i \in 1..Len(up') : Requested(i)' /\ up'[i].seq = q => CallOf(i)' = ctl.call
    BY <1>1, <1>3, <2>1
  <2>3. \A i \in 1..Len(up') : \A j \in i..Len(up') : up'[i].seq = q => up'[j].seq = q
    <3> SUFFICES ASSUME NEW i \in 1..Len(up'), NEW j \in i..Len(up'), up'[i].seq = q
                 PROVE  up'[j].seq = q
      OBVIOUS
    <3>1. i + 1 \in 1..Len(up) /\ j + 1 \in (i + 1)..Len(up) /\ j \in 1..Len(up')
      BY <1>1
    <3> QED BY <1>1, <2>1, <3>1
  <2>4. ASSUME AckDown(q)' \/ ctl.part > 0 PROVE Settled(ctl.call)'
    <3>1. ctl.call \in CallType
      BY CtlFacts DEF RequestsInv
    <3>2. CASE AckDown(q) \/ ctl.part > 0
      <4>1. Holds(ctl.call) /\ OnlyFrom(ctl.call)
        BY <2>1, <3>2 DEF Settled
      <4>2. Holds(ctl.call)'
        BY <1>1, <3>1, <4>1 DEF OnlyFrom, Holds, HoldsThen
      <4>3. OnlyFrom(ctl.call)'
        BY <1>1, <1>3, <4>1 DEF OnlyFrom
      <4> QED BY <4>2, <4>3 DEF Settled
    <3>3. CASE Requested(1) /\ up[1].seq = q /\ HoldsThen(CallOf(1))
      <4>1. CallOf(1) = ctl.call
        BY <1>1, <2>1, <3>3
      <4>2. Holds(ctl.call)'
        BY <3>3, <4>1 DEF Holds, HoldsThen
      <4>3. \A i \in 1..Len(up) : up[i].seq = q
        BY <1>1, <2>1, <3>3
      <4>4. OnlyFrom(ctl.call)'
        BY <1>1, <1>3, <2>1, <4>3 DEF OnlyFrom
      <4> QED BY <4>2, <4>4 DEF Settled
    <3> QED BY <2>4, <3>2, <3>3
  <2> QED BY <2>2, <2>3, <2>4 DEF OwnCall
<1> QED BY <1>4, <1>5

\* Nothing new to the device, and nothing taken.
LEMMA LeftInv ==
    ASSUME RequestsInv, up' = up, ctl'.call = ctl.call, ctl'.part = ctl.part,
           \A c \in CallType : Holds(c) => HoldsThen(c),
           \A q : AckDown(q)' => AckDown(q)
    PROVE  Assembled' /\ OwnCall'
<1>1. \A i \in 1..Len(up) : Requested(i) => CallOf(i) \in CallType
  BY UpFacts, ElementOfSeq DEF Requested, CallOf, RequestsInv, FragmentsTypeOK
<1>2. \A i \in 1..Len(up) : (Requested(i)' <=> Requested(i)) /\ CallOf(i)' = CallOf(i)
  BY DEF Requested, CallOf
<1>3. Assembled'
  <2> SUFFICES ASSUME NEW i \in 1..Len(up), Requested(i), up[i].nbr > 0
               PROVE  Holds(CallOf(i))' /\ \A j \in 1..i : Requested(j)' => CallOf(j)' = CallOf(i)'
    BY <1>2 DEF Assembled
  <2>1. Holds(CallOf(i)) /\ \A j \in 1..i : Requested(j) => CallOf(j) = CallOf(i)
    BY DEF RequestsInv, Assembled
  <2>2. Holds(CallOf(i))'
    <3>1. HoldsThen(CallOf(i))
      BY <1>1, <2>1
    <3> QED BY <1>2, <3>1 DEF Holds, HoldsThen
  <2> QED BY <1>2, <2>1, <2>2 DEF Requested, CallOf
<1>4. OwnCall'
  <2> SUFFICES ASSUME ctl.call # Nil PROVE OwnCall'
    BY DEF OwnCall
  <2>1. ctl.call \in CallType
    BY CtlFacts DEF RequestsInv
  <2>2. Settled(ctl.call) => Settled(ctl.call)'
    <3>1. Holds(ctl.call) => Holds(ctl.call)'
      BY <2>1 DEF Holds, HoldsThen
    <3>2. OnlyFrom(ctl.call) => OnlyFrom(ctl.call)'
      BY <1>2 DEF OnlyFrom
    <3> QED BY <3>1, <3>2 DEF Settled
  <2> QED BY <1>2, <2>2 DEF RequestsInv, OwnCall
<1> QED BY <1>3, <1>4

\* The controller sends something of its call.
LEMMA SentInv ==
    ASSUME RequestsInv, ctl.call \in CallType, NEW f \in UpType, f.seq = ctl.call.seq,
           f.kind = "request" =>
              f.byte[1] = ctl.call /\ (f.nbr > 0 => Settled(ctl.call)),
           up' = Sent(up, f), sess' = sess, ctl'.call = ctl.call,
           ctl'.part > 0 => Settled(ctl.call),
           \A q : AckDown(q)' => AckDown(q)
    PROVE  Assembled' /\ OwnCall'
<1> DEFINE call == ctl.call
           n == Len(up)
<1>1. /\ n \in Nat
      /\ \/ up' = up
         \/ /\ Len(up') = n + 1 /\ \A i \in 1..n : up'[i] = up[i]
            /\ up'[n + 1] = f
  BY UpSent DEF RequestsInv
<1>2. /\ \A i \in 1..n : Requested(i) /\ up[i].seq = call.seq => CallOf(i) = call
      /\ \A i \in 1..n : \A j \in i..n : up[i].seq = call.seq => up[j].seq = call.seq
      /\ AckDown(call.seq) \/ ctl.part > 0 => Settled(call)
      /\ call # Nil
  BY CallFacts DEF RequestsInv, OwnCall
<1>3. \A i \in 1..Len(up') : \/ /\ i \in 1..n /\ (Requested(i)' <=> Requested(i))
                                /\ CallOf(i)' = CallOf(i) /\ up'[i] = up[i]
                             \/ /\ i = n + 1 /\ up'[i] = f /\ (Requested(i)' => CallOf(i)' = call)
  BY <1>1 DEF Requested, CallOf
<1>4. Assembled'
  <2> SUFFICES ASSUME NEW i \in 1..Len(up'), Requested(i)', up'[i].nbr > 0
               PROVE  Holds(CallOf(i))' /\ \A j \in 1..i : Requested(j)' => CallOf(j)' = CallOf(i)'
    BY DEF Assembled
  <2>1. CASE i \in 1..n /\ Requested(i) /\ CallOf(i)' = CallOf(i) /\ up'[i] = up[i]
    <3>1. Holds(CallOf(i)) /\ \A j \in 1..i : Requested(j) => CallOf(j) = CallOf(i)
      BY <2>1 DEF RequestsInv, Assembled
    <3>2. Holds(CallOf(i))'
      BY <2>1, <3>1 DEF Holds
    <3>3. \A j \in 1..i : Requested(j)' => CallOf(j)' = CallOf(i)'
      BY <1>1, <1>3, <2>1, <3>1
    <3> QED BY <3>2, <3>3
  <2>2. CASE i = n + 1 /\ up'[i] = f
    <3>1. Settled(call) /\ CallOf(i)' = call
      BY <2>2 DEF Requested, CallOf
    <3>2. Holds(CallOf(i))'
      BY <3>1 DEF Settled, Holds
    <3>3. \A j \in 1..i : Requested(j)' => CallOf(j)' = call
      BY <1>1, <1>3, <2>2, <3>1 DEF Settled, OnlyFrom
    <3> QED BY <3>1, <3>2, <3>3
  <2> QED BY <1>3, <2>1, <2>2
<1>5. Settled(call) => Settled(ctl.call)'
  <2>1. Holds(call) => Holds(ctl.call)'
    BY DEF Holds
  <2>2. OnlyFrom(call) => OnlyFrom(ctl.call)'
    BY <1>3 DEF OnlyFrom
  <2> QED BY <2>1, <2>2 DEF Settled
<1>6. \A i \in 1..Len(up') : Requested(i)' /\ up'[i].seq = call.seq => CallOf(i)' = call
  BY <1>2, <1>3
<1>7. \A i \in 1..Len(up') : \A j \in i..Len(up') : up'[i].seq = call.seq => up'[j].seq = call.seq
  <2> SUFFICES ASSUME NEW i \in 1..Len(up'), NEW j \in i..Len(up'), up'[i].seq = call.seq
               PROVE  up'[j].seq = call.seq
    OBVIOUS
  <2>1. j \in 1..Len(up')
    BY <1>1
  <2>2. CASE j = n + 1 /\ up'[j] = f
    BY <2>2
  <2>3. CASE j \in 1..n /\ up'[j] = up[j]
    BY <1>1, <1>2, <1>3, <2>3
  <2> QED BY <1>3, <2>1, <2>2, <2>3
<1>8. OwnCall'
  BY <1>2, <1>5, <1>6, <1>7 DEF OwnCall
<1> QED BY <1>4, <1>8

\* An acknowledgement that nothing was asked for.
LEMMA StrayInv ==
    ASSUME RequestsInv, ctl.call = Nil, NEW f \in UpType, f.kind # "request",
           up' = Sent(up, f), sess' = sess, ctl'.call = ctl.call
    PROVE  Assembled' /\ OwnCall'
<1> DEFINE n == Len(up)
<1>1. /\ n \in Nat
      /\ \/ up' = up
         \/ /\ Len(up') = n + 1 /\ \A i \in 1..n : up'[i] = up[i]
            /\ up'[n + 1] = f
  BY UpSent DEF RequestsInv
<1>2. \A i \in 1..Len(up') : Requested(i)' => /\ i \in 1..n /\ Requested(i)
                                             /\ CallOf(i)' = CallOf(i) /\ up'[i] = up[i]
  BY <1>1 DEF Requested, CallOf
<1>3. Assembled'
  <2> SUFFICES ASSUME NEW i \in 1..Len(up'), Requested(i)', up'[i].nbr > 0
               PROVE  Holds(CallOf(i))' /\ \A j \in 1..i : Requested(j)' => CallOf(j)' = CallOf(i)'
    BY DEF Assembled
  <2>1. i \in 1..n /\ Requested(i) /\ CallOf(i)' = CallOf(i) /\ up'[i] = up[i]
    BY <1>2
  <2>2. Holds(CallOf(i)) /\ \A j \in 1..i : Requested(j) => CallOf(j) = CallOf(i)
    BY <2>1 DEF RequestsInv, Assembled
  <2>3. Holds(CallOf(i))'
    BY <2>1, <2>2 DEF Holds
  <2>4. \A j \in 1..i : Requested(j)' => CallOf(j)' = CallOf(i)'
    BY <1>1, <1>2, <2>1, <2>2
  <2> QED BY <2>3, <2>4
<1> QED BY <1>3 DEF OwnCall

\* A new call: nothing of its number is under way.
LEMMA AskedInv ==
    ASSUME RequestsInv, NEW c \in CallType, Unused(c.seq), up' = Sent(up, Fragment(c, 0)),
           sess' = sess, down' = down, ctl'.call = c, ctl'.part = 0
    PROVE  Assembled' /\ OwnCall'
<1> DEFINE f == Fragment(c, 0)
           n == Len(up)
<1>1. f \in UpType /\ f.seq = c.seq /\ f.byte[1] = c /\ f.nbr = 0
  BY CallFacts, FragmentFacts
<1> HIDE DEF f
<1>2. /\ n \in Nat
      /\ \/ up' = up
         \/ /\ Len(up') = n + 1 /\ \A i \in 1..n : up'[i] = up[i]
            /\ up'[n + 1] = f
  <2>1. up' = Sent(up, f)
    BY DEF f
  <2> QED BY <1>1, <2>1, UpSent DEF RequestsInv
<1>3. \A i \in 1..Len(up') : \/ /\ i \in 1..n /\ (Requested(i)' <=> Requested(i))
                                /\ CallOf(i)' = CallOf(i) /\ up'[i] = up[i]
                             \/ i = n + 1 /\ up'[i] = f
  BY <1>2 DEF Requested, CallOf
<1>4. (\A i \in 1..n : up[i].seq # c.seq) /\ ~AckDown(c.seq)
  BY DEF Unused, AckDown
<1>5. Assembled'
  <2> SUFFICES ASSUME NEW i \in 1..Len(up'), Requested(i)', up'[i].nbr > 0
               PROVE  Holds(CallOf(i))' /\ \A j \in 1..i : Requested(j)' => CallOf(j)' = CallOf(i)'
    BY DEF Assembled
  <2>1. i \in 1..n /\ Requested(i) /\ CallOf(i)' = CallOf(i) /\ up'[i] = up[i]
    BY <1>1, <1>3
  <2>2. Holds(CallOf(i)) /\ \A j \in 1..i : Requested(j) => CallOf(j) = CallOf(i)
    BY <2>1 DEF RequestsInv, Assembled
  <2>3. Holds(CallOf(i))'
    BY <2>1, <2>2 DEF Holds
  <2>4. \A j \in 1..i : Requested(j)' => CallOf(j)' = CallOf(i)'
    BY <1>2, <1>3, <2>1, <2>2
  <2> QED BY <2>3, <2>4
<1>6. \A i \in 1..Len(up') : up'[i].seq = c.seq => i = n + 1 /\ up'[i] = f
  BY <1>3, <1>4
<1>7. \A i \in 1..Len(up') : \A j \in i..Len(up') : up'[i].seq = c.seq => up'[j].seq = c.seq
  BY <1>1, <1>2, <1>6
<1>8. ~AckDown(c.seq)'
  BY <1>4 DEF AckDown
<1>9. \A i \in 1..Len(up') : Requested(i)' /\ up'[i].seq = c.seq => CallOf(i)' = c
  BY <1>1, <1>6 DEF CallOf
<1>10. ~AckDown(ctl.call.seq)'
  BY <1>8 DEF AckDown
<1> QED BY <1>5, <1>7, <1>9, <1>10 DEF OwnCall

-----------------------------------------------------------------------------
\* Each step keeps the invariant.
LEMMA TakePartRequests ==
    ASSUME RequestsInv, TakePart
    PROVE  RequestsInv'
<1> DEFINE m == Head(up)
           c == m.byte[1]
           a == [kind |-> "ack", seq |-> m.seq, nbr |-> m.nbr]
<1>1. /\ Arrived("request") /\ up' = Tail(up) /\ ran' = <<>>
      /\ UNCHANGED <<ctl, disturbed, fallen>>
  BY DEF TakePart, Part
<1>2. /\ up # <<>> /\ m = up[1] /\ m \in UpType /\ m.kind = "request" /\ c \in CallType
  BY <1>1, HeadCollects DEF RequestsInv
<1>3. /\ down' = Sent(down, a)
      /\ \/ sess = Nil /\ sess' = Nil
         \/ sess' \in SessionType /\ ~sess'.timer /\ Collects(sess', c)
  BY TakePartFacts DEF RequestsInv
<1>4. a \in DownType /\ a.kind = "ack" /\ a.seq = m.seq
  BY <1>2, UpFacts DEF DownType
<1>5. HoldsThen(c)
  BY <1>3 DEF HoldsThen
<1> HIDE DEF a
<1>6. FragmentsTypeOK'
  <2>1. down' \in Seq(DownType) /\ up' \in Seq(UpType)
    BY <1>1, <1>2, <1>3, <1>4, SentLink, TailLink DEF RequestsInv, FragmentsTypeOK
  <2>2. ran' \in Seq(ByteType)
    BY <1>1, EmptySeq
  <2> QED BY <1>1, <1>3, <2>1, <2>2 DEF RequestsInv, FragmentsTypeOK
<1>7. CallOf(1) = c /\ Requested(1)
  BY <1>2 DEF CallOf, Requested
<1> HIDE DEF c
<1>8. \A d \in CallType : Holds(d) /\ (Requested(1) => CallOf(1) = d) => HoldsThen(d)
  BY <1>5, <1>7
<1>9. ASSUME NEW q, AckDown(q)'
      PROVE  AckDown(q) \/ (Requested(1) /\ up[1].seq = q /\ HoldsThen(CallOf(1)))
  <2>1. AckDown(q) \/ a.seq = q
    BY <1>3, <1>4, <1>9, AckSent DEF RequestsInv
  <2> QED BY <1>2, <1>4, <1>5, <1>7, <2>1
<1>10. Assembled' /\ OwnCall'
  BY <1>1, <1>2, <1>8, <1>9, TakenInv
<1> QED BY <1>1, <1>6, <1>10 DEF RequestsInv, RequestsWhole

LEMMA TakeWholeRequests ==
    ASSUME RequestsInv, TakeWhole
    PROVE  RequestsInv'
<1> DEFINE m == Head(up)
           c == m.byte[1]
<1>1. /\ Arrived("request") /\ up' = Tail(up) /\ UNCHANGED <<ctl, disturbed, fallen>>
  BY DEF TakeWhole, Whole
<1>2. /\ up # <<>> /\ m = up[1] /\ m \in UpType /\ m.kind = "request" /\ c \in CallType
      /\ m.seq = c.seq
  BY <1>1, HeadCollects, UpFacts DEF RequestsInv
<1>3. PICK u \in SessionType, body \in {<<>>, Answer(c)} :
         LET t == Answered(u, c.seq, body)
         IN  /\ ~u.timer /\ Collects(u, c)
             /\ down' = Sent(down, Packet(t))
             /\ sess' \in {Nil, t}
             /\ ran' = <<>> \/ ran' = Request(c)
  BY <1>2, TakeWholeFacts DEF RequestsInv
<1> DEFINE t == Answered(u, c.seq, body)
           p == Packet(t)
<1>4. /\ t \in SessionType /\ t.head # Nil /\ SameIn(u, t) /\ p \in DownType /\ p.kind = "answer"
  BY <1>2, <1>3, WholeTypes
<1>5. down' = Sent(down, p) /\ sess' \in {Nil, t}
  BY <1>3
<1>6. Request(c) \in Seq(ByteType) /\ Request(c)[1][1] = c
  <2>1. c.req.frags \in Nat /\ 1 \in 1..c.req.frags
    BY <1>2, CallFacts
  <2> QED BY <1>2, <2>1, BytesFacts DEF Request
<1> HIDE DEF c, p, t
<1>7. HoldsThen(c)
  BY <1>3, <1>4, <1>5 DEF HoldsThen, Collects, SameIn
<1>8. FragmentsTypeOK'
  <2>1. down' \in Seq(DownType) /\ up' \in Seq(UpType)
    BY <1>1, <1>2, <1>4, <1>5, SentLink, TailLink DEF RequestsInv, FragmentsTypeOK
  <2>2. ran' \in Seq(ByteType)
    BY <1>3, <1>6, EmptySeq
  <2> QED BY <1>1, <1>4, <1>5, <2>1, <2>2 DEF RequestsInv, FragmentsTypeOK
<1>9. CallOf(1) = c /\ Requested(1)
  BY <1>2 DEF CallOf, Requested, c
<1>10. \A d \in CallType : Holds(d) /\ (Requested(1) => CallOf(1) = d) => HoldsThen(d)
  BY <1>7, <1>9
<1>11. \A q : AckDown(q)' => AckDown(q)
  BY <1>4, <1>5, AckSent DEF RequestsInv
<1>12. Assembled' /\ OwnCall'
  BY <1>1, <1>2, <1>10, <1>11, TakenInv
<1>13. RequestsWhole'
  BY <1>3, <1>6 DEF RequestsWhole
<1> QED BY <1>8, <1>12, <1>13 DEF RequestsInv

\* A frame that is no request, or is lost.
LEMMA OtherTaken ==
    ASSUME RequestsInv, up # <<>>, up' = Tail(up), ctl' = ctl, ran' = ran, fallen' = fallen,
           disturbed' \in BOOLEAN, sess' \in SessionType \cup {Nil},
           sess' # Nil /\ sess'.timer => sess'.head # Nil,
           sess' = sess \/ (sess' # Nil => sess'.in = <<>> /\ sess'.inNbr = 0),
           down' = down \/ \E d \in DownType : d.kind = "answer" /\ down' = Sent(down, d)
    PROVE  RequestsInv'
<1>1. \A c \in CallType : Holds(c) => HoldsThen(c)
  <2> SUFFICES ASSUME NEW c \in CallType, Holds(c) PROVE HoldsThen(c)
    OBVIOUS
  <2>1. Bytes(c, 0) = <<>>
    BY BytesFacts, EmptySeq
  <2> QED BY <2>1 DEF Holds, HoldsThen, Collects
<1>2. \A q : AckDown(q)' => AckDown(q)
  <2>1. CASE down' = down
    BY <2>1 DEF AckDown
  <2>2. ASSUME NEW d \in DownType, d.kind = "answer", down' = Sent(down, d), NEW q, AckDown(q)'
        PROVE  AckDown(q)
    BY <2>2, AckSent DEF RequestsInv
  <2> QED BY <2>1, <2>2
<1>3. Assembled' /\ OwnCall'
  BY <1>1, <1>2, TakenInv
<1>4. down' \in Seq(DownType)
  BY SentLink DEF RequestsInv, FragmentsTypeOK
<1>5. up' \in Seq(UpType)
  BY TailLink DEF RequestsInv, FragmentsTypeOK
<1>6. FragmentsTypeOK'
  BY <1>4, <1>5 DEF RequestsInv, FragmentsTypeOK
<1> QED BY <1>3, <1>6 DEF RequestsInv, RequestsWhole

\* The next fragment that an acknowledgement asks for.
LEMMA NextTypes ==
    ASSUME NEW t \in SessionType, NEW q \in Seqs, t.sentPos < t.len
    PROVE  LET u == NextFragment(t, q)
           IN  /\ u \in SessionType /\ SameIn(t, u) /\ u.timer /\ u.head # Nil /\ u.head.seq = q
               /\ Packet(u) \in DownType /\ Packet(u).kind = "answer" /\ Packet(u).seq = q
<1> DEFINE u == NextFragment(t, q)
<1>1. u \in SessionType /\ SameIn(t, u) /\ u.timer /\ u.head \in HeadType /\ u.head.seq = q
  BY NextFragmentFacts
<1> HIDE DEF u
<1>2. u.head # Nil
  BY <1>1, Constants
<1> QED BY <1>1, <1>2, PacketFacts DEF u

LEMMA TakeAckRequests ==
    ASSUME RequestsInv, TakeAck
    PROVE  RequestsInv'
<1>1. up # <<>> /\ up' = Tail(up) /\ UNCHANGED <<ctl, ran, disturbed, fallen>>
  BY DEF TakeAck, Arrived
<1>2. Head(up).seq \in Seqs
  BY <1>1, TailLink, UpFacts DEF RequestsInv, FragmentsTypeOK
<1>3. PICK t \in SessionType :
         /\ t.in = <<>> /\ t.inNbr = 0 /\ ~t.timer
         /\ \/ /\ t.sentPos < t.len /\ sess' = NextFragment(t, Head(up).seq)
               /\ down' = Sent(down, Packet(sess'))
            \/ t.len <= t.sentPos /\ sess' = Cleared(t) /\ down' = down
  BY TakeAckFacts DEF RequestsInv
<1>4. CASE t.sentPos < t.len /\ sess' = NextFragment(t, Head(up).seq) /\ down' = Sent(down, Packet(sess'))
  <2>1. /\ sess' \in SessionType /\ SameIn(t, sess') /\ sess'.head # Nil
        /\ Packet(sess') \in DownType /\ Packet(sess').kind = "answer"
    BY <1>2, <1>4, NextTypes
  <2> QED BY <1>1, <1>3, <1>4, <2>1, OtherTaken DEF SameIn, RequestsInv, FragmentsTypeOK
<1>5. CASE sess' = Cleared(t) /\ down' = down
  <2>1. sess' \in SessionType /\ SameIn(t, sess') /\ ~sess'.timer
    BY <1>3, <1>5, ClearedFacts
  <2> QED BY <1>1, <1>3, <1>5, <2>1, OtherTaken DEF SameIn, RequestsInv, FragmentsTypeOK
<1> QED BY <1>3, <1>4, <1>5

LEMMA TakePingRequests ==
    ASSUME RequestsInv, TakePing
    PROVE  RequestsInv'
<1>1. up # <<>> /\ up' = Tail(up) /\ UNCHANGED <<down, ctl, ran, fallen>> /\ disturbed'
  BY DEF TakePing, Arrived
<1>2. \/ sess' = Nil
      \/ sess' \in SessionType /\ sess'.in = <<>> /\ sess'.inNbr = 0 /\ ~sess'.timer
  BY TakePingFacts DEF RequestsInv
<1> QED BY <1>1, <1>2, OtherTaken

LEMMA LoseRequests ==
    ASSUME RequestsInv, Lose
    PROVE  RequestsInv'
<1>1. UNCHANGED <<sess, ctl, ran, disturbed, fallen>>
  BY DEF Lose
<1>2. CASE up # <<>> /\ up' = Tail(up) /\ down' = down
  BY <1>1, <1>2, OtherTaken DEF RequestsInv, FragmentsTypeOK
<1>3. CASE down # <<>> /\ down' = Tail(down) /\ up' = up
  <2>1. \A q : AckDown(q)' => AckDown(q)
    BY <1>3, AckTail DEF RequestsInv
  <2>2. Assembled' /\ OwnCall'
    BY <1>1, <1>3, <2>1, LeftInv DEF Holds, HoldsThen
  <2>3. FragmentsTypeOK'
    BY <1>1, <1>3, TailLink DEF RequestsInv, FragmentsTypeOK
  <2> QED BY <1>1, <2>2, <2>3 DEF RequestsInv, RequestsWhole
<1> QED BY <1>2, <1>3 DEF Lose

LEMMA TimeoutRequests ==
    ASSUME RequestsInv, Timeout
    PROVE  RequestsInv'
<1>1. UNCHANGED <<up, ctl, ran>> /\ disturbed' \in BOOLEAN /\ fallen' \in BOOLEAN
  BY SessionFields DEF Timeout, RequestsInv, FragmentsTypeOK
<1>2. /\ sess \in SessionType /\ sess # Nil /\ sess.timer /\ sess.head # Nil
      /\ \/ sess' \in SessionType /\ SameIn(sess, sess') /\ SameOut(sess, sess')
         \/ sess' = Nil
      /\ down' = down \/ down' = Sent(down, Packet(sess))
  BY TimeoutFacts DEF RequestsInv
<1>3. Packet(sess) \in DownType /\ Packet(sess).kind = "answer"
  BY <1>2, PacketFacts
<1>4. \A q : AckDown(q)' => AckDown(q)
  <2>1. CASE down' = down
    BY <2>1 DEF AckDown
  <2>2. CASE down' = Sent(down, Packet(sess))
    BY <1>3, <2>2, AckSent DEF RequestsInv
  <2> QED BY <1>2, <2>1, <2>2
<1>5. \A c \in CallType : Holds(c) => HoldsThen(c)
  BY <1>2 DEF Holds, HoldsThen, Collects, SameIn
<1>6. Assembled' /\ OwnCall'
  BY <1>1, <1>4, <1>5, LeftInv
<1>7. down' \in Seq(DownType)
  BY <1>2, <1>3, SentLink DEF RequestsInv, FragmentsTypeOK
<1>8. FragmentsTypeOK'
  BY <1>1, <1>2, <1>7 DEF RequestsInv, FragmentsTypeOK, SameOut
<1> QED BY <1>1, <1>6, <1>8 DEF RequestsInv, RequestsWhole

LEMMA ArEndsRequests ==
    ASSUME RequestsInv, ArEnds
    PROVE  RequestsInv'
<1>1. sess' = Nil /\ disturbed' /\ UNCHANGED <<up, down, ctl, ran, fallen>>
  BY DEF ArEnds
<1>2. \A c \in CallType : Holds(c) => HoldsThen(c)
  BY <1>1 DEF HoldsThen
<1>3. \A q : AckDown(q)' => AckDown(q)
  BY <1>1 DEF AckDown
<1>4. Assembled' /\ OwnCall'
  BY <1>1, <1>2, <1>3, LeftInv
<1>5. FragmentsTypeOK'
  BY <1>1 DEF RequestsInv, FragmentsTypeOK
<1> QED BY <1>1, <1>4, <1>5 DEF RequestsInv, RequestsWhole

LEMMA AskRequests ==
    ASSUME RequestsInv, NEW r \in Calls, NEW q \in Seqs, Ask(r, q)
    PROVE  RequestsInv'
<1> DEFINE c == [seq |-> q, req |-> r]
<1>1. c \in CallType /\ c.seq = q
  BY DEF CallType
<1>2. /\ ctl'.call = c /\ ctl'.part = 0 /\ up' = Sent(up, Fragment(c, 0)) /\ FragmentsTypeOK'
  BY AskFacts DEF RequestsInv
<1>3. Unused(q) /\ sess' = sess /\ down' = down /\ ran' = <<>>
  BY DEF Ask
<1> HIDE DEF c
<1>4. Assembled' /\ OwnCall'
  BY <1>1, <1>2, <1>3, AskedInv
<1> QED BY <1>2, <1>3, <1>4 DEF RequestsInv, RequestsWhole

LEMMA RepeatRequests ==
    ASSUME RequestsInv, Repeat
    PROVE  RequestsInv'
<1>1. ctl.call \in CallType /\ FragmentsTypeOK'
  BY RepeatFacts DEF RequestsInv
<1>2. PICK j \in {0, ctl.part} : j \in Nat /\ j < ctl.call.req.frags /\ SendPart(ctl, j)
  BY RepeatFacts DEF RequestsInv
<1>3. ctl \in CtlType /\ ctl.call # Nil
  BY <1>1, CallFacts, CtlFacts DEF RequestsInv
<1>4. ctl'.call = ctl.call /\ ctl'.part = j /\ up' = Sent(up, Fragment(ctl.call, j))
  BY <1>1, <1>2, <1>3, SendPartFacts
<1>5. j > 0 => Settled(ctl.call)
  BY <1>2, <1>3 DEF RequestsInv, OwnCall
<1>6. sess' = sess /\ down' = down /\ ran' = ran
  BY DEF Repeat
<1>7. \A q : AckDown(q)' => AckDown(q)
  BY <1>6 DEF AckDown
<1> DEFINE f == Fragment(ctl.call, j)
<1>8. f \in UpType /\ f.seq = ctl.call.seq /\ f.byte[1] = ctl.call /\ f.nbr = j
  BY <1>1, <1>2, FragmentFacts
<1> HIDE DEF f
<1>9. Assembled' /\ OwnCall'
  BY <1>1, <1>4, <1>5, <1>6, <1>7, <1>8, SentInv DEF f
<1> QED BY <1>1, <1>6, <1>9 DEF RequestsInv, RequestsWhole

LEMMA PingRequests ==
    ASSUME RequestsInv, Ping
    PROVE  RequestsInv'
<1> DEFINE f == [kind |-> "ping", seq |-> ctl.call.seq]
<1>1. ctl.call \in CallType /\ up' = Sent(up, f) /\ f \in UpType /\ FragmentsTypeOK'
  BY PingFacts DEF RequestsInv
<1>2. UNCHANGED <<sess, down, ctl, ran>>
  BY DEF Ping
<1>3. ctl.part > 0 => Settled(ctl.call)
  BY <1>1, CallFacts DEF RequestsInv, OwnCall
<1>4. \A q : AckDown(q)' => AckDown(q)
  BY <1>2 DEF AckDown
<1>5. f.seq = ctl.call.seq /\ f.kind = "ping"
  OBVIOUS
<1> HIDE DEF f
<1>6. Assembled' /\ OwnCall'
  BY <1>1, <1>2, <1>3, <1>4, <1>5, SentInv
<1> QED BY <1>1, <1>2, <1>6 DEF RequestsInv, RequestsWhole

LEMMA GetAckRequests ==
    ASSUME RequestsInv, GetAck
    PROVE  RequestsInv'
<1>1. /\ down # <<>> /\ down' = Tail(down) /\ Head(down).kind = "ack" /\ FragmentsTypeOK'
      /\ UNCHANGED <<sess, ran>>
  BY GetAckFacts DEF RequestsInv, GetAck
<1>2. \A q : AckDown(q)' => AckDown(q)
  BY <1>1, AckTail DEF RequestsInv
<1>3. CASE ctl' = ctl /\ up' = up
  BY <1>1, <1>2, <1>3, LeftInv DEF RequestsInv, RequestsWhole, Holds, HoldsThen
<1>4. CASE /\ ctl.call \in CallType /\ Head(down).seq = ctl.call.seq
           /\ ctl.part + 1 < ctl.call.req.frags /\ SendPart(ctl, ctl.part + 1)
  <2> DEFINE j == ctl.part + 1
             f == Fragment(ctl.call, j)
  <2>1. ctl \in CtlType /\ j \in Nat /\ ctl.call # Nil
    BY <1>4, CtlFacts, CallFacts DEF RequestsInv
  <2>2. ctl'.call = ctl.call /\ up' = Sent(up, f)
    BY <1>4, <2>1, SendPartFacts
  <2>3. AckDown(ctl.call.seq)
    <3>1. Head(down) = down[1] /\ 1 \in 1..Len(down)
      BY <1>1, TailLink DEF RequestsInv, FragmentsTypeOK
    <3> QED BY <1>1, <1>4, <3>1 DEF AckDown
  <2>4. Settled(ctl.call)
    BY <2>1, <2>3 DEF RequestsInv, OwnCall
  <2>5. f \in UpType /\ f.seq = ctl.call.seq /\ f.byte[1] = ctl.call
    BY <1>4, <2>1, FragmentFacts
  <2> HIDE DEF f
  <2>6. Assembled' /\ OwnCall'
    BY <1>1, <1>2, <1>4, <2>2, <2>4, <2>5, SentInv
  <2> QED BY <1>1, <2>6 DEF RequestsInv, RequestsWhole
<1> QED BY <1>3, <1>4, GetAckFacts DEF RequestsInv

LEMMA GetAnswerRequests ==
    ASSUME RequestsInv, GetAnswer
    PROVE  RequestsInv'
<1> DEFINE a == [kind |-> "ack", seq |-> Head(down).seq]
<1>1. /\ down # <<>> /\ down' = Tail(down) /\ FragmentsTypeOK'
      /\ ctl'.call = ctl.call /\ ctl'.part = ctl.part
      /\ \/ up' = up
         \/ /\ ctl.at # "sending" /\ Head(down).seq = ctl.call.seq
            /\ up' = Sent(up, a) /\ a \in UpType
  BY GetAnswerFacts DEF RequestsInv
<1>2. UNCHANGED <<sess, ran>>
  BY DEF GetAnswer
<1>3. \A q : AckDown(q)' => AckDown(q)
  BY <1>1, AckTail DEF RequestsInv
<1>4. CASE up' = up
  BY <1>1, <1>2, <1>3, <1>4, LeftInv DEF RequestsInv, RequestsWhole, Holds, HoldsThen
<1>5. CASE Head(down).seq = ctl.call.seq /\ up' = Sent(up, a) /\ a \in UpType
  <2>1. a.seq = ctl.call.seq /\ a.kind = "ack"
    BY <1>5
  <2> HIDE DEF a
  <2>2. CASE ctl.call # Nil
    <3>1. ctl.call \in CallType /\ (ctl.part > 0 => Settled(ctl.call))
      BY <2>2, CtlFacts DEF RequestsInv, OwnCall
    <3>2. Assembled' /\ OwnCall'
      BY <1>1, <1>2, <1>3, <1>5, <2>1, <3>1, SentInv
    <3> QED BY <1>1, <1>2, <3>2 DEF RequestsInv, RequestsWhole
  <2>3. CASE ctl.call = Nil
    BY <1>1, <1>2, <1>5, <2>1, <2>3, StrayInv DEF RequestsInv, RequestsWhole
  <2> QED BY <2>2, <2>3
<1> QED BY <1>1, <1>4, <1>5

LEMMA InitRequests ==
    ASSUME FragmentsInit
    PROVE  RequestsInv
<1>1. <<>> \in Seq(UpType) /\ <<>> \in Seq(DownType) /\ <<>> \in Seq(OutByte) /\ <<>> \in Seq(ByteType)
  OBVIOUS
<1>2. sess = Nil \/ sess = [NewSession EXCEPT !.ar = TRUE]
  BY DEF FragmentsInit
<1>3. sess \in SessionType \cup {Nil} /\ (sess # Nil => ~sess.timer)
  <2>1. CASE sess = [NewSession EXCEPT !.ar = TRUE]
    <3> DEFINE s == NewSession
    <3>1. s \in SessionType /\ ~s.timer
      BY NewSessionType
    <3> HIDE DEF s
    <3>2. sess = [s EXCEPT !.ar = TRUE]
      BY <2>1 DEF s
    <3> QED BY <3>1, <3>2 DEF SessionType
  <2> QED BY <1>2, <2>1
<1>4. ctl \in CtlType /\ ctl.call = Nil /\ ctl.at = "idle" /\ ctl.got = <<>>
  BY <1>1 DEF FragmentsInit, CtlType
<1>5. up = <<>> /\ down = <<>> /\ ran = <<>> /\ disturbed = FALSE /\ fallen = FALSE
  BY DEF FragmentsInit
<1>6. FragmentsTypeOK
  BY <1>1, <1>3, <1>4, <1>5 DEF FragmentsTypeOK
<1>7. Assembled /\ OwnCall
  BY <1>4, <1>5 DEF Assembled, OwnCall
<1> QED BY <1>5, <1>6, <1>7 DEF RequestsInv, RequestsWhole

LEMMA NextRequests ==
    ASSUME RequestsInv, [FragmentsNext]_fvars
    PROVE  RequestsInv'
<1>1. CASE UNCHANGED fvars
  <2>1. RequestsInv' <=> RequestsInv
    BY <1>1 DEF fvars, RequestsInv, FragmentsTypeOK, Assembled, OwnCall, RequestsWhole, Holds,
                Settled, OnlyFrom, AckDown, Requested, CallOf
  <2> QED BY <2>1
<1>2. CASE FragmentsNext
  <2>1. CASE Device
    BY <2>1, TakePartRequests, TakeWholeRequests, TakeAckRequests, TakePingRequests,
       TimeoutRequests, ArEndsRequests DEF Device
  <2>2. CASE Controller
    BY <2>2, AskRequests, RepeatRequests, PingRequests, GetAckRequests, GetAnswerRequests
       DEF Controller
  <2> QED BY <1>2, <2>1, <2>2, LoseRequests DEF FragmentsNext
<1> QED BY <1>1, <1>2

\* A request is carried out only as the controller sent it, whatever is lost,
\* repeated and given up, and however often its sequence number was used before:
\* pf_cmrpc_dce_packet takes a fragment into in_buffer only if its number is
\* in_fragment_nbr, and empties the buffer for the first one.
THEOREM RequestsCarriedOut == FragmentsSpec => []RequestsWhole
<1>1. FragmentsInit => RequestsInv
  BY InitRequests
<1>2. RequestsInv /\ [FragmentsNext]_fvars => RequestsInv'
  BY NextRequests
<1>3. RequestsInv => RequestsWhole
  BY DEF RequestsInv
<1> QED BY <1>1, <1>2, <1>3, PTL DEF FragmentsSpec

-----------------------------------------------------------------------------
(***************************************************************************)
(* Answers of up to two frames.  While something is left of the answer to  *)
(* the controller's call, in a frame, in an acknowledgement or in a timer, *)
(* the session is at a stage of that answer: nothing is to be sent of it,  *)
(* or its first frame is in out_buffer, or its second one.                 *)
(***************************************************************************)
Room == PayloadMax - Header
Short(c) == OneFrame(c.req.size) \/ TwoFrames(c.req.size)
Two(c) == TwoFrames(c.req.size)
Front(c) == Bytes(c, Room)
Rest(c) == [j \in 1..(c.req.size - Room) |-> <<c, Room + j>>]

Good(c, m) ==
    \/ ~m.frag /\ m.nbr = 0 /\ (m.body = <<>> \/ (OneFrame(c.req.size) /\ m.body = Answer(c)))
    \/ Two(c) /\ m.frag /\ m.nbr = 0 /\ ~m.last /\ m.body = Front(c)
    \/ Two(c) /\ m.frag /\ m.nbr = 1 /\ m.last /\ m.body = Rest(c)

First(s, c) ==
    /\ Two(c) /\ s.len = Header + c.req.size /\ s.sentPos = 0 /\ s.sendLen = PayloadMax
    /\ \A j \in 1..c.req.size : s.out[Header + j] = <<c, j>>
    /\ s.nbr = 0 /\ s.head # Nil /\ s.head.frag /\ s.head.nbr = 0 /\ ~s.head.last
Second(s, c) ==
    /\ Two(c) /\ s.len = Header + c.req.size /\ s.sentPos = PayloadMax
    /\ s.sendLen = Header + c.req.size - Room
    /\ \A j \in 1..(c.req.size - Room) : s.out[Header + j] = <<c, Room + j>>
    /\ s.nbr = 1 /\ s.head # Nil /\ s.head.frag /\ s.head.nbr = 1 /\ s.head.last
Through(s) == ~s.timer /\ s.len <= s.sentPos + s.sendLen
Stage(s, c) == Through(s) \/ First(s, c) \/ Second(s, c)

LEMMA Sizes ==
    ASSUME NEW c \in CallType
    PROVE  /\ Room \in Nat /\ 0 < Room /\ Header + Room = PayloadMax
           /\ c.req.size \in Nat /\ 0 < c.req.size /\ Header + c.req.size <= OutMax
           /\ OneFrame(c.req.size) => Header + c.req.size < PayloadMax
           /\ Two(c) => /\ Room < c.req.size /\ c.req.size - Room \in Nat
                        /\ c.req.size - Room < Room
<1>1. c.req.size \in Nat /\ 0 < c.req.size /\ Header + c.req.size <= OutMax
  BY CallFacts, Constants
<1>2. Room \in Nat /\ 0 < Room /\ Header + Room = PayloadMax
  BY Constants DEF Room
<1>3. Two(c) => /\ PayloadMax + 1 <= Header + c.req.size
                /\ Header + c.req.size <= 2 * PayloadMax - Header - 1
  BY <1>1, Constants DEF Two, TwoFrames
<1>4. Two(c) => /\ Room < c.req.size /\ c.req.size - Room \in Nat
                /\ c.req.size - Room < Room
  BY <1>1, <1>2, <1>3, Constants
<1> QED BY <1>1, <1>2, <1>4 DEF OneFrame

LEMMA RestFacts ==
    ASSUME NEW c \in CallType, Two(c)
    PROVE  /\ Rest(c) \in Seq(OutByte) /\ Len(Rest(c)) = c.req.size - Room
           /\ \A j \in 1..(c.req.size - Room) : Rest(c)[j] = <<c, Room + j>>
<1>1. Room \in Nat /\ c.req.size - Room \in Nat
  BY Sizes
<1>2. \A j \in 1..(c.req.size - Room) : <<c, Room + j>> \in OutByte
  BY <1>1 DEF OutByte, ByteType
<1> DEFINE n == c.req.size - Room
<1> HIDE DEF n
<1>3. \A j \in 1..n : <<c, Room + j>> \in OutByte
  BY <1>2 DEF n
<1>4. Rest(c) = [j \in 1..n |-> <<c, Room + j>>] /\ n \in Nat
  BY <1>1 DEF Rest, n
<1>5. Rest(c) \in Seq(OutByte) /\ Len(Rest(c)) = n
  BY <1>3, <1>4
<1>6. \A j \in 1..n : Rest(c)[j] = <<c, Room + j>>
  BY <1>4
<1> QED BY <1>5, <1>6 DEF n

LEMMA FrontFacts ==
    ASSUME NEW c \in CallType, NEW n \in Nat
    PROVE  /\ Bytes(c, n) \in Seq(OutByte) /\ Len(Bytes(c, n)) = n
           /\ \A j \in 1..n : Bytes(c, n)[j] = <<c, j>>
<1>1. /\ Bytes(c, n) \in Seq(ByteType) /\ Len(Bytes(c, n)) = n
      /\ \A j \in 1..n : Bytes(c, n)[j] = <<c, j>>
  BY BytesFacts
<1>2. Bytes(c, n) \in Seq(OutByte)
  BY <1>1 DEF OutByte
<1> QED BY <1>1, <1>2

\* The two frames of an answer are the whole of it.
LEMMA FrontAndRest ==
    ASSUME NEW c \in CallType, Two(c)
    PROVE  Front(c) \o Rest(c) = Answer(c)
<1> DEFINE f == Front(c)
           r == Rest(c)
           x == f \o r
           y == Answer(c)
           n == c.req.size
<1>1. Room \in Nat /\ n \in Nat /\ n - Room \in Nat
  BY Sizes
<1>2. f \in Seq(OutByte) /\ Len(f) = Room /\ \A j \in 1..Room : f[j] = <<c, j>>
  BY <1>1, FrontFacts DEF Front
<1>3. r \in Seq(OutByte) /\ Len(r) = n - Room /\ \A j \in 1..(n - Room) : r[j] = <<c, Room + j>>
  BY RestFacts
<1>4. y \in Seq(OutByte) /\ Len(y) = n /\ \A j \in 1..n : y[j] = <<c, j>>
  BY <1>1, FrontFacts DEF Answer
<1> HIDE DEF f, r
<1>5. /\ x \in Seq(OutByte) /\ Len(x) = Len(f) + Len(r)
      /\ \A i \in 1..(Len(f) + Len(r)) : x[i] = IF i <= Len(f) THEN f[i] ELSE r[i - Len(f)]
  BY <1>2, <1>3, ConcatProperties
<1> HIDE DEF x, y, n
<1>6. Len(x) = n
  BY <1>1, <1>2, <1>3, <1>5
<1>7. ASSUME NEW i \in 1..n PROVE x[i] = y[i]
  <2>1. CASE i <= Room
    <3>1. i \in 1..Room
      BY <1>1, <2>1
    <3>2. x[i] = f[i]
      BY <1>1, <1>2, <1>3, <1>5, <2>1
    <3>3. f[i] = <<c, i>>
      BY <1>2, <3>1
    <3>4. y[i] = <<c, i>>
      BY <1>4
    <3> QED BY <3>2, <3>3, <3>4
  <2>2. CASE i > Room
    <3>1. i - Room \in 1..(n - Room) /\ Room + (i - Room) = i /\ ~(i <= Room)
      BY <1>1, <2>2
    <3>2. x[i] = r[i - Room]
      BY <1>1, <1>2, <1>3, <1>5, <3>1
    <3> QED BY <1>3, <1>4, <3>1, <3>2
  <2> QED BY <1>1, <2>1, <2>2
<1> QED BY <1>4, <1>5, <1>6, <1>7, SeqEqual DEF f, r, x, y

\* What is sent at a stage is good.
LEMMA StagePacket ==
    ASSUME NEW s \in SessionType, NEW c \in CallType, First(s, c) \/ Second(s, c)
    PROVE  /\ Good(c, Packet(s)) /\ Packet(s).frag /\ Packet(s).nbr = s.nbr
           /\ Packet(s) \in DownType /\ Packet(s).kind = "answer" /\ Packet(s).seq = s.head.seq
<1> DEFINE p == Packet(s)
           n == c.req.size
<1>1. /\ p \in DownType /\ p.kind = "answer" /\ p.seq = s.head.seq
      /\ p.frag = s.head.frag /\ p.nbr = s.head.nbr /\ p.last = s.head.last
      /\ Len(p.body) = IF Header < s.sendLen THEN s.sendLen - Header ELSE 0
      /\ \A j \in 1..Len(p.body) : p.body[j] = s.out[Header + j]
  <2>1. s.head # Nil
    BY DEF First, Second
  <2> QED BY <2>1, PacketFacts
<1>2. p.body \in Seq(OutByte)
  BY <1>1, DownFacts
<1>3. /\ Two(c) /\ Room \in Nat /\ 0 < Room /\ Header + Room = PayloadMax /\ Room < n
      /\ n - Room \in Nat /\ n \in Nat /\ Header \in Nat /\ PayloadMax \in Nat
  BY Sizes, Constants DEF First, Second
<1> HIDE DEF p
<1>4. CASE First(s, c)
  <2>1. Len(p.body) = Room
    BY <1>1, <1>3, <1>4 DEF First
  <2>2. \A j \in 1..Room : p.body[j] = <<c, j>>
    <3>1. \A j \in 1..Room : j \in 1..n
      BY <1>3
    <3>2. \A j \in 1..n : s.out[Header + j] = <<c, j>>
      BY <1>4 DEF First
    <3> QED BY <1>1, <2>1, <3>1, <3>2
  <2>3. /\ Front(c) \in Seq(OutByte) /\ Len(Front(c)) = Room
        /\ \A j \in 1..Room : Front(c)[j] = <<c, j>>
    BY <1>3, FrontFacts DEF Front
  <2>4. p.body = Front(c)
    BY <1>2, <2>1, <2>2, <2>3, SeqEqual
  <2> QED BY <1>1, <1>3, <1>4, <2>4 DEF First, Good, p
<1>5. CASE Second(s, c)
  <2>1. Len(p.body) = n - Room
    BY <1>1, <1>3, <1>5 DEF Second
  <2>2. \A j \in 1..(n - Room) : p.body[j] = <<c, Room + j>>
    BY <1>1, <1>3, <1>5, <2>1 DEF Second
  <2>3. /\ Rest(c) \in Seq(OutByte) /\ Len(Rest(c)) = n - Room
        /\ \A j \in 1..(n - Room) : Rest(c)[j] = <<c, Room + j>>
    BY <1>3, RestFacts
  <2>4. p.body = Rest(c)
    BY <1>2, <2>1, <2>2, <2>3, SeqEqual
  <2> QED BY <1>1, <1>3, <1>5, <2>4 DEF Second, Good, p
<1> QED BY <1>4, <1>5

LEMMA StageKept ==
    ASSUME NEW s, NEW t, NEW c, Stage(s, c), SameOut(s, t), t.timer => s.timer
    PROVE  Stage(t, c)
<1>1. CASE Through(s)
  BY <1>1 DEF Through, SameOut, Stage
<1>2. CASE First(s, c)
  BY <1>2 DEF First, SameOut, Stage
<1>3. CASE Second(s, c)
  BY <1>3 DEF Second, SameOut, Stage
<1> QED BY <1>1, <1>2, <1>3 DEF Stage

\* The answer that a request is given.
LEMMA WholeStage ==
    ASSUME NEW u \in SessionType, ~u.timer, NEW c \in CallType, Short(c),
           NEW body \in {<<>>, Answer(c)}
    PROVE  LET t == Answered(u, c.seq, body)
           IN  /\ Stage(t, c) /\ Good(c, Packet(t))
               /\ body = Answer(c) /\ Two(c) => First(t, c) /\ t.timer
<1> DEFINE t == Answered(u, c.seq, body)
           n == c.req.size
           total == Header + Len(body)
<1>1. c.seq \in Seqs /\ body \in Seq(OutByte) /\ Header + Len(body) <= OutMax
  <2>1. body \in Seq(OutByte) /\ Header + Len(body) <= OutMax
    BY BodyFacts
  <2> QED BY <2>1, CallFacts
<1>2. /\ t \in SessionType /\ t.len = total /\ t.sentPos = 0 /\ t.nbr = 0
      /\ t.head \in HeadType /\ t.head.nbr = 0 /\ ~t.head.last
      /\ \A j \in 1..Len(body) : t.out[Header + j] = body[j]
      /\ total >= PayloadMax => t.timer /\ t.head.frag /\ t.sendLen = PayloadMax
      /\ total < PayloadMax => t.timer = u.timer /\ ~t.head.frag /\ t.sendLen = total
  BY <1>1, AnsweredFacts
<1>3. t.head # Nil
  BY <1>2, Constants
<1>4. /\ n \in Nat /\ 0 < n /\ Header \in Nat /\ PayloadMax \in Nat /\ Header < PayloadMax
      /\ Len(body) \in Nat
      /\ OneFrame(n) => Header + n < PayloadMax
      /\ Two(c) => PayloadMax < Header + n
  <2>1. Two(c) => Room < n /\ Header + Room = PayloadMax /\ Room \in Nat
    BY Sizes
  <2> QED BY <1>1, <2>1, Sizes, Constants, LenProperties
<1>5. body = Answer(c) => Len(body) = n /\ \A j \in 1..n : body[j] = <<c, j>>
  BY <1>4, FrontFacts DEF Answer
<1> DEFINE p == Packet(t)
<1>6. /\ p \in DownType /\ p.frag = t.head.frag /\ p.nbr = t.head.nbr
      /\ Len(p.body) = IF Header < t.sendLen THEN t.sendLen - Header ELSE 0
      /\ \A j \in 1..Len(p.body) : p.body[j] = t.out[Header + j]
      /\ p.kind = "answer"
  BY <1>2, <1>3, PacketFacts
<1> HIDE DEF t
<1>7. CASE total < PayloadMax /\ (body = <<>> \/ OneFrame(n))
  <2>1. Through(t) /\ ~t.head.frag /\ t.sendLen = total
    BY <1>2, <1>4, <1>7 DEF Through
  <2>2. p.body \in Seq(OutByte)
    BY <1>6, DownFacts
  <2> HIDE DEF p
  <2>3. Len(p.body) = Len(body)
    BY <1>4, <1>6, <2>1
  <2>4. \A j \in 1..Len(p.body) : p.body[j] = body[j]
    BY <1>2, <1>6, <2>3
  <2>5. p.body = body
    BY <1>1, <2>2, <2>3, <2>4, SeqEqual
  <2>6. ~p.frag /\ p.nbr = 0
    BY <1>2, <1>6, <2>1
  <2>7. p.body = <<>> \/ (OneFrame(c.req.size) /\ p.body = Answer(c))
    BY <1>7, <2>5
  <2>8. Good(c, p)
    BY <2>6, <2>7 DEF Good
  <2> QED BY <1>4, <1>5, <1>7, <2>1, <2>8 DEF Stage, t, p
<1>8. CASE body = Answer(c) /\ Two(c)
  <2>1. total >= PayloadMax /\ Len(body) = n
    BY <1>4, <1>5, <1>8
  <2>2. First(t, c)
    BY <1>2, <1>3, <1>5, <1>8, <2>1 DEF First
  <2>3. Good(c, p)
    BY <1>2, <2>2, StagePacket
  <2> QED BY <1>2, <2>1, <2>2, <2>3 DEF Stage, t, p
<1>9. CASE body = <<>>
  <2>1. total < PayloadMax
    BY <1>4, <1>9
  <2> QED BY <1>7, <1>9, <2>1
<1>10. CASE body = Answer(c) /\ OneFrame(n)
  <2>1. total < PayloadMax
    BY <1>4, <1>5, <1>10
  <2> QED BY <1>7, <1>10, <2>1
<1> QED BY <1>8, <1>9, <1>10 DEF Short, Two

\* An acknowledgement, whatever it acknowledges: the second frame after the
\* first one, nothing after the second one.
LEMMA AckStage ==
    ASSUME FragmentsTypeOK, Arrived("ack"), TakeAck, NEW c \in CallType, sess # Nil => Stage(sess, c)
    PROVE  /\ sess' \in SessionType /\ sess' # Nil /\ Stage(sess', c)
           /\ sess # Nil /\ First(sess, c) => sess'.timer
           /\ \/ ~sess'.timer /\ down' = down
              \/ /\ sess # Nil /\ First(sess, c) /\ Second(sess', c)
                 /\ sess'.timer /\ sess'.head.seq = Head(up).seq
                 /\ down' = Sent(down, Packet(sess'))
<1>1. PICK t \in SessionType :
              /\ t.in = <<>> /\ t.inNbr = 0 /\ ~t.timer
              /\ t.out = Session.out /\ t.head = Session.head /\ t.len = Session.len
              /\ t.sentPos = Session.sentPos + Session.sendLen
              /\ t.nbr = Session.nbr + 1 /\ t.sendLen = Session.sendLen
              /\ \/ /\ t.sentPos < t.len /\ sess' = NextFragment(t, Head(up).seq)
                    /\ down' = Sent(down, Packet(sess'))
                 \/ t.len <= t.sentPos /\ sess' = Cleared(t) /\ down' = down
  BY TakeAckFacts
<1>2. Session \in SessionType /\ (sess # Nil => Session = sess) /\ (sess = Nil => Session = NewSession)
  BY SessionIsOne DEF FragmentsTypeOK
<1>3. /\ Header \in Nat /\ PayloadMax \in Nat /\ Room \in Nat /\ Header + Room = PayloadMax
      /\ c.req.size \in Nat
      /\ Two(c) => Room < c.req.size /\ c.req.size - Room \in Nat /\ c.req.size - Room < Room
  BY Sizes, Constants
<1>4. /\ t.len \in Nat /\ t.sentPos \in Nat /\ Session.sentPos \in Nat /\ Session.sendLen \in Nat
      /\ Session.nbr \in Nat
  BY <1>1, <1>2, SessionFields
<1>5. CASE t.len <= t.sentPos
  <2>1. sess' = Cleared(t) /\ down' = down
    BY <1>1, <1>4, <1>5
  <2>2. /\ sess' \in SessionType /\ ~sess'.timer /\ sess'.len = 0 /\ sess'.sentPos = 0
        /\ sess'.sendLen = 0
    BY <1>1, <2>1, ClearedFacts
  <2>3. ~(sess # Nil /\ First(sess, c))
    BY <1>1, <1>2, <1>3, <1>4, <1>5 DEF First
  <2> QED BY <2>1, <2>2, <2>3, Constants DEF Stage, Through
<1>6. CASE t.sentPos < t.len
  <2>1. sess # Nil /\ Session = sess
    <3>1. NewSession.len = 0 /\ NewSession.sentPos \in Nat
      BY NewSessionType DEF NewSession
    <3> QED BY <1>1, <1>2, <1>4, <1>6, <3>1
  <2>2. ~Through(sess)
    BY <1>1, <1>4, <1>6, <2>1 DEF Through
  <2>3. ~Second(sess, c)
    <3> SUFFICES ASSUME Second(sess, c) PROVE FALSE
      OBVIOUS
    <3>1. /\ t.sentPos = PayloadMax + (Header + c.req.size - Room)
          /\ t.len = Header + c.req.size
      BY <1>1, <2>1 DEF Second
    <3> QED BY <1>3, <1>6, <3>1
  <2>4. First(sess, c)
    BY <2>1, <2>2, <2>3 DEF Stage
  <2>5. /\ t.sentPos = PayloadMax /\ t.len = Header + c.req.size /\ t.nbr = 1 /\ Two(c)
        /\ \A j \in 1..c.req.size : t.out[Header + j] = <<c, j>>
    BY <1>1, <1>3, <2>1, <2>4 DEF First
  <2> DEFINE q == Head(up).seq
             u == NextFragment(t, q)
             n == c.req.size - Room
  <2>6. q \in Seqs
    <3>1. up # <<>> /\ Head(up) \in UpType
      BY TailLink DEF Arrived, FragmentsTypeOK
    <3> QED BY <3>1, UpFacts
  <2>7. LET rest == t.len - t.sentPos
            last == rest < PayloadMax - Header
            k == IF last THEN rest ELSE PayloadMax - Header
        IN  /\ u \in SessionType /\ u.timer /\ u.len = t.len
            /\ u.sentPos = t.sentPos /\ u.nbr = t.nbr /\ u.sendLen = k + Header
            /\ u.head \in HeadType /\ u.head.seq = q /\ u.head.frag
            /\ u.head.nbr = t.nbr /\ u.head.last = last
            /\ \A j \in 1..k : u.out[Header + j] = t.out[t.sentPos + j]
    BY <1>6, <2>6, NextFragmentFacts
  <2>8. t.len - t.sentPos = n /\ n < PayloadMax - Header /\ n \in Nat
    BY <1>3, <2>5
  <2>9. sess' = u /\ down' = Sent(down, Packet(sess'))
    BY <1>1, <1>4, <1>6
  <2> HIDE DEF u
  <2>10. /\ u \in SessionType /\ u.timer /\ u.len = t.len
         /\ u.sentPos = t.sentPos /\ u.nbr = t.nbr /\ u.sendLen = n + Header
         /\ u.head \in HeadType /\ u.head.seq = q /\ u.head.frag
         /\ u.head.nbr = t.nbr /\ u.head.last
         /\ \A j \in 1..n : u.out[Header + j] = t.out[t.sentPos + j]
    BY <2>7, <2>8
  <2>11. \A j \in 1..n : u.out[Header + j] = <<c, Room + j>>
    <3> TAKE j \in 1..n
    <3>1. Room + j \in 1..c.req.size /\ Header + (Room + j) = PayloadMax + j
      BY <1>3, <2>5
    <3> QED BY <2>5, <2>10, <3>1
  <2>12. u.head # Nil /\ u # Nil
    BY <2>10, Constants
  <2>13. n + Header = Header + c.req.size - Room
    BY <1>3, <2>8
  <2>14. Second(u, c)
    BY <2>5, <2>10, <2>11, <2>12, <2>13 DEF Second
  <2> QED BY <2>1, <2>4, <2>9, <2>10, <2>12, <2>14 DEF Stage
<1> QED BY <1>4, <1>5, <1>6

-----------------------------------------------------------------------------
\* Traces of the answer to the controller's call: its frames, what acknowledges
\* them, and the timer that sends them again.
AckUp(q) == \E i \in 1..Len(up) : up[i].kind = "ack" /\ up[i].seq = q
AnswerDown(q) == \E i \in 1..Len(down) : down[i].kind = "answer" /\ down[i].seq = q
Pending(q) == sess # Nil /\ sess.timer /\ sess.head.seq = q
Carried(c) == OnlyFrom(c) /\ (sess # Nil => Stage(sess, c))
Traces(c) == AckUp(c.seq) \/ AnswerDown(c.seq) \/ Pending(c.seq) => Carried(c)

GoodDown(c) == \A i \in 1..Len(down) :
    down[i].kind = "answer" /\ down[i].seq = c.seq => Good(c, down[i])
Got(c) ==
    IF ctl.at = "idle" THEN ctl.got = <<>> \/ ctl.got = Answer(c)
    ELSE \/ ctl.next = 0 /\ ctl.got = <<>>
         \/ Two(c) /\ ctl.next = 1 /\ ctl.got = Front(c)

AnswersOf(c) == Traces(c) /\ GoodDown(c) /\ Got(c)
AnswersInv == ctl.call # Nil /\ Short(ctl.call) => AnswersOf(ctl.call)

\* What is under way after a frame was taken from it, or put into it.
LEMMA UpLess ==
    ASSUME FragmentsTypeOK, \/ up' = up
                            \/ up # <<>> /\ up' = Tail(up)
    PROVE  /\ \A q : AckUp(q)' => AckUp(q)
           /\ \A c : OnlyFrom(c) => OnlyFrom(c)'
<1>1. CASE up' = up
  BY <1>1 DEF AckUp, OnlyFrom, Requested, CallOf
<1>2. CASE up # <<>> /\ up' = Tail(up)
  <2>1. \A i \in 1..Len(up') : i + 1 \in 1..Len(up) /\ up'[i] = up[i + 1]
    BY <1>2, TailLink DEF FragmentsTypeOK
  <2> QED BY <2>1 DEF AckUp, OnlyFrom, Requested, CallOf
<1> QED BY <1>1, <1>2

LEMMA UpMore ==
    ASSUME FragmentsTypeOK, NEW f \in UpType, up' = Sent(up, f)
    PROVE  /\ \A q : AckUp(q)' => AckUp(q) \/ (f.kind = "ack" /\ f.seq = q)
           /\ \A c : OnlyFrom(c) /\ (f.kind = "request" => f.byte[1] = c) => OnlyFrom(c)'
<1> DEFINE n == Len(up)
<1>1. /\ n \in Nat
      /\ \/ up' = up
         \/ /\ Len(up') = n + 1 /\ \A i \in 1..n : up'[i] = up[i]
            /\ up'[n + 1] = f
  BY UpSent
<1>2. \A i \in 1..Len(up') : \/ i \in 1..n /\ up'[i] = up[i]
                             \/ up'[i] = f
  BY <1>1
<1> QED BY <1>2 DEF AckUp, OnlyFrom, Requested, CallOf

LEMMA DownLess ==
    ASSUME FragmentsTypeOK, \/ down' = down
                            \/ down # <<>> /\ down' = Tail(down)
    PROVE  /\ \A q : AnswerDown(q)' => AnswerDown(q)
           /\ \A c : GoodDown(c) => GoodDown(c)'
<1>1. CASE down' = down
  BY <1>1 DEF AnswerDown, GoodDown
<1>2. CASE down # <<>> /\ down' = Tail(down)
  <2>1. \A i \in 1..Len(down') : i + 1 \in 1..Len(down) /\ down'[i] = down[i + 1]
    BY <1>2, TailLink DEF FragmentsTypeOK
  <2> QED BY <2>1 DEF AnswerDown, GoodDown
<1> QED BY <1>1, <1>2

LEMMA DownMore ==
    ASSUME FragmentsTypeOK, NEW d \in DownType, down' = Sent(down, d)
    PROVE  /\ \A q : AnswerDown(q)' => AnswerDown(q) \/ (d.kind = "answer" /\ d.seq = q)
           /\ \A c : GoodDown(c) /\ (d.kind = "answer" /\ d.seq = c.seq => Good(c, d))
                        => GoodDown(c)'
<1> DEFINE n == Len(down)
<1>1. /\ n \in Nat
      /\ \/ down' = down
         \/ /\ Len(down') = n + 1 /\ \A i \in 1..n : down'[i] = down[i]
            /\ down'[n + 1] = d
  BY DownSent
<1>2. \A i \in 1..Len(down') : \/ i \in 1..n /\ down'[i] = down[i]
                               \/ down'[i] = d
  BY <1>1
<1> QED BY <1>2 DEF AnswerDown, GoodDown

\* The call of the first frame under way, against the controller's.
LEMMA FirstCall ==
    ASSUME RequestsInv, Arrived("request"), NEW c \in CallType, ctl.call = c
    PROVE  /\ Head(up).seq = Head(up).byte[1].seq
           /\ Head(up).byte[1] = c \/ Head(up).seq # c.seq
           /\ Head(up).byte[1] = c => OnlyFrom(c)
           /\ OnlyFrom(c) => Head(up).byte[1] = c
<1> DEFINE m == Head(up)
<1>1. m = up[1] /\ 1 \in 1..Len(up) /\ m \in UpType /\ m.kind = "request"
  BY HeadCollects DEF RequestsInv
<1>2. m.seq = m.byte[1].seq
  BY <1>1, UpFacts
<1>3. c # Nil
  BY CallFacts
<1>4. /\ \A i \in 1..Len(up) : Requested(i) /\ up[i].seq = c.seq => CallOf(i) = c
      /\ \A i \in 1..Len(up) : \A j \in i..Len(up) : up[i].seq = c.seq => up[j].seq = c.seq
  BY <1>3 DEF RequestsInv, OwnCall
<1> HIDE DEF m
<1>5. m.byte[1] = c \/ m.seq # c.seq
  BY <1>1, <1>4 DEF Requested, CallOf
<1>6. ASSUME m.byte[1] = c PROVE OnlyFrom(c)
  <2>1. \A j \in 1..Len(up) : up[j].seq = c.seq
    BY <1>1, <1>2, <1>4, <1>6
  <2> QED BY <1>4, <2>1 DEF OnlyFrom
<1>7. OnlyFrom(c) => m.byte[1] = c
  BY <1>1 DEF OnlyFrom, Requested, CallOf
<1> QED BY <1>2, <1>5, <1>6, <1>7 DEF m

LEMMA TakePartAnswers ==
    ASSUME RequestsInv, NEW c \in CallType, ctl.call = c, AnswersOf(c), TakePart
    PROVE  AnswersOf(c)'
<1> DEFINE m == Head(up)
           d == [kind |-> "ack", seq |-> m.seq, nbr |-> m.nbr]
<1>1. /\ down' = Sent(down, d)
      /\ \/ sess = Nil /\ sess' = Nil
         \/ sess' \in SessionType /\ ~sess'.timer /\ SameOut(Session, sess')
  BY TakePartFacts DEF RequestsInv
<1>2. Arrived("request") /\ up' = Tail(up) /\ ctl' = ctl
  BY DEF TakePart, Part
<1>3. d \in DownType /\ d.kind = "ack"
  <2>1. m.seq \in Seqs /\ m.nbr \in Nat
    BY <1>2, HeadCollects, UpFacts DEF RequestsInv
  <2> QED BY <2>1 DEF DownType
<1> HIDE DEF d
<1>4. up # <<>> /\ (AckUp(c.seq)' => AckUp(c.seq)) /\ (OnlyFrom(c) => OnlyFrom(c)')
  BY <1>2, UpLess DEF RequestsInv, Arrived
<1>5. (AnswerDown(c.seq)' => AnswerDown(c.seq)) /\ (GoodDown(c) => GoodDown(c)')
  BY <1>1, <1>3, DownMore DEF RequestsInv
<1>6. ~Pending(c.seq)'
  BY <1>1 DEF Pending
<1>7. Carried(c) => Carried(c)'
  <2> SUFFICES ASSUME Carried(c), sess' # Nil PROVE Stage(sess', c)
    BY <1>4 DEF Carried
  <2>1. sess' \in SessionType /\ ~sess'.timer /\ SameOut(Session, sess')
    BY <1>1
  <2>2. Stage(Session, c)
    <3>1. CASE sess = Nil
      <4>1. Session = NewSession
        BY <3>1 DEF Session
      <4>2. Through(NewSession)
        BY NewSessionType DEF NewSession, Through
      <4> QED BY <4>1, <4>2 DEF Stage
    <3>2. CASE sess # Nil
      BY <3>2 DEF Carried, Session
    <3> QED BY <3>1, <3>2
  <2> QED BY <2>1, <2>2, StageKept
<1> QED BY <1>2, <1>4, <1>5, <1>6, <1>7 DEF AnswersOf, Traces, Got

LEMMA TakeWholeAnswers ==
    ASSUME RequestsInv, NEW c \in CallType, ctl.call = c, Short(c), AnswersOf(c), TakeWhole
    PROVE  AnswersOf(c)'
<1> DEFINE m == Head(up)
           k == m.byte[1]
<1>1. Arrived("request") /\ up' = Tail(up) /\ ctl' = ctl
  BY DEF TakeWhole, Whole
<1>2. PICK u \in SessionType, body \in {<<>>, Answer(k)} :
             LET t == Answered(u, m.seq, body)
             IN  /\ ~u.timer
                 /\ down' = Sent(down, Packet(t))
                 /\ sess' \in {Nil, t}
  BY TakeWholeFacts DEF RequestsInv
<1>3. k \in CallType /\ m.seq = k.seq
  BY <1>1, HeadCollects, UpFacts DEF RequestsInv
<1> DEFINE t == Answered(u, k.seq, body)
           p == Packet(t)
<1>4. ~u.timer /\ down' = Sent(down, p) /\ sess' \in {Nil, t}
  BY <1>2, <1>3
<1>5. /\ t \in SessionType /\ t.head # Nil /\ t.head.seq = k.seq
      /\ p \in DownType /\ p.kind = "answer" /\ p.seq = k.seq
  BY <1>3, WholeTypes
<1>6. up # <<>> /\ (AckUp(c.seq)' => AckUp(c.seq)) /\ (OnlyFrom(c) => OnlyFrom(c)')
  BY <1>1, UpLess DEF RequestsInv, Arrived
<1>7. /\ k = c \/ k.seq # c.seq
      /\ k = c <=> OnlyFrom(c)
  BY <1>1, <1>3, FirstCall
<1> HIDE DEF k
<1>8. k = c => Stage(t, c) /\ Good(c, p)
  BY <1>4, WholeStage
<1> HIDE DEF t, p
<1>9. /\ AnswerDown(c.seq)' => AnswerDown(c.seq) \/ k = c
      /\ GoodDown(c) => GoodDown(c)'
  BY <1>4, <1>5, <1>7, <1>8, DownMore DEF RequestsInv
<1>10. Pending(c.seq)' => k = c
  BY <1>4, <1>5, <1>7 DEF Pending
<1>11. Traces(c)'
  <2>1. CASE k = c
    BY <1>4, <1>6, <1>7, <1>8, <2>1 DEF Traces, Carried
  <2>2. CASE k # c
    BY <1>6, <1>7, <1>9, <1>10, <2>2 DEF Traces, Carried, AnswersOf
  <2> QED BY <2>1, <2>2
<1> QED BY <1>1, <1>9, <1>11 DEF AnswersOf, Got

LEMMA TakeAckAnswers ==
    ASSUME RequestsInv, NEW c \in CallType, ctl.call = c, AnswersOf(c), TakeAck
    PROVE  AnswersOf(c)'
<1> DEFINE q == Head(up).seq
<1>1. Arrived("ack") /\ up' = Tail(up) /\ ctl' = ctl
  BY DEF TakeAck
<1>2. up # <<>> /\ Head(up) = up[1] /\ 1 \in 1..Len(up) /\ Head(up).kind = "ack"
  BY <1>1, TailLink DEF RequestsInv, FragmentsTypeOK, Arrived
<1>3. q = c.seq => AckUp(c.seq)
  BY <1>2 DEF AckUp
<1>4. (AckUp(c.seq)' => AckUp(c.seq)) /\ (OnlyFrom(c) => OnlyFrom(c)')
  BY <1>1, <1>2, UpLess DEF RequestsInv
<1>5. Carried(c) => /\ sess' # Nil /\ Stage(sess', c)
                    /\ \/ ~sess'.timer /\ down' = down
                       \/ /\ Second(sess', c) /\ sess' \in SessionType
                          /\ sess'.head.seq = q
                          /\ down' = Sent(down, Packet(sess'))
  BY <1>1, AckStage DEF RequestsInv, Carried
<1>6. \/ ~Pending(c.seq)' /\ down' = down
      \/ /\ sess' \in SessionType /\ sess'.head # Nil /\ sess'.head.seq = q
         /\ down' = Sent(down, Packet(sess'))
  <2>1. PICK t \in SessionType :
              /\ ~t.timer
              /\ \/ /\ t.sentPos < t.len /\ sess' = NextFragment(t, q)
                    /\ down' = Sent(down, Packet(sess'))
                 \/ sess' = Cleared(t) /\ down' = down
    BY TakeAckFacts DEF RequestsInv
  <2>2. CASE sess' = Cleared(t) /\ down' = down
    <3>1. ~Cleared(t).timer
      BY <2>1, ClearedFacts
    <3> QED BY <2>2, <3>1 DEF Pending
  <2>3. CASE /\ t.sentPos < t.len /\ sess' = NextFragment(t, q)
             /\ down' = Sent(down, Packet(sess'))
    <3>1. q \in Seqs
      BY <1>2, UpFacts, ElementOfSeq DEF RequestsInv, FragmentsTypeOK
    <3> DEFINE u == NextFragment(t, q)
    <3>2. u \in SessionType /\ u.head \in HeadType /\ u.head.seq = q
      BY <2>3, <3>1, NextFragmentFacts
    <3> HIDE DEF u, q
    <3> QED BY <2>3, <3>2, Constants DEF u
  <2> QED BY <2>1, <2>2, <2>3
<1> HIDE DEF q
<1>7. Traces(c)' /\ GoodDown(c)'
  <2>1. CASE Carried(c)
    <3>1. Traces(c)'
      BY <1>4, <1>5, <2>1 DEF Traces, Carried
    <3>2. CASE down' = down
      BY <3>1, <3>2 DEF AnswersOf, GoodDown
    <3>3. CASE /\ Second(sess', c) /\ sess' \in SessionType /\ down' = Sent(down, Packet(sess'))
      <4> DEFINE p == Packet(sess')
      <4>1. p \in DownType /\ Good(c, p)
        BY <3>3, StagePacket
      <4> HIDE DEF p
      <4>2. GoodDown(c)'
        BY <3>3, <4>1, DownMore DEF AnswersOf, RequestsInv, p
      <4> QED BY <3>1, <4>2
    <3> QED BY <1>5, <2>1, <3>2, <3>3
  <2>2. CASE ~Carried(c)
    <3>1. ~AckUp(c.seq) /\ ~AnswerDown(c.seq) /\ q # c.seq
      BY <1>3, <2>2 DEF AnswersOf, Traces
    <3>2. CASE ~Pending(c.seq)' /\ down' = down
      BY <1>4, <3>1, <3>2 DEF Traces, AnswersOf, GoodDown, AnswerDown
    <3>3. CASE /\ sess' \in SessionType /\ sess'.head # Nil /\ sess'.head.seq = q
               /\ down' = Sent(down, Packet(sess'))
      <4> DEFINE p == Packet(sess')
      <4>1. p \in DownType /\ p.seq = q
        BY <3>3, PacketFacts
      <4> HIDE DEF p
      <4>2. (AnswerDown(c.seq)' => AnswerDown(c.seq)) /\ GoodDown(c)'
        BY <3>1, <3>3, <4>1, DownMore DEF AnswersOf, RequestsInv, p
      <4>3. ~Pending(c.seq)'
        BY <3>1, <3>3 DEF Pending
      <4> QED BY <1>4, <3>1, <4>2, <4>3 DEF Traces
    <3> QED BY <1>6, <3>2, <3>3
  <2> QED BY <2>1, <2>2
<1> QED BY <1>1, <1>7 DEF AnswersOf, Got

LEMMA TakePingAnswers ==
    ASSUME RequestsInv, NEW c \in CallType, ctl.call = c, AnswersOf(c), TakePing
    PROVE  AnswersOf(c)'
<1>1. up # <<>> /\ up' = Tail(up) /\ ctl' = ctl /\ down' = down
  BY DEF TakePing, Arrived
<1>2. (AckUp(c.seq)' => AckUp(c.seq)) /\ (OnlyFrom(c) => OnlyFrom(c)')
  BY <1>1, UpLess DEF RequestsInv
<1>3. /\ sess' # Nil => Stage(sess', c)
      /\ ~Pending(c.seq)'
  <2>1. \/ sess' = Nil
        \/ ~sess'.timer /\ sess'.len = 0 /\ sess'.sentPos = 0 /\ sess'.sendLen = 0
    BY TakePingFacts DEF RequestsInv
  <2> QED BY <2>1, Constants DEF Stage, Through, Pending
<1> QED BY <1>1, <1>2, <1>3 DEF AnswersOf, Traces, Carried, GoodDown, AnswerDown, Got

LEMMA TimeoutAnswers ==
    ASSUME RequestsInv, NEW c \in CallType, ctl.call = c, AnswersOf(c), Timeout
    PROVE  AnswersOf(c)'
<1>1. /\ sess \in SessionType /\ sess # Nil /\ sess.timer /\ sess.head # Nil
      /\ \/ /\ sess' \in SessionType /\ SameOut(sess, sess')
            /\ sess'.timer /\ down' = Sent(down, Packet(sess))
         \/ sess' = Nil /\ down' = down
         \/ /\ sess' \in SessionType /\ SameOut(sess, sess')
            /\ ~sess'.timer /\ down' = down
  BY TimeoutFacts DEF RequestsInv
<1>2. up' = up /\ ctl' = ctl
  BY DEF Timeout
<1>3. (AckUp(c.seq)' => AckUp(c.seq)) /\ (OnlyFrom(c) => OnlyFrom(c)')
  BY <1>2, UpLess DEF RequestsInv
<1>4. Carried(c) => Carried(c)'
  BY <1>1, <1>3, StageKept DEF Carried
<1>5. Pending(c.seq)' => Pending(c.seq)
  BY <1>1 DEF Pending, SameOut
<1>6. CASE down' = down
  BY <1>2, <1>3, <1>4, <1>5, <1>6 DEF AnswersOf, Traces, GoodDown, AnswerDown, Got
<1>7. CASE down' = Sent(down, Packet(sess))
  <2> DEFINE p == Packet(sess)
  <2>1. p \in DownType /\ p.seq = sess.head.seq
    BY <1>1, PacketFacts
  <2>2. p.seq = c.seq => Carried(c)
    BY <1>1, <2>1 DEF AnswersOf, Traces, Pending
  <2>3. p.seq = c.seq => Good(c, p)
    <3> SUFFICES ASSUME p.seq = c.seq PROVE Good(c, p)
      OBVIOUS
    <3>1. First(sess, c) \/ Second(sess, c)
      BY <1>1, <2>2 DEF Carried, Stage, Through
    <3> QED BY <1>1, <3>1, StagePacket
  <2> HIDE DEF p
  <2>4. /\ AnswerDown(c.seq)' => AnswerDown(c.seq) \/ p.seq = c.seq
        /\ GoodDown(c)'
    BY <1>7, <2>1, <2>3, DownMore DEF AnswersOf, RequestsInv, p
  <2> QED BY <1>2, <1>3, <1>4, <1>5, <2>2, <2>4 DEF AnswersOf, Traces, Got
<1> QED BY <1>1, <1>6, <1>7

\* The session ends, or a frame is lost.
LEMMA LessAnswers ==
    ASSUME RequestsInv, NEW c \in CallType, ctl.call = c, AnswersOf(c), ArEnds \/ Lose
    PROVE  AnswersOf(c)'
<1>1. /\ sess' = sess \/ sess' = Nil
      /\ up' = up \/ (up # <<>> /\ up' = Tail(up))
      /\ down' = down \/ (down # <<>> /\ down' = Tail(down))
  BY DEF ArEnds, Lose
<1>2. (AckUp(c.seq)' => AckUp(c.seq)) /\ (OnlyFrom(c) => OnlyFrom(c)')
  BY <1>1, UpLess DEF RequestsInv
<1>3. (AnswerDown(c.seq)' => AnswerDown(c.seq)) /\ (GoodDown(c) => GoodDown(c)')
  BY <1>1, DownLess DEF RequestsInv
<1>4. (Carried(c) => Carried(c)') /\ (Pending(c.seq)' => Pending(c.seq))
  BY <1>1, <1>2 DEF Carried, Pending
<1>5. ctl' = ctl
  BY DEF ArEnds, Lose
<1> QED BY <1>2, <1>3, <1>4, <1>5 DEF AnswersOf, Traces, Got

LEMMA AskAnswers ==
    ASSUME RequestsInv, NEW r \in Calls, NEW q \in Seqs, Ask(r, q)
    PROVE  \E c \in CallType : ctl'.call = c /\ AnswersOf(c)'
<1>1. /\ ctl'.call = [seq |-> q, req |-> r] /\ ctl'.call \in CallType /\ ctl'.got = <<>>
      /\ ctl'.next = 0 /\ ctl'.at # "idle" /\ up' = Sent(up, Fragment(ctl'.call, 0))
  BY AskFacts DEF RequestsInv
<1>2. Unused(q) /\ sess' = sess /\ down' = down
  BY DEF Ask
<1>3. PICK c \in CallType : ctl'.call = c /\ c.seq = q
  BY <1>1
<1> DEFINE f == Fragment(c, 0)
<1>4. f \in UpType /\ f.kind = "request"
  BY FragmentFacts, CallFacts
<1>5. up' = Sent(up, f)
  BY <1>1, <1>3
<1> HIDE DEF f
<1>6. AckUp(q)' => AckUp(q)
  BY <1>4, <1>5, UpMore DEF RequestsInv
<1>7. ~AckUp(q) /\ ~AnswerDown(q)' /\ ~Pending(q)'
  BY <1>2 DEF Unused, AckUp, AnswerDown, Pending
<1>8. AnswersOf(c)'
  BY <1>1, <1>2, <1>3, <1>6, <1>7 DEF AnswersOf, Traces, Got, GoodDown, AnswerDown
<1> QED BY <1>3, <1>8

LEMMA RepeatAnswers ==
    ASSUME RequestsInv, NEW c \in CallType, ctl.call = c, AnswersOf(c), Repeat
    PROVE  AnswersOf(c)' /\ ctl'.call = c
<1>1. ctl.at # "idle"
  BY DEF Repeat
<1>2. PICK j \in {0, ctl.part} : j \in Nat /\ j < ctl.call.req.frags /\ SendPart(ctl, j)
  BY RepeatFacts DEF RequestsInv
<1>3. /\ ctl'.call = c /\ ctl'.got = ctl.got /\ ctl'.next = ctl.next /\ ctl'.at # "idle"
      /\ up' = Sent(up, Fragment(c, j))
  BY <1>2, SendPartFacts, CtlFacts DEF RequestsInv
<1>4. sess' = sess /\ down' = down
  BY DEF Repeat
<1> DEFINE f == Fragment(c, j)
<1>5. f \in UpType /\ f.kind = "request" /\ f.byte[1] = c
  BY <1>2, FragmentFacts
<1> HIDE DEF f
<1>6. (AckUp(c.seq)' => AckUp(c.seq)) /\ (OnlyFrom(c) => OnlyFrom(c)')
  BY <1>3, <1>5, UpMore DEF RequestsInv, f
<1> QED BY <1>1, <1>3, <1>4, <1>6 DEF AnswersOf, Traces, Carried, Pending, GoodDown, AnswerDown, Got

LEMMA PingAnswers ==
    ASSUME RequestsInv, NEW c \in CallType, ctl.call = c, AnswersOf(c), Ping
    PROVE  AnswersOf(c)'
<1> DEFINE f == [kind |-> "ping", seq |-> ctl.call.seq]
<1>1. up' = Sent(up, f) /\ f \in UpType /\ f.kind = "ping"
  BY PingFacts DEF RequestsInv
<1>2. UNCHANGED <<sess, down, ctl>>
  BY DEF Ping
<1> HIDE DEF f
<1>3. (AckUp(c.seq)' => AckUp(c.seq)) /\ (OnlyFrom(c) => OnlyFrom(c)')
  BY <1>1, UpMore DEF RequestsInv
<1> QED BY <1>2, <1>3 DEF AnswersOf, Traces, Carried, Pending, GoodDown, AnswerDown, Got

LEMMA GetAckAnswers ==
    ASSUME RequestsInv, NEW c \in CallType, ctl.call = c, AnswersOf(c), GetAck
    PROVE  AnswersOf(c)' /\ ctl'.call = c
<1>1. /\ down # <<>> /\ down' = Tail(down)
      /\ \/ /\ ctl.at = "sending" /\ ctl.part + 1 < ctl.call.req.frags /\ SendPart(ctl, ctl.part + 1)
         \/ ctl' = ctl /\ up' = up
  BY GetAckFacts DEF RequestsInv
<1>2. sess' = sess
  BY DEF GetAck
<1>3. (AnswerDown(c.seq)' => AnswerDown(c.seq)) /\ (GoodDown(c) => GoodDown(c)')
  BY <1>1, DownLess DEF RequestsInv
<1>4. /\ ctl'.call = c /\ (AckUp(c.seq)' => AckUp(c.seq)) /\ (OnlyFrom(c) => OnlyFrom(c)')
      /\ Got(c)'
  <2>1. CASE ctl' = ctl /\ up' = up
    BY <2>1, UpLess DEF RequestsInv, AnswersOf, Got
  <2>2. CASE /\ ctl.at = "sending" /\ ctl.part + 1 < ctl.call.req.frags
             /\ SendPart(ctl, ctl.part + 1)
    <3> DEFINE j == ctl.part + 1
               f == Fragment(c, j)
    <3>1. ctl \in CtlType /\ j \in Nat /\ j < c.req.frags
      BY <2>2, CtlFacts DEF RequestsInv
    <3>2. /\ ctl'.call = c /\ ctl'.got = ctl.got /\ ctl'.next = ctl.next /\ ctl'.at # "idle"
          /\ up' = Sent(up, f)
      BY <2>2, <3>1, SendPartFacts
    <3>3. f \in UpType /\ f.kind = "request" /\ f.byte[1] = c
      BY <3>1, FragmentFacts
    <3> HIDE DEF f
    <3>4. (AckUp(c.seq)' => AckUp(c.seq)) /\ (OnlyFrom(c) => OnlyFrom(c)')
      BY <3>2, <3>3, UpMore DEF RequestsInv
    <3> QED BY <2>2, <3>2, <3>4 DEF AnswersOf, Got
  <2> QED BY <1>1, <2>1, <2>2
<1> QED BY <1>2, <1>3, <1>4 DEF AnswersOf, Traces, Carried, Pending

LEMMA GetAnswerAnswers ==
    ASSUME RequestsInv, NEW c \in CallType, ctl.call = c, AnswersOf(c), GetAnswer
    PROVE  AnswersOf(c)' /\ ctl'.call = c
<1> DEFINE m == Head(down)
           mine == ctl.at # "sending" /\ m.seq = c.seq
           new == ctl.at = "waiting" /\ m.nbr = ctl.next
           a == [kind |-> "ack", seq |-> m.seq]
<1>1. /\ down # <<>> /\ down' = Tail(down) /\ m.kind = "answer" /\ m \in DownType
      /\ ctl'.call = c
      /\ \/ ctl' = ctl
         \/ /\ mine /\ new /\ ctl'.got = ctl.got \o m.body
            /\ ctl'.next = ctl.next + 1
            /\ ctl'.at = IF m.frag /\ ~m.last THEN "waiting" ELSE "idle"
      /\ \/ up' = up
         \/ mine /\ up' = Sent(up, a) /\ a \in UpType
  BY GetAnswerFacts DEF RequestsInv
<1>2. sess' = sess
  BY DEF GetAnswer
<1>3. m = down[1] /\ 1 \in 1..Len(down)
  BY <1>1, TailLink DEF RequestsInv, FragmentsTypeOK
<1>4. mine => Carried(c) /\ Good(c, m)
  BY <1>1, <1>3 DEF AnswersOf, Traces, AnswerDown, GoodDown
<1>5. (AnswerDown(c.seq)' => AnswerDown(c.seq)) /\ (GoodDown(c) => GoodDown(c)')
  BY <1>1, DownLess DEF RequestsInv
<1>6. (AckUp(c.seq)' => AckUp(c.seq) \/ Carried(c)) /\ (OnlyFrom(c) => OnlyFrom(c)')
  <2>1. CASE up' = up
    BY <2>1, UpLess DEF RequestsInv
  <2>2. CASE mine /\ up' = Sent(up, a) /\ a \in UpType
    <3>1. a.kind = "ack"
      OBVIOUS
    <3> HIDE DEF a
    <3>2. OnlyFrom(c) => OnlyFrom(c)'
      BY <2>2, <3>1, UpMore DEF RequestsInv
    <3> QED BY <1>4, <2>2, <3>2
  <2> QED BY <1>1, <2>1, <2>2
<1> HIDE DEF m
<1>7. Got(c)'
  <2>1. CASE ctl' = ctl
    BY <2>1 DEF AnswersOf, Got
  <2>2. CASE /\ mine /\ new /\ ctl'.got = ctl.got \o m.body
             /\ ctl'.next = ctl.next + 1
             /\ ctl'.at = IF m.frag /\ ~m.last THEN "waiting" ELSE "idle"
    <3>1. /\ Good(c, m) /\ m.nbr = ctl.next
          /\ \/ ctl.next = 0 /\ ctl.got = <<>>
             \/ Two(c) /\ ctl.next = 1 /\ ctl.got = Front(c)
      BY <1>4, <2>2 DEF AnswersOf, Got
    <3>2. CASE ctl.next = 0 /\ ctl.got = <<>>
      <4>1. m.body \in Seq(OutByte)
        BY <1>1, DownFacts
      <4>2. ctl'.got = m.body /\ ctl'.next = 1
        BY <2>2, <3>2, <4>1, ConcatEmptySeq
      <4> QED BY <2>2, <3>1, <3>2, <4>2 DEF Good, Got
    <3>3. CASE Two(c) /\ ctl.next = 1 /\ ctl.got = Front(c)
      <4>1. m.last /\ m.body = Rest(c)
        BY <3>1, <3>3 DEF Good
      <4>2. ctl'.got = Answer(c) /\ ctl'.at = "idle"
        BY <2>2, <3>3, <4>1, FrontAndRest
      <4> QED BY <4>2 DEF Got
    <3> QED BY <3>1, <3>2, <3>3
  <2> QED BY <1>1, <2>1, <2>2
<1>8. Traces(c)'
  BY <1>2, <1>5, <1>6 DEF AnswersOf, Traces, Carried, Pending
<1> QED BY <1>1, <1>5, <1>7, <1>8 DEF AnswersOf

\* Only a new request changes the call of the controller.
LEMMA SameCall ==
    ASSUME RequestsInv, Device \/ Repeat \/ Ping \/ GetAck \/ GetAnswer \/ Lose
    PROVE  ctl'.call = ctl.call
<1>1. CASE Device \/ Ping \/ Lose
  BY <1>1 DEF Device, TakePart, TakeWhole, TakeAck, TakePing, Timeout, ArEnds, Ping, Lose
<1>2. CASE Repeat
  <2>1. PICK j \in {0, ctl.part} : j \in Nat /\ j < ctl.call.req.frags /\ SendPart(ctl, j)
    BY <1>2, RepeatFacts DEF RequestsInv
  <2> QED BY <1>2, <2>1, RepeatFacts, CtlFacts, SendPartFacts DEF RequestsInv
<1>3. CASE GetAck
  <2>1. CASE /\ ctl.call \in CallType
             /\ ctl.part + 1 < ctl.call.req.frags /\ SendPart(ctl, ctl.part + 1)
    <3>1. ctl \in CtlType /\ ctl.part + 1 \in Nat
      BY CtlFacts DEF RequestsInv
    <3> QED BY <2>1, <3>1, SendPartFacts
  <2> QED BY <1>3, <2>1, GetAckFacts DEF RequestsInv
<1>4. CASE GetAnswer
  BY <1>4, GetAnswerFacts DEF RequestsInv
<1> QED BY <1>1, <1>2, <1>3, <1>4

LEMMA NextAnswers ==
    ASSUME RequestsInv, AnswersInv, [FragmentsNext]_fvars
    PROVE  AnswersInv'
<1>1. CASE UNCHANGED fvars
  <2>1. AnswersOf(ctl.call)' <=> AnswersOf(ctl.call)
    BY <1>1 DEF fvars, AnswersOf, Traces, Carried, Pending, GoodDown, AnswerDown, AckUp, OnlyFrom,
                Requested, CallOf, Got
  <2> QED BY <1>1, <2>1 DEF AnswersInv, fvars
<1>2. CASE FragmentsNext
  <2>1. CASE \E r \in Calls, q \in Seqs : Ask(r, q)
    <3>1. PICK c \in CallType : ctl'.call = c /\ AnswersOf(c)'
      BY <2>1, AskAnswers
    <3> QED BY <3>1 DEF AnswersInv
  <2>2. CASE Device \/ Repeat \/ Ping \/ GetAck \/ GetAnswer \/ Lose
    <3>1. ctl'.call = ctl.call
      BY <2>2, SameCall
    <3> SUFFICES ASSUME ctl.call # Nil, Short(ctl.call) PROVE AnswersInv'
      BY <3>1 DEF AnswersInv
    <3>2. PICK c \in CallType : ctl.call = c
      BY CtlFacts DEF RequestsInv
    <3>3. Short(c) /\ AnswersOf(c)
      BY <3>2 DEF AnswersInv
    <3>4. AnswersOf(c)'
      <4>1. CASE Device
        BY <3>2, <3>3, <4>1, TakePartAnswers, TakeWholeAnswers, TakeAckAnswers, TakePingAnswers,
           TimeoutAnswers, LessAnswers DEF Device
      <4>2. CASE Repeat \/ Ping \/ GetAck \/ GetAnswer \/ Lose
        BY <3>2, <3>3, <4>2, RepeatAnswers, PingAnswers, GetAckAnswers, GetAnswerAnswers, LessAnswers
      <4> QED BY <2>2, <4>1, <4>2
    <3> QED BY <3>1, <3>2, <3>4 DEF AnswersInv
  <2> QED BY <1>2, <2>1, <2>2 DEF FragmentsNext, Controller
<1> QED BY <1>1, <1>2

\* What the controller has got to the last fragment of an answer of one frame,
\* or of two of which the second is not full, is the answer to its own request,
\* or empty: whatever pf_cmrpc_rpc_request leaves of an earlier answer in
\* out_buffer, and whichever acknowledgement moves the next fragment to its
\* start, is never in it.
THEOREM AnswersArriveWhole == FragmentsSpec => []AnswersWhole
<1> DEFINE Inv == RequestsInv /\ AnswersInv
<1>1. FragmentsInit => Inv
  <2> SUFFICES ASSUME FragmentsInit PROVE Inv
    OBVIOUS
  <2>1. ctl.call = Nil
    BY DEF FragmentsInit
  <2> QED BY <2>1, InitRequests DEF AnswersInv
<1>2. Inv /\ [FragmentsNext]_fvars => Inv'
  BY NextRequests, NextAnswers
<1>3. Inv => AnswersWhole
  <2> SUFFICES ASSUME Inv, ctl.at = "idle", ctl.got # <<>>, Short(ctl.call)
               PROVE  ctl.got = Answer(ctl.call)
    BY DEF AnswersWhole, Short
  <2>1. ctl.call # Nil
    BY DEF RequestsInv, FragmentsTypeOK
  <2> QED BY <2>1 DEF AnswersInv, AnswersOf, Got
<1> HIDE DEF Inv
<1> QED BY <1>1, <1>2, <1>3, PTL DEF FragmentsSpec

-----------------------------------------------------------------------------
(***************************************************************************)
(* Resending.  While nobody disturbs it, the call is one token that goes   *)
(* to and fro: a fragment or an acknowledgement, an answer or an           *)
(* acknowledgement, or nothing when it was lost.  So when the controller   *)
(* lacks a frame of the answer, that frame, and no other, is in            *)
(* out_buffer, and its timer runs.                                         *)
(***************************************************************************)
UpToken(i, q) == up[i].kind # "ping" /\ up[i].seq = q
NoneUp(q) == \A i \in 1..Len(up) : ~UpToken(i, q)
OneUp(q) == \A i, j \in 1..Len(up) : UpToken(i, q) /\ UpToken(j, q) => i = j
NoneDown(q) == \A i \in 1..Len(down) : down[i].seq # q
OneDown(q) == \A i, j \in 1..Len(down) : down[i].seq = q /\ down[j].seq = q => i = j
Lone(q) == OneUp(q) /\ OneDown(q) /\ (NoneUp(q) \/ NoneDown(q))

AllUp(q) == \A i \in 1..Len(up) : up[i].seq = q
OnlyAnswers(q, n) == \A i \in 1..Len(down) :
    down[i].seq = q => down[i].kind = "answer" /\ down[i].frag /\ down[i].nbr = n
Expects(c) ==
    /\ sess # Nil /\ sess.timer /\ AllUp(c.seq)
    /\ \/ First(sess, c) /\ (AckUp(c.seq) => ctl.next = 1) /\ OnlyAnswers(c.seq, 0)
       \/ Second(sess, c) /\ ctl.next = 1 /\ ~AckUp(c.seq) /\ OnlyAnswers(c.seq, 1)
Lacking(c) ==
    /\ ctl.at # "idle" /\ ran = Request(c) /\ Two(c) /\ ~c.req.once
    /\ ~disturbed /\ ~fallen
ResentOf(c) == (~disturbed => Lone(c.seq)) /\ (Lacking(c) => Expects(c))
ResentInv == ctl.call # Nil => ResentOf(ctl.call)

LEMMA UpTaken ==
    ASSUME FragmentsTypeOK, up # <<>>, up' = Tail(up), NEW q
    PROVE  /\ NoneUp(q) => NoneUp(q)'
           /\ OneUp(q) => OneUp(q)'
           /\ Head(up).kind # "ping" /\ Head(up).seq = q => ~NoneUp(q)
           /\ OneUp(q) /\ Head(up).kind # "ping" /\ Head(up).seq = q => NoneUp(q)' /\ ~AckUp(q)'
           /\ AllUp(q) => AllUp(q)' /\ Head(up).seq = q
<1>1. /\ Len(up) \in Nat /\ 1 \in 1..Len(up) /\ Len(up') = Len(up) - 1 /\ Head(up) = up[1]
      /\ \A i \in 1..Len(up') : i + 1 \in 2..Len(up) /\ up'[i] = up[i + 1]
  BY TailLink DEF FragmentsTypeOK
<1>2. \A i \in 1..Len(up') : i \in Nat /\ i + 1 \in 1..Len(up) /\ i + 1 # 1 /\ up'[i] = up[i + 1]
  BY <1>1
<1>3. OneUp(q) => OneUp(q)'
  <2> SUFFICES ASSUME OneUp(q), NEW i \in 1..Len(up'), NEW j \in 1..Len(up'),
                      UpToken(i, q)', UpToken(j, q)'
               PROVE  i = j
    BY DEF OneUp
  <2>1. i + 1 = j + 1
    BY <1>2 DEF OneUp, UpToken
  <2> QED BY <1>2, <2>1
<1>4. NoneUp(q) => NoneUp(q)'
  BY <1>2 DEF NoneUp, UpToken
<1>5. OneUp(q) /\ Head(up).kind # "ping" /\ Head(up).seq = q => NoneUp(q)'
  BY <1>1, <1>2 DEF OneUp, NoneUp, UpToken
<1>6. NoneUp(q)' => ~AckUp(q)'
  BY DEF NoneUp, UpToken, AckUp
<1>8. Head(up).kind # "ping" /\ Head(up).seq = q => ~NoneUp(q)
  BY <1>1 DEF NoneUp, UpToken
<1>7. AllUp(q) => AllUp(q)' /\ Head(up).seq = q
  BY <1>1, <1>2 DEF AllUp
<1> QED BY <1>3, <1>4, <1>5, <1>6, <1>7, <1>8

LEMMA UpPut ==
    ASSUME FragmentsTypeOK, NEW f \in UpType, up' = Sent(up, f), NEW q
    PROVE  /\ NoneUp(q) => OneUp(q)'
           /\ f.kind = "ping" \/ f.seq # q =>
                 (NoneUp(q) => NoneUp(q)') /\ (OneUp(q) => OneUp(q)')
           /\ AllUp(q) /\ f.seq = q => AllUp(q)'
<1> DEFINE n == Len(up)
<1>1. /\ n \in Nat
      /\ \/ up' = up
         \/ /\ Len(up') = n + 1 /\ \A i \in 1..n : up'[i] = up[i]
            /\ up'[n + 1] = f
  BY UpSent
<1>2. \A i \in 1..Len(up') : \/ i \in 1..n /\ up'[i] = up[i]
                             \/ i = n + 1 /\ up'[i] = f
  BY <1>1
<1> HIDE DEF n
<1>3. NoneUp(q) => OneUp(q)'
  BY <1>2 DEF NoneUp, OneUp, UpToken, n
<1>4. f.kind = "ping" \/ f.seq # q =>
         (NoneUp(q) => NoneUp(q)') /\ (OneUp(q) => OneUp(q)')
  BY <1>2 DEF NoneUp, OneUp, UpToken, n
<1>5. AllUp(q) /\ f.seq = q => AllUp(q)'
  BY <1>2 DEF AllUp, n
<1> QED BY <1>3, <1>4, <1>5

LEMMA DownTaken ==
    ASSUME FragmentsTypeOK, down # <<>>, down' = Tail(down), NEW q
    PROVE  /\ NoneDown(q) => NoneDown(q)'
           /\ OneDown(q) => OneDown(q)'
           /\ Head(down).seq = q => ~NoneDown(q) /\ (OneDown(q) => NoneDown(q)')
           /\ \A n : OnlyAnswers(q, n) => OnlyAnswers(q, n)'
<1>1. /\ Len(down) \in Nat /\ 1 \in 1..Len(down) /\ Len(down') = Len(down) - 1
      /\ Head(down) = down[1]
      /\ \A i \in 1..Len(down') : i + 1 \in 2..Len(down) /\ down'[i] = down[i + 1]
  BY TailLink DEF FragmentsTypeOK
<1>2. \A i \in 1..Len(down') : /\ i \in Nat /\ i + 1 \in 1..Len(down) /\ i + 1 # 1
                               /\ down'[i] = down[i + 1]
  BY <1>1
<1>3. OneDown(q) => OneDown(q)'
  <2> SUFFICES ASSUME OneDown(q), NEW i \in 1..Len(down'), NEW j \in 1..Len(down'),
                      down'[i].seq = q, down'[j].seq = q
               PROVE  i = j
    BY DEF OneDown
  <2>1. i + 1 = j + 1
    BY <1>2 DEF OneDown
  <2> QED BY <1>2, <2>1
<1>4. NoneDown(q) => NoneDown(q)'
  BY <1>2 DEF NoneDown
<1>5. Head(down).seq = q => ~NoneDown(q) /\ (OneDown(q) => NoneDown(q)')
  BY <1>1, <1>2 DEF OneDown, NoneDown
<1>6. \A n : OnlyAnswers(q, n) => OnlyAnswers(q, n)'
  BY <1>2 DEF OnlyAnswers
<1> QED BY <1>3, <1>4, <1>5, <1>6

LEMMA DownPut ==
    ASSUME FragmentsTypeOK, NEW d \in DownType, down' = Sent(down, d), NEW q
    PROVE  /\ NoneDown(q) => OneDown(q)'
           /\ d.seq # q => (NoneDown(q) => NoneDown(q)') /\ (OneDown(q) => OneDown(q)')
           /\ NoneDown(q) /\ d.kind = "answer" /\ d.frag =>
                 \A k : d.nbr = k => OnlyAnswers(q, k)'
<1> DEFINE n == Len(down)
<1>1. /\ n \in Nat
      /\ \/ down' = down
         \/ /\ Len(down') = n + 1 /\ \A i \in 1..n : down'[i] = down[i]
            /\ down'[n + 1] = d
  BY DownSent
<1>2. \A i \in 1..Len(down') : \/ i \in 1..n /\ down'[i] = down[i]
                               \/ i = n + 1 /\ down'[i] = d
  BY <1>1
<1> HIDE DEF n
<1>3. NoneDown(q) => OneDown(q)'
  BY <1>2 DEF NoneDown, OneDown, n
<1>4. d.seq # q => (NoneDown(q) => NoneDown(q)') /\ (OneDown(q) => OneDown(q)')
  BY <1>2 DEF NoneDown, OneDown, n
<1>5. NoneDown(q) /\ d.kind = "answer" /\ d.frag =>
         \A k : d.nbr = k => OnlyAnswers(q, k)'
  BY <1>2 DEF NoneDown, OnlyAnswers, n
<1> QED BY <1>3, <1>4, <1>5

\* A token that is taken, lost, or handed on by the device or the controller.
LEMMA LoneLess ==
    ASSUME FragmentsTypeOK, NEW q, Lone(q),
           \/ up' = up
           \/ up # <<>> /\ up' = Tail(up),
           \/ down' = down
           \/ down # <<>> /\ down' = Tail(down)
    PROVE  Lone(q)'
<1>1. (NoneUp(q) => NoneUp(q)') /\ (OneUp(q) => OneUp(q)')
  <2>1. CASE up' = up
    BY <2>1 DEF NoneUp, OneUp, UpToken
  <2> QED BY <2>1, UpTaken
<1>2. (NoneDown(q) => NoneDown(q)') /\ (OneDown(q) => OneDown(q)')
  <2>1. CASE down' = down
    BY <2>1 DEF NoneDown, OneDown
  <2> QED BY <2>1, DownTaken
<1> QED BY <1>1, <1>2 DEF Lone

LEMMA LoneDown ==
    ASSUME FragmentsTypeOK, NEW q, Lone(q), up # <<>>, up' = Tail(up), Head(up).kind # "ping",
           NEW d \in DownType, down' = Sent(down, d), d.seq = Head(up).seq
    PROVE  Lone(q)'
<1>1. CASE d.seq = q
  BY <1>1, UpTaken, DownPut DEF Lone
<1>2. CASE d.seq # q
  BY <1>2, UpTaken, DownPut DEF Lone
<1> QED BY <1>1, <1>2

LEMMA LoneUp ==
    ASSUME FragmentsTypeOK, NEW q, Lone(q), down # <<>>, down' = Tail(down),
           NEW f \in UpType, up' = Sent(up, f), f.seq = Head(down).seq
    PROVE  Lone(q)'
<1>1. CASE f.seq = q
  BY <1>1, DownTaken, UpPut DEF Lone
<1>2. CASE f.seq # q
  BY <1>2, DownTaken, UpPut DEF Lone
<1> QED BY <1>1, <1>2

LEMMA RequestFacts ==
    ASSUME NEW c \in CallType, NEW k \in CallType
    PROVE  Request(c) # <<>> /\ (Request(k) = Request(c) => k = c)
<1> DEFINE n == c.req.frags
           l == k.req.frags
<1>0. n \in Nat /\ 1 \in 1..n /\ l \in Nat /\ 1 \in 1..l
  BY CallFacts
<1>1. /\ Request(c) \in Seq(ByteType) /\ 1 \in 1..Len(Request(c)) /\ Request(c)[1] = <<c, 1>>
  <2>1. /\ Bytes(c, n) \in Seq(ByteType) /\ Len(Bytes(c, n)) = n
        /\ \A j \in 1..n : Bytes(c, n)[j] = <<c, j>>
    BY <1>0, BytesFacts
  <2> QED BY <1>0, <2>1 DEF Request
<1>2. Request(k)[1] = <<k, 1>>
  <2>1. \A j \in 1..l : Bytes(k, l)[j] = <<k, j>>
    BY <1>0, BytesFacts
  <2> QED BY <1>0, <2>1 DEF Request
<1>3. Request(c) # <<>>
  BY <1>1
<1>4. Request(k) = Request(c) => k = c
  BY <1>1, <1>2
<1> QED BY <1>3, <1>4

LEMMA TakePartResent ==
    ASSUME RequestsInv, NEW c \in CallType, ctl.call = c, ResentOf(c), TakePart
    PROVE  ResentOf(c)'
<1> DEFINE m == Head(up)
           d == [kind |-> "ack", seq |-> m.seq, nbr |-> m.nbr]
<1>1. down' = Sent(down, d)
  BY TakePartFacts DEF RequestsInv
<1>2. /\ Arrived("request") /\ up' = Tail(up) /\ up # <<>> /\ m.kind = "request"
      /\ ran' = <<>> /\ disturbed' = disturbed
  BY DEF TakePart, Part, Arrived
<1>3. d \in DownType /\ d.seq = m.seq
  <2>1. m.seq \in Seqs /\ m.nbr \in Nat
    BY <1>2, HeadCollects, UpFacts DEF RequestsInv
  <2> QED BY <2>1 DEF DownType
<1>4. ~Lacking(c)'
  BY <1>2, RequestFacts DEF Lacking
<1> HIDE DEF d, m
<1>5. Lone(c.seq) => Lone(c.seq)'
  BY <1>1, <1>2, <1>3, LoneDown DEF RequestsInv, m
<1> QED BY <1>2, <1>4, <1>5 DEF ResentOf

LEMMA TakeWholeResent ==
    ASSUME RequestsInv, NEW c \in CallType, ctl.call = c, ResentOf(c), TakeWhole
    PROVE  ResentOf(c)'
<1> DEFINE m == Head(up)
           k == m.byte[1]
<1>1. /\ Arrived("request") /\ up' = Tail(up) /\ ctl' = ctl /\ disturbed' = disturbed
      /\ up # <<>> /\ m.kind = "request"
  BY DEF TakeWhole, Whole, Arrived
<1>2. PICK u \in SessionType, body \in {<<>>, Answer(k)} :
             LET t == Answered(u, m.seq, body)
             IN  /\ ~u.timer
                 /\ down' = Sent(down, Packet(t))
                 /\ \/ ran' = <<>>
                    \/ ran' = Request(k) /\ body = Answer(k) /\ (k.req.once \/ sess' = t)
  BY TakeWholeFacts DEF RequestsInv
<1>3. k \in CallType /\ m.seq = k.seq
  BY <1>1, HeadCollects, UpFacts DEF RequestsInv
<1> DEFINE t == Answered(u, k.seq, body)
           p == Packet(t)
<1>4. /\ ~u.timer /\ down' = Sent(down, p)
      /\ \/ ran' = <<>>
         \/ ran' = Request(k) /\ body = Answer(k) /\ (k.req.once \/ sess' = t)
  BY <1>2, <1>3
<1>5. t \in SessionType /\ p \in DownType /\ p.kind = "answer" /\ p.seq = k.seq
  BY <1>3, WholeTypes
<1> HIDE DEF k, m
<1>6. Two(k) /\ body = Answer(k) => First(t, k) /\ t.timer
  BY <1>3, <1>4, WholeStage DEF Short, Two
<1> HIDE DEF t, p
<1>7. Lone(c.seq) => Lone(c.seq)'
  BY <1>1, <1>3, <1>4, <1>5, LoneDown DEF RequestsInv, m
<1>8. ASSUME Lacking(c)' PROVE Expects(c)'
  <2>1. /\ ran' = Request(c) /\ Two(c) /\ ~c.req.once /\ ~disturbed
    BY <1>1, <1>8 DEF Lacking
  <2>2. k = c /\ body = Answer(c) /\ sess' = t
    BY <1>3, <1>4, <2>1, RequestFacts
  <2>3. First(t, c) /\ t.timer /\ t # Nil
    BY <1>5, <1>6, <2>1, <2>2, Constants
  <2>4. p.frag /\ p.nbr = 0
    BY <1>5, <2>3, StagePacket DEF First, p
  <2>5. NoneUp(c.seq)' /\ ~AckUp(c.seq)' /\ NoneDown(c.seq)
    BY <1>1, <1>3, <2>1, <2>2, UpTaken DEF ResentOf, Lone, RequestsInv, m
  <2>6. OnlyAnswers(c.seq, 0)'
    BY <1>4, <1>5, <2>4, <2>5, DownPut DEF RequestsInv
  <2>7. AllUp(c.seq)'
    <3>1. up[1].seq = c.seq /\ 1 \in 1..Len(up)
      BY <1>1, <1>3, <2>2, TailLink DEF RequestsInv, FragmentsTypeOK, m
    <3>2. \A i \in 1..Len(up) : \A j \in i..Len(up) : up[i].seq = c.seq => up[j].seq = c.seq
      BY CallFacts DEF RequestsInv, OwnCall
    <3>3. AllUp(c.seq)
      BY <3>1, <3>2 DEF AllUp
    <3> QED BY <1>1, <3>3, UpTaken DEF RequestsInv
  <2> QED BY <2>2, <2>3, <2>5, <2>6, <2>7 DEF Expects
<1> QED BY <1>1, <1>7, <1>8 DEF ResentOf

LEMMA TakeAckResent ==
    ASSUME RequestsInv, NEW c \in CallType, ctl.call = c, ResentOf(c), TakeAck
    PROVE  ResentOf(c)'
<1> DEFINE q == Head(up).seq
<1>1. /\ Arrived("ack") /\ up # <<>> /\ up' = Tail(up) /\ Head(up).kind = "ack"
      /\ UNCHANGED <<ctl, ran, disturbed, fallen>>
  BY DEF TakeAck, Arrived
<1>2. q \in Seqs /\ Head(up) = up[1] /\ 1 \in 1..Len(up)
  BY <1>1, TailLink, UpFacts DEF RequestsInv, FragmentsTypeOK
<1>3. Lone(c.seq) => Lone(c.seq)'
  <2>1. PICK t \in SessionType :
              \/ /\ t.sentPos < t.len /\ sess' = NextFragment(t, q)
                 /\ down' = Sent(down, Packet(sess'))
              \/ down' = down
    BY TakeAckFacts DEF RequestsInv
  <2>2. CASE down' = down
    BY <1>1, <2>2, LoneLess DEF RequestsInv
  <2>3. CASE /\ t.sentPos < t.len /\ sess' = NextFragment(t, q)
             /\ down' = Sent(down, Packet(sess'))
    <3> DEFINE u == NextFragment(t, q)
               p == Packet(u)
    <3>1. u \in SessionType /\ u.head \in HeadType /\ u.head.seq = q
      BY <1>2, <2>3, NextFragmentFacts
    <3> HIDE DEF u
    <3>2. p \in DownType /\ p.seq = q /\ down' = Sent(down, p)
      BY <2>3, <3>1, PacketFacts, Constants DEF u
    <3> HIDE DEF p
    <3> QED BY <1>1, <3>2, LoneDown DEF RequestsInv
  <2> QED BY <2>1, <2>2, <2>3
<1>4. ASSUME Lacking(c)' PROVE Expects(c)'
  <2>1. Lacking(c) /\ ~disturbed
    BY <1>1, <1>4 DEF Lacking
  <2>2. Expects(c) /\ Lone(c.seq)
    BY <2>1 DEF ResentOf
  <2>3. q = c.seq
    BY <1>1, <2>2, UpTaken DEF RequestsInv, Expects
  <2>4. AckUp(c.seq)
    BY <1>1, <1>2, <2>3 DEF AckUp
  <2>5. sess # Nil /\ First(sess, c) /\ ctl.next = 1 /\ AllUp(c.seq)
    BY <2>2, <2>4 DEF Expects
  <2>6. NoneDown(c.seq) /\ ~AckUp(c.seq)'
    BY <1>1, <2>2, <2>3, UpTaken DEF RequestsInv, Lone
  <2>7. AllUp(c.seq)'
    BY <1>1, <2>5, UpTaken DEF RequestsInv
  <2>8. /\ sess' \in SessionType /\ sess' # Nil /\ Second(sess', c) /\ sess'.timer
        /\ down' = Sent(down, Packet(sess'))
    BY <1>1, <2>5, AckStage DEF RequestsInv, Stage
  <2> DEFINE p == Packet(sess')
  <2>9. p \in DownType /\ p.kind = "answer" /\ p.frag /\ p.nbr = 1
    BY <2>8, StagePacket DEF Second
  <2>10. down' = Sent(down, p)
    BY <2>8
  <2> HIDE DEF p
  <2>11. OnlyAnswers(c.seq, 1)'
    BY <2>6, <2>9, <2>10, DownPut DEF RequestsInv
  <2> QED BY <1>1, <2>5, <2>6, <2>7, <2>8, <2>11 DEF Expects
<1> QED BY <1>1, <1>3, <1>4 DEF ResentOf

\* A ping, and the end of the AR, disturb.
LEMMA DisturbedResent ==
    ASSUME NEW c, TakePing \/ ArEnds
    PROVE  ResentOf(c)'
<1>1. disturbed'
  BY DEF TakePing, ArEnds
<1> QED BY <1>1 DEF ResentOf, Lacking

LEMMA TimeoutResent ==
    ASSUME RequestsInv, NEW c \in CallType, ctl.call = c, ResentOf(c), Timeout
    PROVE  ResentOf(c)'
<1> SUFFICES ASSUME ~disturbed' PROVE ResentOf(c)'
  BY DEF ResentOf, Lacking
<1>1. ~disturbed /\ up = <<>> /\ down = <<>> /\ sess' # Nil
  BY DEF Timeout, Silent
<1>2. up' = up /\ ctl' = ctl /\ ran' = ran
  BY DEF Timeout
<1>3. /\ sess \in SessionType /\ sess # Nil /\ sess.head # Nil
      /\ \/ /\ SameOut(sess, sess') /\ sess'.timer /\ down' = Sent(down, Packet(sess))
            /\ fallen' = fallen
         \/ down' = down /\ fallen'
  BY <1>1, TimeoutFacts DEF RequestsInv
<1> DEFINE p == Packet(sess)
<1>4. p \in DownType
  BY <1>3, PacketFacts
<1>5. NoneDown(c.seq) /\ NoneUp(c.seq)' /\ OneUp(c.seq)' /\ AllUp(c.seq)' /\ ~AckUp(c.seq)'
  BY <1>1, <1>2 DEF NoneDown, NoneUp, OneUp, AllUp, AckUp
<1>6. OneDown(c.seq)'
  <2>1. CASE down' = down
    BY <1>1, <2>1 DEF OneDown
  <2>2. CASE down' = Sent(down, p)
    <3> HIDE DEF p
    <3> QED BY <1>4, <1>5, <2>2, DownPut DEF RequestsInv
  <2> QED BY <1>3, <2>1, <2>2
<1>7. ASSUME Lacking(c)' PROVE Expects(c)'
  <2>1. SameOut(sess, sess') /\ sess'.timer /\ down' = Sent(down, p) /\ fallen' = fallen
    BY <1>3, <1>7 DEF Lacking
  <2>2. Lacking(c)
    BY <1>1, <1>2, <1>7, <2>1 DEF Lacking
  <2>3. /\ First(sess, c) \/ (Second(sess, c) /\ ctl.next = 1)
    BY <2>2 DEF ResentOf, Expects
  <2>4. p.kind = "answer" /\ p.frag /\ p.nbr = sess.nbr
    BY <1>3, <2>3, StagePacket
  <2> HIDE DEF p
  <2>5. \A k : sess.nbr = k => OnlyAnswers(c.seq, k)'
    BY <1>4, <1>5, <2>1, <2>4, DownPut DEF RequestsInv
  <2>6. CASE First(sess, c)
    <3>1. First(sess', c) /\ OnlyAnswers(c.seq, 0)'
      BY <2>1, <2>5, <2>6 DEF First, SameOut
    <3> QED BY <1>1, <1>5, <2>1, <3>1 DEF Expects
  <2>7. CASE Second(sess, c) /\ ctl.next = 1
    <3>1. Second(sess', c) /\ OnlyAnswers(c.seq, 1)'
      BY <2>1, <2>5, <2>7 DEF Second, SameOut
    <3> QED BY <1>1, <1>2, <1>5, <2>1, <2>7, <3>1 DEF Expects
  <2> QED BY <2>3, <2>6, <2>7
<1> QED BY <1>5, <1>6, <1>7 DEF ResentOf, Lone

\* What is under way is only less, and the session and the controller are as
\* they were.
LEMMA ExpectsLess ==
    ASSUME RequestsInv, NEW c \in CallType, Expects(c), sess' = sess, ctl'.next = ctl.next,
           \/ up' = up
           \/ up # <<>> /\ up' = Tail(up),
           \/ down' = down
           \/ down # <<>> /\ down' = Tail(down)
    PROVE  Expects(c)'
<1>1. AckUp(c.seq)' => AckUp(c.seq)
  BY UpLess DEF RequestsInv
<1>2. AllUp(c.seq)'
  <2>1. CASE up' = up
    BY <2>1 DEF Expects, AllUp
  <2> QED BY <2>1, UpTaken DEF RequestsInv, Expects
<1>3. \A n : OnlyAnswers(c.seq, n) => OnlyAnswers(c.seq, n)'
  <2>1. CASE down' = down
    BY <2>1 DEF OnlyAnswers
  <2> QED BY <2>1, DownTaken DEF RequestsInv
<1> QED BY <1>1, <1>2, <1>3 DEF Expects

LEMMA LoseResent ==
    ASSUME RequestsInv, NEW c \in CallType, ctl.call = c, ResentOf(c), Lose
    PROVE  ResentOf(c)'
<1>1. /\ up' = up \/ (up # <<>> /\ up' = Tail(up))
      /\ down' = down \/ (down # <<>> /\ down' = Tail(down))
      /\ UNCHANGED <<sess, ctl, ran, disturbed, fallen>>
  BY DEF Lose
<1>2. Lone(c.seq) => Lone(c.seq)'
  BY <1>1, LoneLess DEF RequestsInv
<1>3. Expects(c) => Expects(c)'
  BY <1>1, ExpectsLess
<1> QED BY <1>1, <1>2, <1>3 DEF ResentOf, Lacking

LEMMA AskResent ==
    ASSUME RequestsInv, NEW r \in Calls, NEW q \in Seqs, Ask(r, q)
    PROVE  \E c \in CallType : ctl'.call = c /\ ResentOf(c)'
<1>1. /\ ctl'.call = [seq |-> q, req |-> r] /\ ctl'.call \in CallType
      /\ up' = Sent(up, Fragment(ctl'.call, 0))
  BY AskFacts DEF RequestsInv
<1>2. Unused(q) /\ down' = down /\ ran' = <<>>
  BY DEF Ask
<1>3. PICK c \in CallType : ctl'.call = c /\ c.seq = q
  BY <1>1
<1> DEFINE f == Fragment(c, 0)
<1>4. f \in UpType
  BY FragmentFacts, CallFacts
<1>5. up' = Sent(up, f)
  BY <1>1, <1>3
<1> HIDE DEF f
<1>6. NoneUp(q) /\ NoneDown(q)' /\ OneDown(q)'
  BY <1>2 DEF Unused, NoneUp, UpToken, NoneDown, OneDown
<1>7. OneUp(q)'
  BY <1>4, <1>5, <1>6, UpPut DEF RequestsInv
<1>8. ~Lacking(c)'
  BY <1>2, RequestFacts DEF Lacking
<1>9. ResentOf(c)'
  BY <1>3, <1>6, <1>7, <1>8 DEF ResentOf, Lone
<1> QED BY <1>3, <1>9

\* Something of the call is sent, which is not an acknowledgement.
LEMMA ExpectsMore ==
    ASSUME RequestsInv, NEW c \in CallType, Expects(c), NEW f \in UpType, up' = Sent(up, f),
           f.seq = c.seq, f.kind # "ack", sess' = sess, down' = down, ctl'.next = ctl.next
    PROVE  Expects(c)'
<1>1. AckUp(c.seq)' => AckUp(c.seq)
  BY UpMore DEF RequestsInv
<1>2. AllUp(c.seq)'
  BY UpPut DEF RequestsInv, Expects
<1>3. \A n : OnlyAnswers(c.seq, n) => OnlyAnswers(c.seq, n)'
  BY DEF OnlyAnswers
<1> QED BY <1>1, <1>2, <1>3 DEF Expects

LEMMA RepeatResent ==
    ASSUME RequestsInv, NEW c \in CallType, ctl.call = c, ResentOf(c), Repeat
    PROVE  ResentOf(c)'
<1> SUFFICES ASSUME ~disturbed' PROVE ResentOf(c)'
  BY DEF ResentOf, Lacking
<1>1. ~disturbed /\ up = <<>> /\ down = <<>> /\ ctl.at # "idle"
  BY DEF Repeat, Silent
<1>2. UNCHANGED <<sess, down, ran, fallen>>
  BY DEF Repeat
<1>3. PICK j \in {0, ctl.part} : j \in Nat /\ j < ctl.call.req.frags /\ SendPart(ctl, j)
  BY RepeatFacts DEF RequestsInv
<1> DEFINE f == Fragment(c, j)
<1>4. ctl'.next = ctl.next /\ up' = Sent(up, f)
  BY <1>3, SendPartFacts, CtlFacts DEF RequestsInv
<1>5. f \in UpType /\ f.seq = c.seq /\ f.kind # "ack"
  BY <1>3, FragmentFacts
<1> HIDE DEF f
<1>6. NoneUp(c.seq) /\ NoneDown(c.seq)' /\ OneDown(c.seq)'
  BY <1>1, <1>2 DEF NoneUp, NoneDown, OneDown
<1>7. OneUp(c.seq)'
  BY <1>4, <1>5, <1>6, UpPut DEF RequestsInv
<1>8. ASSUME Lacking(c)' PROVE Expects(c)'
  <2>1. Lacking(c)
    BY <1>1, <1>2, <1>8 DEF Lacking
  <2>2. Expects(c)
    BY <2>1 DEF ResentOf
  <2> QED BY <1>2, <1>4, <1>5, <2>2, ExpectsMore
<1> QED BY <1>6, <1>7, <1>8 DEF ResentOf, Lone

LEMMA PingResent ==
    ASSUME RequestsInv, NEW c \in CallType, ctl.call = c, ResentOf(c), Ping
    PROVE  ResentOf(c)'
<1> DEFINE f == [kind |-> "ping", seq |-> ctl.call.seq]
<1>1. up' = Sent(up, f) /\ f \in UpType /\ f.kind = "ping" /\ f.seq = c.seq
  BY PingFacts DEF RequestsInv
<1>2. UNCHANGED <<sess, down, ctl, ran, disturbed, fallen>>
  BY DEF Ping
<1> HIDE DEF f
<1>3. Lone(c.seq) => Lone(c.seq)'
  <2>1. (NoneUp(c.seq) => NoneUp(c.seq)') /\ (OneUp(c.seq) => OneUp(c.seq)')
    BY <1>1, UpPut DEF RequestsInv
  <2> QED BY <1>2, <2>1 DEF Lone, NoneDown, OneDown
<1>4. Expects(c) => Expects(c)'
  BY <1>1, <1>2, ExpectsMore
<1> QED BY <1>2, <1>3, <1>4 DEF ResentOf, Lacking

LEMMA GetAckResent ==
    ASSUME RequestsInv, NEW c \in CallType, ctl.call = c, ResentOf(c), GetAck
    PROVE  ResentOf(c)'
<1>1. /\ down # <<>> /\ down' = Tail(down) /\ Head(down).kind = "ack"
      /\ \/ /\ ctl.at = "sending" /\ Head(down).seq = c.seq
            /\ ctl.part + 1 < ctl.call.req.frags /\ SendPart(ctl, ctl.part + 1)
         \/ ctl' = ctl /\ up' = up
  BY GetAckFacts DEF RequestsInv
<1>2. UNCHANGED <<sess, ran, disturbed, fallen>>
  BY DEF GetAck
<1>3. CASE ctl' = ctl /\ up' = up
  <2>1. Lone(c.seq) => Lone(c.seq)'
    BY <1>1, <1>3, LoneLess DEF RequestsInv
  <2>2. Expects(c) => Expects(c)'
    BY <1>1, <1>2, <1>3, ExpectsLess
  <2> QED BY <1>2, <1>3, <2>1, <2>2 DEF ResentOf, Lacking
<1>4. CASE /\ ctl.at = "sending" /\ Head(down).seq = c.seq
           /\ ctl.part + 1 < ctl.call.req.frags /\ SendPart(ctl, ctl.part + 1)
  <2> DEFINE j == ctl.part + 1
             f == Fragment(c, j)
  <2>1. ctl \in CtlType /\ j \in Nat /\ j < c.req.frags
    BY <1>4, CtlFacts DEF RequestsInv
  <2>2. up' = Sent(up, f)
    BY <1>4, <2>1, SendPartFacts
  <2>3. f \in UpType /\ f.seq = c.seq
    BY <2>1, FragmentFacts
  <2> HIDE DEF f
  <2>4. Lone(c.seq) => Lone(c.seq)'
    BY <1>1, <1>4, <2>2, <2>3, LoneUp DEF RequestsInv
  <2>5. ~Expects(c)
    <3>1. Head(down) = down[1] /\ 1 \in 1..Len(down)
      BY <1>1, TailLink DEF RequestsInv, FragmentsTypeOK
    <3> QED BY <1>1, <1>4, <3>1 DEF Expects, OnlyAnswers
  <2>6. Lacking(c)' => Lacking(c)
    BY <1>2, <1>4 DEF Lacking
  <2> QED BY <1>2, <2>4, <2>5, <2>6 DEF ResentOf
<1> QED BY <1>1, <1>3, <1>4

LEMMA GetAnswerResent ==
    ASSUME RequestsInv, NEW c \in CallType, ctl.call = c, Short(c) => AnswersOf(c), ResentOf(c),
           GetAnswer
    PROVE  ResentOf(c)'
<1> DEFINE m == Head(down)
           mine == ctl.at # "sending" /\ m.seq = c.seq
           new == ctl.at = "waiting" /\ m.nbr = ctl.next
           a == [kind |-> "ack", seq |-> m.seq]
<1>1. /\ down # <<>> /\ down' = Tail(down) /\ m.kind = "answer" /\ m \in DownType
      /\ \/ ~(mine /\ new) /\ ctl' = ctl
         \/ /\ mine /\ new /\ ctl'.next = ctl.next + 1
            /\ ctl'.at = IF m.frag /\ ~m.last THEN "waiting" ELSE "idle"
      /\ \/ up' = up
         \/ mine /\ up' = Sent(up, a) /\ a \in UpType
  BY GetAnswerFacts DEF RequestsInv
<1>2. UNCHANGED <<sess, ran, disturbed, fallen>>
  BY DEF GetAnswer
<1>3. m = down[1] /\ 1 \in 1..Len(down)
  BY <1>1, TailLink DEF RequestsInv, FragmentsTypeOK
<1>4. a.seq = m.seq /\ a.kind = "ack"
  OBVIOUS
<1> HIDE DEF a, m
<1>5. Lone(c.seq) => Lone(c.seq)'
  <2>1. CASE up' = up
    BY <1>1, <2>1, LoneLess DEF RequestsInv
  <2>2. CASE up' = Sent(up, a) /\ a \in UpType
    BY <1>1, <1>4, <2>2, LoneUp DEF RequestsInv, m
  <2> QED BY <1>1, <2>1, <2>2
<1>6. ASSUME Lacking(c)' PROVE Expects(c)'
  <2>1. ctl.at # "idle" /\ ctl'.at # "idle" /\ Two(c)
    BY <1>1, <1>6 DEF Lacking
  <2>2. Expects(c)
    BY <1>2, <1>6, <2>1 DEF Lacking, ResentOf
  <2>3. /\ mine => Good(c, m) /\ m.frag
        /\ mine /\ First(sess, c) => m.nbr = 0
        /\ mine /\ ~First(sess, c) => m.nbr = 1 /\ ctl.next = 1
    <3>1. mine => Good(c, m)
      BY <1>1, <1>3, <2>1 DEF AnswersOf, GoodDown, Short, Two
    <3>2. First(sess, c) => sess.nbr = 0
      BY DEF First
    <3>3. Second(sess, c) => sess.nbr = 1
      BY DEF Second
    <3> QED BY <1>3, <2>2, <3>1, <3>2, <3>3 DEF Expects, OnlyAnswers
  <2>4. CASE ~mine
    <3>1. ctl' = ctl /\ up' = up
      BY <1>1, <2>4
    <3> QED BY <1>1, <1>2, <2>2, <3>1, ExpectsLess
  <2>5. CASE mine /\ ~First(sess, c)
    <3>1. ctl.at = "waiting"
      BY <2>1, <2>5, CtlFacts DEF RequestsInv
    <3>2. m.last
      BY <2>3, <2>5 DEF Good
    <3> QED BY <1>1, <2>1, <2>3, <2>5, <3>1, <3>2
  <2>6. CASE mine /\ First(sess, c)
    <3>1. ctl.at = "waiting"
      BY <2>1, <2>6, CtlFacts DEF RequestsInv
    <3>2. ctl.next = 0 \/ ctl.next = 1
      BY <2>1 DEF AnswersOf, Got, Short, Two
    <3>3. ctl'.next = 1
      BY <1>1, <2>3, <2>6, <3>1, <3>2
    <3>4. AllUp(c.seq)'
      <4>1. CASE up' = up
        BY <2>2, <4>1 DEF Expects, AllUp
      <4>2. CASE up' = Sent(up, a) /\ a \in UpType
        BY <1>4, <2>2, <2>6, <4>2, UpPut DEF RequestsInv, Expects
      <4> QED BY <1>1, <4>1, <4>2
    <3>5. OnlyAnswers(c.seq, 0)
      <4>1. ~(First(sess, c) /\ Second(sess, c))
        BY DEF First, Second
      <4> QED BY <2>2, <2>6, <4>1 DEF Expects
    <3>6. OnlyAnswers(c.seq, 0)'
      BY <1>1, <3>5, DownTaken DEF RequestsInv
    <3> QED BY <1>2, <2>2, <2>6, <3>3, <3>4, <3>6 DEF Expects
  <2> QED BY <2>4, <2>5, <2>6
<1> QED BY <1>2, <1>5, <1>6 DEF ResentOf

LEMMA NextResent ==
    ASSUME RequestsInv, AnswersInv, ResentInv, [FragmentsNext]_fvars
    PROVE  ResentInv'
<1>1. CASE UNCHANGED fvars
  <2>1. ResentOf(ctl.call)' <=> ResentOf(ctl.call)
    BY <1>1 DEF fvars, ResentOf, Lone, NoneUp, OneUp, NoneDown, OneDown, UpToken, Lacking, Expects,
                AllUp, OnlyAnswers, AckUp
  <2> QED BY <1>1, <2>1 DEF ResentInv, fvars
<1>2. CASE FragmentsNext
  <2>1. CASE \E r \in Calls, q \in Seqs : Ask(r, q)
    <3>1. PICK c \in CallType : ctl'.call = c /\ ResentOf(c)'
      BY <2>1, AskResent
    <3> QED BY <3>1 DEF ResentInv
  <2>2. CASE Device \/ Repeat \/ Ping \/ GetAck \/ GetAnswer \/ Lose
    <3>1. ctl'.call = ctl.call
      BY <2>2, SameCall
    <3> SUFFICES ASSUME ctl.call # Nil PROVE ResentInv'
      BY <3>1 DEF ResentInv
    <3>2. PICK c \in CallType : ctl.call = c
      BY CtlFacts DEF RequestsInv
    <3>3. ResentOf(c) /\ (Short(c) => AnswersOf(c))
      BY <3>2 DEF AnswersInv, ResentInv
    <3>4. ResentOf(c)'
      <4>1. CASE Device
        BY <3>2, <3>3, <4>1, TakePartResent, TakeWholeResent, TakeAckResent, DisturbedResent,
           TimeoutResent DEF Device
      <4>2. CASE Repeat \/ Ping \/ GetAck \/ GetAnswer \/ Lose
        BY <3>2, <3>3, <4>2, RepeatResent, PingResent, GetAckResent, GetAnswerResent, LoseResent
      <4> QED BY <2>2, <4>1, <4>2
    <3> QED BY <3>1, <3>2, <3>4 DEF ResentInv
  <2> QED BY <1>2, <2>1, <2>2 DEF FragmentsNext, Controller
<1> QED BY <1>1, <1>2

\* When nothing is under way, and the controller lacks a frame of the answer to
\* the request that was carried out, pf_cmrpc_send_with_timeout is scheduled and
\* will send it again: no loss of a frame or of an acknowledgement, at any
\* moment, leaves both sides waiting for each other.  As long as the controller
\* repeats itself only when nothing is under way, sends no ping, and the session
\* is neither ended by its AR nor by a Read Implicit.
THEOREM AnswersSentAgain == FragmentsSpec => []AnswersResent
<1> DEFINE Inv == RequestsInv /\ AnswersInv /\ ResentInv
<1>1. FragmentsInit => Inv
  <2> SUFFICES ASSUME FragmentsInit PROVE Inv
    OBVIOUS
  <2>1. ctl.call = Nil
    BY DEF FragmentsInit
  <2> QED BY <2>1, InitRequests DEF AnswersInv, ResentInv
<1>2. Inv /\ [FragmentsNext]_fvars => Inv'
  BY NextRequests, NextAnswers, NextResent
<1>3. Inv => AnswersResent
  <2> SUFFICES ASSUME Inv, ctl.at = "waiting", ran = Request(ctl.call), Two(ctl.call),
                      ~ctl.call.req.once, ~disturbed, ~fallen
               PROVE  sess # Nil /\ sess.timer
    BY DEF AnswersResent, Two
  <2>1. ctl.call # Nil
    BY CtlFacts DEF RequestsInv
  <2>2. Lacking(ctl.call)
    BY DEF Lacking
  <2> QED BY <2>1, <2>2 DEF ResentInv, ResentOf, Expects
<1> HIDE DEF Inv
<1> QED BY <1>1, <1>2, <1>3, PTL DEF FragmentsSpec
=============================================================================
