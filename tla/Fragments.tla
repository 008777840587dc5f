----------------------------- MODULE Fragments -----------------------------
(***************************************************************************)
(* Requests and answers that do not fit into one UDP frame: how            *)
(* pf_cmrpc_dce_packet puts a request together in the session's in_buffer, *)
(* and sends an answer from its out_buffer, one fragment at a time, each   *)
(* acknowledged by the controller and sent again when it is not.           *)
(*                                                                         *)
(* There is one activity of a controller, on the session of an AR or on    *)
(* one of its own.  What a request does is Connection's matter; here it is *)
(* the bytes that the handler of the request reads, and how long an answer *)
(* it writes.  Sending succeeds, and the resend timer can be had.          *)
(***************************************************************************)
EXTENDS Naturals, Sequences

CONSTANTS
    Calls,        \* [frags, size, once]: of so many fragments, for an answer
                  \* of so many bytes; is it a Read Implicit?
    Seqs,         \* sequence numbers of requests
    PayloadMax,   \* PF_MAX_UDP_PAYLOAD_SIZE
    Header,       \* bytes of an RPC header
    InMax,        \* fragments that fit into in_buffer
    OutMax,       \* bytes of out_buffer
    Resends,      \* PF_CMRPC_NUMBER_OF_RESENDS
    LinkMax,      \* bound: messages under way in a direction
    Nil

\* A call is a request with its sequence number; <<call, j>> is its byte j, or
\* the byte j of the answer to it.
CallType == [seq : Seqs, req : Calls]
ByteType == CallType \X (Nat \ {0})
OutByte == ByteType \cup {"header", "unused"}
HeadType == [seq : Seqs, frag : BOOLEAN, nbr : Nat, last : BOOLEAN]
SessionType ==
    [ar : BOOLEAN, in : Seq(ByteType), inNbr : Nat, out : [1..OutMax -> OutByte],
     head : HeadType \cup {Nil}, len : 0..OutMax, sentPos : Nat, sendLen : 0..OutMax,
     nbr : Nat, timer : BOOLEAN, left : 0..(Resends - 1)]

ASSUME FragmentsAssumption ==
    /\ {PayloadMax, Header, InMax, OutMax, Resends, LinkMax} \subseteq Nat \ {0}
    /\ Header < PayloadMax /\ PayloadMax <= OutMax
    /\ \A r \in Calls : /\ r.frags \in Nat \ {0} /\ r.once \in BOOLEAN
                           /\ r.size \in 1..(OutMax - Header)
    /\ Nil \notin CallType \cup HeadType \cup SessionType

VARIABLES
    sess,        \* the session of the activity, or Nil
    up, down,    \* the frames to the device and to the controller
    ctl,         \* external: the controller
                 \* since the last Ask:
    ran,         \* the request that was carried out last, as it was read
    disturbed,   \* did somebody not wait until an answer was due, was there a
                 \* ping, did the session end?
    fallen       \* the stack has followed a null p_ar

fvars == <<sess, up, down, ctl, ran, disturbed, fallen>>

Bytes(call, n) == [j \in 1..n |-> <<call, j>>]
Request(call) == Bytes(call, call.req.frags)
Answer(call) == Bytes(call, call.req.size)

(***************************************************************************)
(* The session.                                                            *)
(***************************************************************************)
Empty == [i \in 1..OutMax |-> "unused"]
\* `head' is the RPC header at the start of out_buffer.
NewSession == [ar |-> FALSE, in |-> <<>>, inNbr |-> 0,
               out |-> Empty, head |-> Nil, len |-> 0, sentPos |-> 0, sendLen |-> 0, nbr |-> 0,
               timer |-> FALSE, left |-> 0]

\* What arrives is taken by the session of the activity, or by a new one.
Session == IF sess = Nil THEN NewSession ELSE sess

Mut_Begun(s) == [s EXCEPT !.inNbr = 0]
\* A new request: in_buffer, and out_buffer, are cleared.
Begun(s) == [s EXCEPT !.in = <<>>, !.inNbr = 0]
Cleared(s) == [s EXCEPT !.len = 0, !.sentPos = 0, !.sendLen = 0, !.nbr = 0]

\* A fragment of a request is copied if it is the next one and fits.
InTurn(s, m) == s.inNbr = m.nbr /\ Len(s.in) < InMax
Copied(s, m) == IF InTurn(s, m) THEN [s EXCEPT !.in = Append(@, m.byte), !.inNbr = @ + 1] ELSE s
Gathered(s, m) == Copied(IF m.nbr = 0 THEN Begun(s) ELSE s, m)

\* What the handler of the request reads: with an error, only this frame.
Read(s, m) ==
    IF ~m.frag THEN <<m.byte>>
    ELSE LET b == IF m.nbr = 0 THEN Begun(s) ELSE s
         IN  IF InTurn(b, m) THEN Copied(b, m).in ELSE <<m.byte>>
\* It is carried out if it starts like a request and is as long as it says.
Parses(bytes) == bytes[1][2] = 1 /\ Len(bytes) = bytes[1][1].req.frags

\* The frame in out_buffer.
Packet(s) == [kind |-> "answer", seq |-> s.head.seq, frag |-> s.head.frag, nbr |-> s.head.nbr,
             last |-> s.head.last, body |-> SubSeq(s.out, Header + 1, s.sendLen)]
\* pf_cmrpc_send_with_timeout
Timed(s) == [s EXCEPT !.timer = TRUE, !.left = Resends - 1]

\* The answer of `body' is written behind its header; more than a frame of it
\* is sent as the first fragment.
Answered(s, seq, body) ==
    LET total == Header + Len(body)
        split == total >= PayloadMax
        t == [Cleared(s) EXCEPT
                !.out = [i \in 1..OutMax |-> IF i <= Header THEN "header"
                                             ELSE IF i <= total THEN body[i - Header] ELSE "unused"],
                !.head = [seq |-> seq, frag |-> split, nbr |-> 0, last |-> FALSE],
                !.len = total, !.sendLen = IF split THEN PayloadMax ELSE total]
    IN  IF split THEN Timed(t) ELSE t

\* The next fragment is moved behind the header, at the start of out_buffer.
Moved(out, from, n) ==
    [i \in 1..OutMax |-> IF i \in (Header + 1)..(Header + n) THEN out[from + i - Header] ELSE out[i]]
Mut_NextFragment(s, seq) ==
    LET rest == s.len - s.sentPos
        last == rest < PayloadMax - Header
        n == IF last THEN rest ELSE PayloadMax - Header
    IN  Timed([s EXCEPT !.out = Moved(@, s.sentPos + Header, n),
                        !.head = [seq |-> seq, frag |-> TRUE, nbr |-> s.nbr, last |-> last],
                        !.sendLen = n + Header])
NextFragment(s, seq) ==
    LET rest == s.len - s.sentPos
        last == rest < PayloadMax - Header
        n == IF last THEN rest ELSE PayloadMax - Header
    IN  Timed([s EXCEPT !.out = Moved(@, s.sentPos, n),
                        !.head = [seq |-> seq, frag |-> TRUE, nbr |-> s.nbr, last |-> last],
                        !.sendLen = n + Header])

(***************************************************************************)
(* The link: frames keep their order and may be lost.                      *)
(***************************************************************************)
Sent(link, m) == IF Len(link) < LinkMax THEN Append(link, m) ELSE link
Lose ==
    /\ \/ up # <<>> /\ up' = Tail(up) /\ UNCHANGED down
       \/ down # <<>> /\ down' = Tail(down) /\ UNCHANGED up
    /\ UNCHANGED <<sess, ctl, ran, disturbed, fallen>>

FragmentsInit ==
    /\ sess \in {Nil, [NewSession EXCEPT !.ar = TRUE]}
    /\ up = <<>> /\ down = <<>>
    /\ ctl = [at |-> "idle", call |-> Nil, part |-> 0, got |-> <<>>, next |-> 0]
    /\ ran = <<>> /\ disturbed = FALSE /\ fallen = FALSE

(***************************************************************************)
(* The device: pf_cmrpc_dce_packet, and the resend timer.                  *)
(***************************************************************************)
Arrived(kind) == up # <<>> /\ Head(up).kind = kind
Part == Arrived("request") /\ Head(up).frag /\ ~Head(up).last
Whole == Arrived("request") /\ (Head(up).frag => Head(up).last)
\* A later fragment does not name the session that is allocated for it: none
\* finds that one again.
Named(m) == sess # Nil \/ ~m.frag \/ m.nbr = 0
Stopped(s) == [s EXCEPT !.timer = FALSE]

\* A fragment that is not the last is acknowledged, right or wrong.
TakePart ==
    /\ Part
    /\ LET m == Head(up)
       IN  /\ sess' = IF Named(m) THEN Stopped(Gathered(Session, m)) ELSE sess
           /\ down' = Sent(down, [kind |-> "ack", seq |-> m.seq, nbr |-> m.nbr])
           /\ ran' = <<>>
    /\ up' = Tail(up)
    /\ UNCHANGED <<ctl, disturbed, fallen>>
\* The request is complete, and answered; with an empty answer if it is not in
\* order.  pf_cmrpc_rpc_request ends the session of a Read Implicit.
TakeWhole ==
    /\ Whole
    /\ LET m == Head(up)
           bytes == Read(Session, m)
           body == IF Parses(bytes) THEN Answer(bytes[1][1]) ELSE <<>>
           s == IF m.frag THEN Gathered(Session, m) ELSE Begun(Session)
           t == Answered(Stopped(s), m.seq, body)
       IN  /\ sess' = IF ~Named(m) THEN sess ELSE IF m.byte[1].req.once THEN Nil ELSE t
           /\ down' = Sent(down, Packet(t))
           /\ ran' = IF Parses(bytes) THEN bytes ELSE <<>>
    /\ up' = Tail(up)
    /\ UNCHANGED <<ctl, disturbed, fallen>>
Mut_TakeAck ==
    /\ Arrived("ack")
    /\ LET s == Begun(Session)
           t == [s EXCEPT !.sentPos = @ + s.sendLen, !.nbr = @ + 1]
           more == t.len > t.sentPos
           u == IF more THEN NextFragment(t, Head(up).seq) ELSE Cleared(t)
       IN  /\ sess' = Stopped(u)
           /\ down' = IF more THEN Sent(down, Packet(u)) ELSE down
    /\ up' = Tail(up)
    /\ UNCHANGED <<ctl, ran, disturbed, fallen>>
\* The number of the fragment that is acknowledged is not looked at.
TakeAck ==
    /\ Arrived("ack")
    /\ LET s == Stopped(Begun(Session))
           t == [s EXCEPT !.sentPos = @ + s.sendLen, !.nbr = @ + 1]
           more == t.len > t.sentPos
           u == IF more THEN NextFragment(t, Head(up).seq) ELSE Cleared(t)
       IN  /\ sess' = u
           /\ down' = IF more THEN Sent(down, Packet(u)) ELSE down
    /\ up' = Tail(up)
    /\ UNCHANGED <<ctl, ran, disturbed, fallen>>
\* The reply to a ping is left out.
TakePing ==
    /\ Arrived("ping")
    /\ sess' = IF sess = Nil THEN Nil ELSE Cleared(Stopped(Begun(sess)))
    /\ up' = Tail(up)
    /\ disturbed' = TRUE
    /\ UNCHANGED <<down, ctl, ran, fallen>>

\* pf_cmrpc_send_with_timeout, by its timer: the last time the AR is aborted,
\* and its session released; without an AR its null pointer is followed.
Silent == up = <<>> /\ down = <<>>
Timeout ==
    /\ sess # Nil /\ sess.timer
    /\ \/ /\ sess.left > 0
          /\ sess' = [sess EXCEPT !.left = @ - 1]
          /\ down' = Sent(down, Packet(sess))
          /\ UNCHANGED fallen
       \/ /\ sess.left = 0
          /\ sess' = IF sess.ar THEN Nil ELSE Stopped(sess)
          /\ fallen' = ~sess.ar
          /\ UNCHANGED down
    /\ disturbed' = (disturbed \/ ~Silent \/ sess' = Nil)
    /\ UNCHANGED <<up, ctl, ran>>
\* The AR ends for another reason (pf_cmrpc_cmdev_state_ind).
ArEnds ==
    /\ sess # Nil /\ sess.ar /\ sess' = Nil /\ disturbed' = TRUE
    /\ UNCHANGED <<up, down, ctl, ran, fallen>>

(***************************************************************************)
(* The controller: a request at a time, each of its fragments until it is  *)
(* acknowledged.  It acknowledges every fragment of the answer, begins     *)
(* again when it does not get on, and may give a request up.               *)
(***************************************************************************)
Fragment(call, j) ==
    [kind |-> "request", seq |-> call.seq, byte |-> <<call, j + 1>>,
     frag |-> call.req.frags > 1, nbr |-> j, last |-> j + 1 = call.req.frags]
\* `c' is the controller that sends the fragment j of its call.
SendPart(c, j) ==
    /\ ctl' = [c EXCEPT !.at = IF j + 1 = c.call.req.frags THEN "waiting" ELSE "sending",
                        !.part = j]
    /\ up' = Sent(up, Fragment(c.call, j))
\* A sequence number is used again when nothing is left of its last call.
Unused(q) ==
    /\ ctl.call # Nil => ctl.call.seq # q
    /\ sess # Nil /\ sess.timer => sess.head.seq # q
    /\ \A i \in 1..Len(up) : up[i].seq # q
    /\ \A i \in 1..Len(down) : down[i].seq # q
Ask(r, q) ==
    /\ Unused(q)
    /\ SendPart([ctl EXCEPT !.call = [seq |-> q, req |-> r], !.got = <<>>, !.next = 0], 0)
    /\ ran' = <<>> /\ disturbed' = FALSE
    /\ UNCHANGED <<sess, down, fallen>>
Repeat ==
    /\ ctl.at # "idle"
    /\ SendPart(ctl, IF ctl.at = "sending" THEN ctl.part ELSE 0)
    /\ disturbed' = (disturbed \/ ~Silent)
    /\ UNCHANGED <<sess, down, ran, fallen>>
Ping ==
    /\ ctl.at = "waiting"
    /\ up' = Sent(up, [kind |-> "ping", seq |-> ctl.call.seq])
    /\ UNCHANGED <<sess, down, ctl, ran, disturbed, fallen>>
GetAck ==
    /\ down # <<>> /\ Head(down).kind = "ack"
    /\ IF ctl.at = "sending" /\ Head(down).seq = ctl.call.seq /\ Head(down).nbr = ctl.part
       THEN SendPart(ctl, ctl.part + 1)
       ELSE UNCHANGED <<ctl, up>>
    /\ down' = Tail(down)
    /\ UNCHANGED <<sess, ran, disturbed, fallen>>
GetAnswer ==
    /\ down # <<>> /\ Head(down).kind = "answer"
    /\ LET m == Head(down)
           mine == ctl.at # "sending" /\ m.seq = ctl.call.seq
           new == ctl.at = "waiting" /\ m.nbr = ctl.next
       IN  /\ ctl' = IF ~(mine /\ new) THEN ctl
                     ELSE [ctl EXCEPT !.got = @ \o m.body, !.next = @ + 1,
                                      !.at = IF m.frag /\ ~m.last THEN @ ELSE "idle"]
           /\ up' = IF mine /\ m.frag THEN Sent(up, [kind |-> "ack", seq |-> m.seq]) ELSE up
    /\ down' = Tail(down)
    /\ UNCHANGED <<sess, ran, disturbed, fallen>>

Controller ==
    \/ \E r \in Calls, q \in Seqs : Ask(r, q)
    \/ Repeat \/ Ping \/ GetAck \/ GetAnswer
Device == TakePart \/ TakeWhole \/ TakeAck \/ TakePing \/ Timeout \/ ArEnds
FragmentsNext == ~fallen /\ (Device \/ Controller \/ Lose)
FragmentsSpec == FragmentsInit /\ [][FragmentsNext]_fvars

(***************************************************************************)
(* Properties                                                              *)
(***************************************************************************)
\* A request is carried out only as the controller sent it: never with the
\* fragments of another one, with one missing or twice, whatever is lost,
\* repeated and given up (pf_cmrpc_dce_packet, in_fragment_nbr).
RequestsWhole == ran # <<>> => ran = Request(ran[1][1])

\* An answer of one fragment, or of two of which the second is not full.
OneFrame(size) == Header + size < PayloadMax
TwoFrames(size) == Header + size \in (PayloadMax + 1)..(2 * PayloadMax - Header - 1)

\* What the controller has got to the last fragment is the answer to its
\* request, or says that it was refused; longer answers are another matter
\* (AnswersComplete).  Nothing of an earlier answer in out_buffer is in it.
AnswersWhole ==
    ctl.at = "idle" /\ ctl.got # <<>> /\ (OneFrame(ctl.call.req.size) \/ TwoFrames(ctl.call.req.size))
       => ctl.got = Answer(ctl.call)

\* "Fragmented respones from us (with ack) are supposed to be re-transmitted":
\* when nothing is under way, and the controller lacks a fragment of the answer
\* to what was carried out, the fragment will be sent again; unless a Read
\* Implicit or the AR ended the session, a ping the answer, or a fragment was
\* sent again too early, so that it was acknowledged twice.
AnswersResent ==
    Silent /\ ctl.at = "waiting" /\ ran = Request(ctl.call)
      /\ TwoFrames(ctl.call.req.size) /\ ~ctl.call.req.once /\ ~disturbed /\ ~fallen
       => sess # Nil /\ sess.timer

\* An answer that the controller has got to the last fragment is all of it: the
\* session counts "how much the controller has received (ack'ed)".
AnswersComplete == ctl.at = "idle" /\ ctl.got # <<>> => ctl.got = Answer(ctl.call)
=============================================================================
