-------------------------- MODULE SchedulerProofs --------------------------
(***************************************************************************)
(* The timer pool loses no slot and the handles of the main thread tell    *)
(* the truth, for every number of slots, timers and threads, as long as    *)
(* the other threads only add timers (Discipline).                         *)
(*                                                                         *)
(* SlotPartition is not inductive alone: pf_scheduler_remove decides by    *)
(* name and in_use that the slot in the handle is linked, and that is so   *)
(* only because the handle names a slot that was scheduled for it          *)
(* (HandleTruth), which in turn rests on what AddsOwnSlot says of calls in  *)
(* progress.                                                               *)
(***************************************************************************)
EXTENDS Scheduler, SequenceTheorems, WellFoundedInduction, TLAPS

(***************************************************************************)
(* Lists without repetitions: what taking an entry off a list, or putting  *)
(* one in, does to the set of its entries.  The queues of the pool are     *)
(* sequences of slot numbers.                                              *)
(***************************************************************************)
\* A set of natural numbers that is not empty has a least element.
LEMMA LeastNatural ==
  ASSUME NEW S \in SUBSET Nat, S # {}
  PROVE  \E k \in S : \A j \in S : k <= j
<1>1. PICK k \in S : \A j \in S : ~(<<j, k>> \in OpToRel(<, Nat))
  BY NatLessThanWellFounded, WFMin
<1>2. ASSUME NEW j \in S, j < k PROVE FALSE
  <2>1. <<j, k>> \in Nat \X Nat /\ <<j, k>>[1] = j /\ <<j, k>>[2] = k
    OBVIOUS
  <2>2. <<j, k>> \in {ss \in Nat \X Nat : ss[1] < ss[2]}
    BY <1>2, <2>1
  <2>. QED BY <1>1, <2>2 DEF OpToRel
<1>3. \A j \in S : k <= j
  BY <1>2
<1>. QED BY <1>3

\* Taking the head off a list without repetitions.
LEMMA TailList ==
  ASSUME NEW S, NEW s \in Seq(S), s # << >>, IsInjective(s)
  PROVE  /\ Head(s) \in Range(s) /\ Head(s) \in S
         /\ Tail(s) \in Seq(S)
         /\ IsInjective(Tail(s))
         /\ Range(Tail(s)) = Range(s) \ {Head(s)}
<1>. DEFINE t == Tail(s)
<1>1. /\ t \in Seq(S) /\ Len(t) = Len(s) - 1
      /\ \A i \in 1 .. Len(t) : t[i] = s[i + 1]
      /\ Head(s) = s[1] /\ Len(s) \in Nat /\ Len(s) >= 1
      /\ DOMAIN t = 1 .. Len(t) /\ DOMAIN s = 1 .. Len(s)
  BY HeadTailProperties, EmptySeq, LenProperties
<1>. HIDE DEF t
<1>2. IsInjective(t)
  BY SMTT(30), <1>1 DEF IsInjective
<1>3. Range(t) = Range(s) \ {s[1]}
  <2>1. \A x \in Range(t) : x \in Range(s) /\ x # s[1]
    BY SMTT(30), <1>1 DEF IsInjective, Range
  <2>2. ASSUME NEW k \in 1 .. Len(s), s[k] # s[1] PROVE s[k] \in Range(t)
    <3>1. k - 1 \in 1 .. Len(t) /\ t[k - 1] = s[k]
      BY <1>1, <2>2
    <3>. QED BY <3>1, <1>1 DEF Range
  <2>3. \A x \in Range(s) : x # s[1] => x \in Range(t)
    BY <2>2, <1>1 DEF Range
  <2>. QED BY <2>1, <2>3
<1>4. s[1] \in Range(s) /\ s[1] \in S
  BY <1>1, ElementOfSeq DEF Range
<1>. QED BY <1>1, <1>2, <1>3, <1>4 DEF t

\* Putting an entry in front of a list that does not have it.
LEMMA LinkFirstList ==
  ASSUME NEW S, NEW s \in Seq(S), NEW e \in S, IsInjective(s), e \notin Range(s)
  PROVE  /\ <<e>> \o s \in Seq(S)
         /\ IsInjective(<<e>> \o s)
         /\ Range(<<e>> \o s) = Range(s) \cup {e}
<1>. DEFINE t == <<e>> \o s
<1>1. /\ t \in Seq(S) /\ Len(t) = Len(s) + 1 /\ Len(s) \in Nat
      /\ DOMAIN t = 1 .. Len(t) /\ DOMAIN s = 1 .. Len(s)
      /\ \A i \in 1 .. Len(t) : t[i] = IF i = 1 THEN e ELSE s[i - 1]
  BY ConcatProperties, LenProperties
<1>. HIDE DEF t
<1>2. Range(t) = Range(s) \cup {e}
  <2>1. \A i \in 1 .. Len(t) : t[i] \in Range(s) \cup {e}
    BY <1>1 DEF Range
  <2>2. 1 \in 1 .. Len(t) /\ t[1] = e
    BY <1>1
  <2>3. \A i \in 1 .. Len(s) : i + 1 \in 1 .. Len(t) /\ t[i + 1] = s[i]
    BY <1>1
  <2>. QED BY SMTT(30), <1>1, <2>1, <2>2, <2>3 DEF Range
<1>3. IsInjective(t)
  <2>. SUFFICES ASSUME NEW i \in 1 .. Len(t), NEW j \in 1 .. Len(t), t[i] = t[j]
                PROVE  i = j
    BY <1>1 DEF IsInjective
  <2>1. \A k \in 1 .. Len(s) : s[k] # e
    BY <1>1 DEF Range
  <2>2. CASE i = 1
    BY <1>1, <2>1, <2>2
  <2>3. CASE j = 1
    BY <1>1, <2>1, <2>3
  <2>4. CASE i # 1 /\ j # 1
    BY SMTT(30), <1>1, <2>4 DEF IsInjective
  <2>. QED BY <2>2, <2>3, <2>4
<1>. QED BY <1>1, <1>2, <1>3 DEF t

\* What is where after an insertion.
LEMMA InsertItems ==
  ASSUME NEW S, NEW s \in Seq(S), NEW e \in S, NEW k \in 1 .. Len(s) + 1
  PROVE  /\ InsertAt(s, k, e) \in Seq(S) /\ Len(InsertAt(s, k, e)) = Len(s) + 1
         /\ DOMAIN InsertAt(s, k, e) = 1 .. Len(s) + 1
         /\ \A i \in 1 .. Len(s) + 1 :
              InsertAt(s, k, e)[i] = IF i < k THEN s[i] ELSE IF i = k THEN e ELSE s[i - 1]
<1>. DEFINE a == SubSeq(s, 1, k - 1)
            b == SubSeq(s, k, Len(s))
            t == (a \o <<e>>) \o b
<1>1. /\ Len(s) \in Nat /\ DOMAIN s = 1 .. Len(s)
      /\ \A i \in 1 .. Len(s) : s[i] \in S
  BY LenProperties, ElementOfSeq
<1>2. /\ a \in Seq(S) /\ Len(a) = k - 1
      /\ \A i \in 1 .. k - 1 : a[i] = s[i]
  BY <1>1, SubSeqProperties
<1>3. /\ b \in Seq(S) /\ Len(b) = Len(s) - k + 1
      /\ \A i \in 1 .. Len(s) - k + 1 : b[i] = s[k + i - 1]
  <2>1. \A i \in k .. Len(s) : s[i] \in S
    BY <1>1
  <2>2. k \in Int /\ Len(s) \in Int
    BY <1>1
  <2>. QED BY <1>1, <2>1, <2>2, SubSeqProperties
<1>4. <<e>> \in Seq(S) /\ Len(<<e>>) = 1 /\ <<e>>[1] = e
  OBVIOUS
<1>5. /\ a \o <<e>> \in Seq(S) /\ Len(a \o <<e>>) = k
      /\ \A i \in 1 .. k : (a \o <<e>>)[i] = IF i < k THEN s[i] ELSE e
  <2>. HIDE DEF a
  <2>. QED BY <1>2, <1>4, ConcatProperties
<1>6. /\ t \in Seq(S) /\ Len(t) = Len(s) + 1 /\ DOMAIN t = 1 .. Len(s) + 1
      /\ \A i \in 1 .. Len(s) + 1 :
           t[i] = IF i < k THEN s[i] ELSE IF i = k THEN e ELSE s[i - 1]
  <2>. DEFINE c == a \o <<e>>
  <2>1. /\ c \in Seq(S) /\ Len(c) = k
        /\ \A i \in 1 .. k : c[i] = IF i < k THEN s[i] ELSE e
    BY <1>5
  <2>. HIDE DEF c, b
  <2>2. /\ c \o b \in Seq(S) /\ Len(c \o b) = Len(c) + Len(b)
        /\ \A i \in 1 .. Len(c) + Len(b) :
             (c \o b)[i] = IF i <= Len(c) THEN c[i] ELSE b[i - Len(c)]
    BY <1>3, <2>1, ConcatProperties
  <2>3. DOMAIN (c \o b) = 1 .. Len(s) + 1
    BY <1>1, <1>3, <2>1, <2>2, LenProperties
  <2>4. \A i \in 1 .. Len(s) + 1 :
           (c \o b)[i] = IF i < k THEN s[i] ELSE IF i = k THEN e ELSE s[i - 1]
    <3>. SUFFICES ASSUME NEW i \in 1 .. Len(s) + 1
                  PROVE  (c \o b)[i] = IF i < k THEN s[i]
                                       ELSE IF i = k THEN e ELSE s[i - 1]
      OBVIOUS
    <3>1. CASE i <= k
      BY <1>1, <1>3, <2>1, <2>2, <3>1
    <3>2. CASE i > k
      <4>1. (c \o b)[i] = b[i - k] /\ i - k \in 1 .. Len(s) - k + 1
        BY <1>1, <1>3, <2>1, <2>2, <3>2
      <4>2. k + (i - k) - 1 = i - 1
        BY <1>1, <3>2
      <4>3. b[i - k] = s[i - 1]
        BY <1>3, <4>1, <4>2
      <4>4. ~(i < k) /\ i # k
        BY <3>2
      <4>5. (IF i < k THEN s[i] ELSE IF i = k THEN e ELSE s[i - 1]) = s[i - 1]
        BY <4>4
      <4>6. (c \o b)[i] = s[i - 1]
        BY <4>1, <4>3
      <4>. QED BY <4>5, <4>6
    <3>3. i <= k \/ i > k
      BY <1>1
    <3>. QED BY <3>1, <3>2, <3>3
  <2>. QED BY <1>1, <1>3, <2>1, <2>2, <2>3, <2>4 DEF c
<1>. QED BY <1>6 DEF InsertAt

\* Putting an entry the list does not have at any place of it.
LEMMA InsertList ==
  ASSUME NEW S, NEW s \in Seq(S), NEW e \in S, IsInjective(s), e \notin Range(s),
         NEW k \in 1 .. Len(s) + 1
  PROVE  /\ InsertAt(s, k, e) \in Seq(S)
         /\ IsInjective(InsertAt(s, k, e))
         /\ Range(InsertAt(s, k, e)) = Range(s) \cup {e}
<1>. DEFINE t == InsertAt(s, k, e)
<1>1. /\ Len(s) \in Nat /\ DOMAIN s = 1 .. Len(s)
      /\ \A i \in 1 .. Len(s) : s[i] \in S
  BY LenProperties, ElementOfSeq
<1>6. /\ t \in Seq(S) /\ Len(t) = Len(s) + 1 /\ DOMAIN t = 1 .. Len(s) + 1
      /\ \A i \in 1 .. Len(s) + 1 :
           t[i] = IF i < k THEN s[i] ELSE IF i = k THEN e ELSE s[i - 1]
  BY InsertItems
<1>. HIDE DEF t
<1>7. \A i \in 1 .. Len(s) : s[i] # e
  BY <1>1 DEF Range
<1>8. IsInjective(t)
  <2>. SUFFICES ASSUME NEW i \in 1 .. Len(s) + 1, NEW j \in 1 .. Len(s) + 1, t[i] = t[j]
                PROVE  i = j
    BY <1>6 DEF IsInjective
  <2>1. CASE i = k \/ j = k
    BY SMTT(30), <1>1, <1>6, <1>7, <2>1
  <2>2. CASE i # k /\ j # k
    <3>. DEFINE old(m) == IF m < k THEN m ELSE m - 1
    <3>1. /\ old(i) \in 1 .. Len(s) /\ old(j) \in 1 .. Len(s)
          /\ t[i] = s[old(i)] /\ t[j] = s[old(j)]
      BY <1>1, <1>6, <2>2
    <3>2. old(i) = old(j)
      BY <1>1, <3>1 DEF IsInjective
    <3>. QED BY <1>1, <2>2, <3>2
  <2>. QED BY <2>1, <2>2
<1>9. Range(t) = Range(s) \cup {e}
  <2>1. \A i \in 1 .. Len(s) + 1 : t[i] \in Range(s) \cup {e}
    BY <1>1, <1>6 DEF Range
  <2>2. e \in Range(t)
    BY <1>1, <1>6 DEF Range
  <2>3. ASSUME NEW i \in 1 .. Len(s) PROVE s[i] \in Range(t)
    <3>. DEFINE new == IF i < k THEN i ELSE i + 1
    <3>1. new \in 1 .. Len(s) + 1 /\ t[new] = s[i]
      BY <1>1, <1>6
    <3>. QED BY <1>6, <3>1 DEF Range
  <2>. QED BY <1>1, <1>6, <2>1, <2>2, <2>3 DEF Range
<1>. QED BY <1>6, <1>8, <1>9 DEF t

\* What is where after a removal.
LEMMA RemoveItems ==
  ASSUME NEW S, NEW s \in Seq(S), NEW k \in 1 .. Len(s)
  PROVE  /\ RemoveAt(s, k) \in Seq(S) /\ Len(RemoveAt(s, k)) = Len(s) - 1
         /\ DOMAIN RemoveAt(s, k) = 1 .. Len(s) - 1
         /\ \A i \in 1 .. Len(s) - 1 :
              RemoveAt(s, k)[i] = IF i < k THEN s[i] ELSE s[i + 1]
<1>. DEFINE a == SubSeq(s, 1, k - 1)
            b == SubSeq(s, k + 1, Len(s))
            t == a \o b
<1>1. /\ Len(s) \in Nat /\ DOMAIN s = 1 .. Len(s)
      /\ \A i \in 1 .. Len(s) : s[i] \in S
  BY LenProperties, ElementOfSeq
<1>4. /\ a \in Seq(S) /\ Len(a) = k - 1
      /\ \A i \in 1 .. k - 1 : a[i] = s[i]
  BY <1>1, SubSeqProperties
<1>5. /\ b \in Seq(S) /\ Len(b) = Len(s) - k
      /\ \A i \in 1 .. Len(s) - k : b[i] = s[k + i]
  <2>1. k + 1 \in Int /\ Len(s) \in Int /\ k \in Nat /\ k <= Len(s)
    BY <1>1
  <2>2. \A i \in k + 1 .. Len(s) : s[i] \in S
    BY <1>1
  <2>3. b \in Seq(S) /\ Len(b) = IF k + 1 <= Len(s) THEN Len(s) - (k + 1) + 1 ELSE 0
    BY <2>1, <2>2, SubSeqProperties
  <2>4. \A i \in 1 .. Len(s) - (k + 1) + 1 : b[i] = s[(k + 1) + i - 1]
    BY <2>1, <2>2, SubSeqProperties
  <2>. HIDE DEF b
  <2>5. Len(b) = Len(s) - k
    BY <2>1, <2>3
  <2>6. ASSUME NEW i \in 1 .. Len(s) - k PROVE b[i] = s[k + i]
    <3>1. i \in 1 .. Len(s) - (k + 1) + 1 /\ (k + 1) + i - 1 = k + i
      BY <2>1
    <3>. QED BY <2>4, <3>1
  <2>. QED BY <2>3, <2>5, <2>6
<1>6. /\ t \in Seq(S) /\ Len(t) = Len(s) - 1 /\ DOMAIN t = 1 .. Len(s) - 1
      /\ \A i \in 1 .. Len(s) - 1 : t[i] = IF i < k THEN s[i] ELSE s[i + 1]
  <2>. HIDE DEF a, b
  <2>1. /\ t \in Seq(S) /\ Len(t) = Len(a) + Len(b)
        /\ \A i \in 1 .. Len(a) + Len(b) :
             t[i] = IF i <= Len(a) THEN a[i] ELSE b[i - Len(a)]
    BY <1>4, <1>5, ConcatProperties
  <2>. HIDE DEF t
  <2>2. Len(t) = Len(s) - 1
    BY <1>1, <1>4, <1>5, <2>1
  <2>3. DOMAIN t = 1 .. Len(s) - 1
    BY <2>1, <2>2, LenProperties
  <2>4. ASSUME NEW i \in 1 .. Len(s) - 1
        PROVE  t[i] = IF i < k THEN s[i] ELSE s[i + 1]
    <3>1. CASE i < k
      <4>1. i \in 1 .. k - 1 /\ i \in 1 .. Len(a) + Len(b) /\ i <= Len(a)
        BY <1>1, <1>4, <1>5, <3>1
      <4>2. t[i] = a[i]
        BY <2>1, <4>1
      <4>. QED BY <1>4, <3>1, <4>1, <4>2
    <3>2. CASE ~(i < k)
      <4>0. /\ i \in 1 .. Len(a) + Len(b) /\ ~(i <= Len(a))
            /\ i - Len(a) \in 1 .. Len(s) - k
        BY <1>1, <1>4, <1>5, <3>2
      <4>1. t[i] = b[i - Len(a)]
        BY <2>1, <4>0
      <4>2. k + (i - Len(a)) = i + 1
        BY <1>1, <1>4, <3>2
      <4>. QED BY <1>5, <3>2, <4>0, <4>1, <4>2
    <3>. QED BY <3>1, <3>2
  <2>. QED BY <2>1, <2>2, <2>3, <2>4
<1>. QED BY <1>6 DEF RemoveAt

\* Taking one entry out of a list without repetitions.
LEMMA UnlinkList ==
  ASSUME NEW S, NEW s \in Seq(S), NEW e, IsInjective(s), e \in Range(s)
  PROVE  /\ RemoveAt(s, CHOOSE i \in 1 .. Len(s) : s[i] = e) \in Seq(S)
         /\ IsInjective(RemoveAt(s, CHOOSE i \in 1 .. Len(s) : s[i] = e))
         /\ Range(RemoveAt(s, CHOOSE i \in 1 .. Len(s) : s[i] = e)) = Range(s) \ {e}
<1>. DEFINE k == CHOOSE i \in 1 .. Len(s) : s[i] = e
            t == RemoveAt(s, k)
<1>1. /\ Len(s) \in Nat /\ DOMAIN s = 1 .. Len(s)
      /\ \A i \in 1 .. Len(s) : s[i] \in S
  BY LenProperties, ElementOfSeq
<1>2. k \in 1 .. Len(s) /\ s[k] = e
  BY <1>1 DEF Range
<1>3. RemoveAt(s, CHOOSE i \in 1 .. Len(s) : s[i] = e) = t
  OBVIOUS
<1>. HIDE DEF k
<1>6. /\ t \in Seq(S) /\ Len(t) = Len(s) - 1 /\ DOMAIN t = 1 .. Len(s) - 1
      /\ \A i \in 1 .. Len(s) - 1 : t[i] = IF i < k THEN s[i] ELSE s[i + 1]
  BY <1>2, RemoveItems
<1>. HIDE DEF t
<1>. DEFINE old(m) == IF m < k THEN m ELSE m + 1
<1>7. \A i \in 1 .. Len(s) - 1 :
        old(i) \in 1 .. Len(s) /\ old(i) # k /\ t[i] = s[old(i)]
  BY <1>1, <1>2, <1>6
<1>8. IsInjective(t)
  <2>. SUFFICES ASSUME NEW i \in 1 .. Len(s) - 1, NEW j \in 1 .. Len(s) - 1, t[i] = t[j]
                PROVE  i = j
    BY <1>6 DEF IsInjective
  <2>1. old(i) = old(j)
    BY <1>1, <1>7 DEF IsInjective
  <2>. QED BY <1>1, <1>2, <2>1
<1>9. Range(t) = Range(s) \ {e}
  <2>1. \A i \in 1 .. Len(s) - 1 : t[i] \in Range(s) \ {e}
    BY SMTT(30), <1>1, <1>2, <1>7 DEF Range, IsInjective
  <2>2. ASSUME NEW i \in 1 .. Len(s), s[i] # e PROVE s[i] \in Range(t)
    <3>. DEFINE new == IF i < k THEN i ELSE i - 1
    <3>1. new \in 1 .. Len(s) - 1 /\ t[new] = s[i]
      BY <1>1, <1>2, <1>6, <2>2
    <3>. QED BY <1>6, <3>1 DEF Range
  <2>. QED BY <1>1, <1>6, <2>1, <2>2 DEF Range
<1>. QED BY <1>3, <1>6, <1>8, <1>9

(***************************************************************************)
(* The pool.                                                               *)
(***************************************************************************)

USE SchedulerAssumption, ClockAssumption

\* The busy list takes a new slot at one of its Len(busy) + 1 places.
LEMMA InsertPosType ==
  ASSUME busy \in Seq(Slots), NEW ix
  PROVE  InsertPos(ix) \in 1 .. Len(busy) + 1
<1>. DEFINE later == {k \in 1 .. Len(busy) : Diff(slot[ix].due, slot[busy[k]].due) <= 0}
<1>1. Len(busy) \in Nat
  BY LenProperties
<1>2. later \subseteq 1 .. Len(busy) /\ later \in SUBSET Nat
  BY <1>1
<1>3. InsertPos(ix) = IF later = {} THEN Len(busy) + 1
                      ELSE CHOOSE k \in later : \A j \in later : k <= j
  BY DEF InsertPos
<1>. HIDE DEF later
<1>4. CASE later = {}
  BY <1>1, <1>3, <1>4
<1>5. CASE later # {}
  <2>1. \E k \in later : \A j \in later : k <= j
    BY <1>2, <1>5, LeastNatural
  <2>2. InsertPos(ix) \in later
    BY <1>3, <1>5, <2>1
  <2>3. InsertPos(ix) \in 1 .. Len(busy)
    BY <1>2, <2>2
  <2>. QED BY <1>1, <2>3
<1>. QED BY <1>4, <1>5

\* The linked slots are slots, and none of them is the stopped value.
LEMMA BusySlots ==
  ASSUME IInv
  PROVE  Range(busy) \subseteq Slots /\ Range(free) \subseteq Slots /\ Stopped \notin Slots
BY RangeOfSeq DEF IInv, TypeOK, Slots, Stopped, Range

LEMMA InitInv == Init => IInv
<1>. SUFFICES ASSUME Init PROVE IInv
  OBVIOUS
<1>1. /\ free \in Seq(Slots) /\ Range(free) = Slots /\ IsInjective(free)
      /\ busy \in Seq(Slots) /\ Range(busy) = {} /\ IsInjective(busy)
  BY DEF Init, Slots, Range, IsInjective
<1>2. TypeOK
  BY <1>1 DEF Init, TypeOK, Slot, Context, Idle, Stopped, Slots
<1>3. Holding = {} /\ SlotPartition
  BY <1>1 DEF Init, SlotPartition, Holding, HeldSlots, Idle, Stopped
<1>4. HandleTruth
  BY <1>1 DEF Init, HandleTruth, TellsTruth, Stopped
<1>5. AddsOwnSlot
  BY <1>1, <1>3 DEF Init, AddsOwnSlot, Idle
<1>. QED BY <1>2, <1>3, <1>4, <1>5 DEF IInv

\* A step that changes neither the lists nor the slots nor who holds what
\* keeps the partition.
LEMMA SamePartition ==
  ASSUME IInv, UNCHANGED <<free, busy>>, Holding' = Holding,
         \A u \in Holding : ctx'[u].ix = ctx[u].ix,
         \A i \in Slots : slot'[i].in_use = slot[i].in_use
  PROVE  SlotPartition' /\ HeldSlots' = HeldSlots
<1>1. HeldSlots' = HeldSlots
  BY DEF HeldSlots
<1>. QED BY <1>1, BusySlots DEF IInv, SlotPartition

\* A thread that moves on inside pf_scheduler_add without linking or filling.
LEMMA SameTruth ==
  ASSUME IInv, UNCHANGED <<busy, handle, call>>,
         \A i \in Range(busy) : slot'[i] = slot[i],
         ctx[Main].at = "linked" => ctx'[Main] = ctx[Main]
  PROVE  HandleTruth'
<1>. SUFFICES ASSUME NEW g \in Handles, Owner[g] = Main, g \notin AddOnly
              PROVE  TellsTruth(g)'
  BY DEF HandleTruth
<1>1. TellsTruth(g)
  BY DEF IInv, HandleTruth
<1>. QED BY <1>1 DEF TellsTruth

(***************************************************************************)
(* The steps of pf_scheduler_add.                                          *)
(***************************************************************************)
\* Entering pf_scheduler_add, from a caller whose handle is stopped.
LEMMA EnterAdd ==
  ASSUME IInv, NEW t \in Threads, NEW h \in Handles,
         Ready(t), Owner[h] = t, handle[h] = Stopped \/ h \in AddOnly,
         ctx' = [ctx EXCEPT ![t] = [Idle EXCEPT !.at = "called", !.h = h]],
         UNCHANGED <<clock, free, busy, slot, handle, tick, call>>
  PROVE  IInv'
<1>1. TypeOK'
  BY DEF IInv, TypeOK, Context, Idle, Stopped
<1>2. /\ ctx[t].at = "idle"
      /\ t = Main => call = None
      /\ ctx'[t].at = "called" /\ ctx'[t].h = h
      /\ \A u \in Threads : u # t => ctx'[u] = ctx[u]
  BY DEF Ready, Busy, IInv, TypeOK, Context, Idle
<1>3. Holding' = Holding /\ t \notin Holding
  <2>1. \A u \in Threads : u \in Holding' <=> u \in Holding
    BY <1>2 DEF Holding
  <2>2. t \notin Holding
    BY <1>2 DEF Holding
  <2>. QED BY <2>1, <2>2 DEF Holding
<1>4. \A u \in Holding : ctx'[u] = ctx[u]
  BY <1>2, <1>3 DEF Holding
<1>5. SlotPartition' /\ HeldSlots' = HeldSlots
  BY <1>3, <1>4, SamePartition
<1>6. HandleTruth'
  BY <1>2, SameTruth
<1>7. AddsOwnSlot'
  <2>1. t = Main /\ h \notin AddOnly => \A i \in Range(busy) : slot[i].arg # h
    BY <1>2, BusySlots DEF IInv, HandleTruth, TellsTruth
  <2>. QED BY <1>2, <1>3, <2>1 DEF IInv, AddsOwnSlot, Holding
<1>. QED BY <1>1, <1>5, <1>6, <1>7 DEF IInv

\* Reading the clock.
LEMMA NowInv ==
  ASSUME IInv, NEW t \in Threads, NEW d \in 1 .. MaxDelay, AddNow(t, d)
  PROVE  IInv'
<1>1. TypeOK'
  <2>1. clock + d \in Nat /\ ctx[t] \in Context /\ ctx \in [Threads -> Context]
    BY DEF IInv, TypeOK
  <2>2. [ctx[t] EXCEPT !.at = "timed", !.due = clock + d] \in Context
    BY <2>1 DEF Context
  <2>3. ctx' = [ctx EXCEPT ![t] = [ctx[t] EXCEPT !.at = "timed", !.due = clock + d]]
    BY <2>1 DEF AddNow
  <2>. QED BY SMTT(30), <2>1, <2>2, <2>3 DEF IInv, TypeOK, AddNow
<1>2. /\ ctx[t].at = "called" /\ ctx'[t].at = "timed"
      /\ ctx'[t].h = ctx[t].h /\ ctx'[t].ix = ctx[t].ix
      /\ \A u \in Threads : u # t => ctx'[u] = ctx[u]
      /\ UNCHANGED <<free, busy, slot, handle, call>>
  BY DEF AddNow, IInv, TypeOK, Context
<1>3. Holding' = Holding /\ t \notin Holding
  <2>1. \A u \in Threads : u \in Holding' <=> u \in Holding
    BY <1>2 DEF Holding
  <2>2. t \notin Holding
    BY <1>2 DEF Holding
  <2>. QED BY <2>1, <2>2 DEF Holding
<1>4. \A u \in Holding : ctx'[u] = ctx[u]
  BY <1>2, <1>3 DEF Holding
<1>5. SlotPartition' /\ HeldSlots' = HeldSlots
  BY <1>2, <1>3, <1>4, SamePartition
<1>6. HandleTruth'
  BY <1>2, SameTruth
<1>7. AddsOwnSlot'
  BY <1>2, <1>3 DEF IInv, AddsOwnSlot, Holding
<1>. QED BY <1>1, <1>5, <1>6, <1>7 DEF IInv

\* Taking a slot off the free list, or finding it empty.
LEMMA TakeInv ==
  ASSUME IInv, NEW t \in Threads, AddTake(t)
  PROVE  IInv'
<1>1. ctx[t].at = "timed" /\ UNCHANGED <<clock, busy, slot, tick, call>>
  BY DEF AddTake
<1>2. t \notin Holding /\ ctx[t].h \in Handles /\ Owner[ctx[t].h] = t
  BY <1>1 DEF Holding, IInv, AddsOwnSlot
<1>3. CASE free # << >>
  <2>1. /\ Head(free) \in Range(free) /\ Head(free) \in Slots
        /\ free' = Tail(free) /\ free' \in Seq(Slots) /\ IsInjective(free')
        /\ Range(free') = Range(free) \ {Head(free)}
    <3>1. free' = Tail(free)
      BY <1>3 DEF AddTake
    <3>2. free \in Seq(Slots) /\ IsInjective(free)
      BY DEF IInv, TypeOK, SlotPartition
    <3>. QED BY <1>3, <3>1, <3>2, TailList
  <2>2. /\ ctx'[t].at = "taken" /\ ctx'[t].ix = Head(free) /\ ctx'[t].h = ctx[t].h
        /\ \A u \in Threads : u # t => ctx'[u] = ctx[u]
        /\ handle' = handle
    BY SMTT(30), <1>3 DEF AddTake, IInv, TypeOK, Context
  <2>3. TypeOK'
    <3>1. ctx' = [ctx EXCEPT ![t].at = "taken", ![t].ix = Head(free)] /\ handle' = handle
      BY <1>3 DEF AddTake
    <3>2. ctx[t] \in Context /\ ctx \in [Threads -> Context]
      BY DEF IInv, TypeOK
    <3>3. [ctx[t] EXCEPT !.at = "taken", !.ix = Head(free)] \in Context
      BY <2>1, <3>2 DEF Context
    <3>4. ctx' = [ctx EXCEPT ![t] = [ctx[t] EXCEPT !.at = "taken", !.ix = Head(free)]]
      BY <3>1, <3>2
    <3>. QED BY SMTT(30), <1>1, <2>1, <3>1, <3>2, <3>3, <3>4 DEF IInv, TypeOK
  <2>4. Holding' = Holding \cup {t}
    <3>1. \A u \in Threads : u \in Holding' <=> u \in Holding \cup {t}
      BY <2>2 DEF Holding
    <3>. QED BY <3>1 DEF Holding
  <2>5. HeldSlots' = HeldSlots \cup {Head(free)}
    BY <1>2, <2>2, <2>4 DEF HeldSlots, Holding
  <2>6. SlotPartition'
    <3>1. \A u \in Holding : ctx[u].ix # Head(free)
      BY <2>1 DEF IInv, SlotPartition, HeldSlots
    <3>2. \A u, w \in Holding' : ctx'[u].ix = ctx'[w].ix => u = w
      BY <1>2, <2>2, <2>4, <3>1 DEF IInv, SlotPartition, Holding
    <3>. QED BY <1>1, <2>1, <2>5, <3>2 DEF IInv, SlotPartition
  <2>7. HandleTruth'
    BY <1>1, <2>2, SameTruth
  <2>8. AddsOwnSlot'
    BY SMTT(30), <1>1, <1>2, <2>1, <2>2, <2>4 DEF IInv, AddsOwnSlot, Holding
  <2>. QED BY <2>3, <2>6, <2>7, <2>8 DEF IInv
<1>4. CASE free = << >>
  <2>1. /\ handle' = [handle EXCEPT ![ctx[t].h] = Stopped] /\ free' = free
        /\ ctx' = [ctx EXCEPT ![t] = Idle]
    BY <1>4 DEF AddTake
  <2>2. /\ ctx'[t].at = "idle" /\ \A u \in Threads : u # t => ctx'[u] = ctx[u]
        /\ \A g \in Handles : g # ctx[t].h => handle'[g] = handle[g]
        /\ handle'[ctx[t].h] = Stopped
    BY <1>2, <2>1 DEF IInv, TypeOK, Context, Idle
  <2>3. TypeOK'
    BY <1>1, <2>1 DEF IInv, TypeOK, Context, Idle, Stopped
  <2>4. Holding' = Holding
    <3>1. \A u \in Threads : u \in Holding' <=> u \in Holding
      BY <1>2, <2>2 DEF Holding
    <3>. QED BY <3>1 DEF Holding
  <2>5. \A u \in Holding : ctx'[u] = ctx[u]
    BY <1>2, <2>2 DEF Holding
  <2>6. SlotPartition' /\ HeldSlots' = HeldSlots
    BY <1>1, <2>1, <2>4, <2>5, SamePartition
  <2>7. HandleTruth'
    <3>. SUFFICES ASSUME NEW g \in Handles, Owner[g] = Main, g \notin AddOnly
                  PROVE  TellsTruth(g)'
      BY DEF HandleTruth
    <3>1. TellsTruth(g)
      BY DEF IInv, HandleTruth
    <3>2. CASE g = ctx[t].h
      <4>1. t = Main /\ \A i \in Range(busy) : slot[i].arg # g
        BY <1>1, <1>2, <3>2 DEF IInv, AddsOwnSlot
      <4>. QED BY <1>1, <2>2, <3>2, <4>1 DEF TellsTruth
    <3>3. CASE g # ctx[t].h
      <4>1. ctx[Main].at = "linked" => ctx'[Main] = ctx[Main]
        BY <1>1, <2>2
      <4>. QED BY <1>1, <2>2, <3>1, <3>3, <4>1 DEF TellsTruth
    <3>. QED BY <3>2, <3>3
  <2>8. AddsOwnSlot'
    <3>1. ctx'[Main].at # "idle" => handle'[ctx'[Main].h] = handle[ctx[Main].h]
      BY <1>2, <2>2 DEF IInv, AddsOwnSlot
    <3>. QED BY <1>1, <2>2, <2>4, <3>1 DEF IInv, AddsOwnSlot, Holding
  <2>. QED BY <2>3, <2>6, <2>7, <2>8 DEF IInv
<1>. QED BY <1>3, <1>4

\* A thread fills the slot it has taken: it is in neither list.
LEMMA OwnSlotStep ==
  ASSUME IInv, NEW t \in Holding, UNCHANGED <<busy, handle, call>>, Holding' = Holding,
         ctx[t].at \in {"taken", "flagged"}, ctx'[t].at \in {"flagged", "filled"},
         ctx'[t].h = ctx[t].h, ctx'[t].ix = ctx[t].ix,
         \A u \in Threads : u # t => ctx'[u] = ctx[u],
         \A i \in Slots : i # ctx[t].ix => slot'[i] = slot[i],
         slot'[ctx[t].ix].in_use,
         ctx'[t].at = "filled" => /\ slot'[ctx[t].ix].arg = ctx[t].h
                                  /\ slot'[ctx[t].ix].name = Name[ctx[t].h]
  PROVE  AddsOwnSlot'
<1>1. t \in Threads /\ Holding \subseteq Threads /\ ctx[t].ix \in Slots
  BY DEF Holding, IInv, AddsOwnSlot
<1>2. \A u \in Holding : u # t => ctx[u].ix # ctx[t].ix /\ ctx[u].ix \in Slots
  BY <1>1 DEF IInv, SlotPartition, AddsOwnSlot, Holding
<1>3. \A i \in Range(busy) : i \in Slots /\ i # ctx[t].ix /\ slot'[i] = slot[i]
  <2>1. ctx[t].ix \notin Range(busy)
    BY DEF IInv, SlotPartition, HeldSlots
  <2>. QED BY <1>1, <2>1, BusySlots
<1>4. \A u \in Threads : ctx'[u].at # "idle" => ctx'[u].h \in Handles /\ Owner[ctx'[u].h] = u
  BY <1>1 DEF IInv, AddsOwnSlot
<1>5. \A u \in Threads : ctx'[u].at \in {"taken", "flagged", "filled", "linked"} =>
        ctx'[u].ix \in Slots
  BY <1>1 DEF IInv, AddsOwnSlot
<1>6. ASSUME NEW u \in Holding
      PROVE  /\ ctx'[u].at \in {"flagged", "filled"} => slot'[ctx'[u].ix].in_use
             /\ ctx'[u].at = "filled" => /\ slot'[ctx'[u].ix].arg = ctx'[u].h
                                         /\ slot'[ctx'[u].ix].name = Name[ctx'[u].h]
  <2>1. CASE u = t
    BY <2>1
  <2>2. CASE u # t
    <3>1. ctx'[u] = ctx[u] /\ slot'[ctx[u].ix] = slot[ctx[u].ix]
      BY <1>1, <1>2, <2>2
    <3>. QED BY <3>1 DEF IInv, AddsOwnSlot
  <2>. QED BY <2>1, <2>2
<1>7. \A i \in Range(busy) : slot'[i].arg \in Handles /\ slot'[i].name = Name[slot'[i].arg]
  BY <1>3 DEF IInv, AddsOwnSlot
<1>8. call # None => ctx'[Main].at = "idle"
  <2>1. call # None => ctx[Main].at = "idle"
    BY DEF IInv, AddsOwnSlot
  <2>2. CASE t = Main
    BY <2>1, <2>2
  <2>3. CASE t # Main
    BY <2>1, <2>3
  <2>. QED BY <2>2, <2>3
<1>9. ctx'[Main].at # "idle" /\ ctx'[Main].h \notin AddOnly =>
        /\ handle[ctx'[Main].h] = Stopped
        /\ \A i \in Range(busy) : slot'[i].arg = ctx'[Main].h =>
             ctx'[Main].at = "linked" /\ i = ctx'[Main].ix
        /\ ctx'[Main].at = "linked" =>
             ctx'[Main].ix \in Range(busy) /\ slot'[ctx'[Main].ix].arg = ctx'[Main].h
  <2>1. CASE t = Main
    BY <1>3, <2>1 DEF IInv, AddsOwnSlot
  <2>2. CASE t # Main
    <3>1. ctx'[Main] = ctx[Main]
      BY <2>2
    <3>. QED BY <1>3, <3>1 DEF IInv, AddsOwnSlot
  <2>. QED BY <2>1, <2>2
<1>. QED BY <1>4, <1>5, <1>6, <1>7, <1>8, <1>9 DEF AddsOwnSlot

\* in_use is set in a slot that only this thread has.
LEMMA FlagInv ==
  ASSUME IInv, NEW t \in Threads, AddFlag(t)
  PROVE  IInv'
<1>. DEFINE ix == ctx[t].ix
<1>1. /\ ctx[t].at = "taken" /\ UNCHANGED <<clock, free, busy, handle, tick, call>>
      /\ slot' = [slot EXCEPT ![ix].in_use = TRUE]
      /\ ctx' = [ctx EXCEPT ![t].at = "flagged"]
  BY DEF AddFlag
<1>2. t \in Holding /\ ix \in Slots /\ ix \in HeldSlots
  BY <1>1 DEF Holding, HeldSlots, IInv, AddsOwnSlot
<1>3. /\ ctx'[t].at = "flagged" /\ ctx'[t].ix = ix /\ ctx'[t].h = ctx[t].h
      /\ \A u \in Threads : u # t => ctx'[u] = ctx[u]
  BY <1>1 DEF IInv, TypeOK, Context
<1>4. /\ slot'[ix].in_use
      /\ \A i \in Slots : i # ix => slot'[i] = slot[i]
  BY <1>1, <1>2 DEF IInv, TypeOK, Slot
<1>5. TypeOK'
  <2>1. ctx[t] \in Context /\ ctx \in [Threads -> Context] /\ slot[ix] \in Slot
        /\ slot \in [Slots -> Slot]
    BY <1>2 DEF IInv, TypeOK
  <2>2. [ctx[t] EXCEPT !.at = "flagged"] \in Context /\ [slot[ix] EXCEPT !.in_use = TRUE] \in Slot
    BY <2>1 DEF Context, Slot
  <2>. QED BY <1>1, <1>2, <2>1, <2>2 DEF IInv, TypeOK
<1>6. Holding' = Holding
  <2>1. \A u \in Threads : u \in Holding' <=> u \in Holding
    BY <1>1, <1>3 DEF Holding
  <2>. QED BY <2>1 DEF Holding
<1>7. HeldSlots' = HeldSlots
  BY <1>3, <1>6 DEF HeldSlots, Holding
<1>8. ix \notin Range(busy) /\ ix \notin Range(free)
  BY <1>2 DEF IInv, SlotPartition
<1>9. SlotPartition'
  <2>1. \A u, w \in Holding : ctx'[u].ix = ctx'[w].ix => u = w
    BY <1>3 DEF IInv, SlotPartition, Holding
  <2>. QED BY <1>1, <1>4, <1>6, <1>7, <1>8, <2>1, BusySlots DEF IInv, SlotPartition
<1>10. HandleTruth'
  BY <1>1, <1>3, <1>4, <1>8, BusySlots, SameTruth
<1>11. AddsOwnSlot'
  BY <1>1, <1>2, <1>3, <1>4, <1>6, OwnSlotStep
<1>. QED BY <1>5, <1>9, <1>10, <1>11 DEF IInv

\* The slot is filled with the handle's name and itself.
LEMMA FillInv ==
  ASSUME IInv, NEW t \in Threads, AddFill(t)
  PROVE  IInv'
<1>. DEFINE ix == ctx[t].ix
            h == ctx[t].h
<1>1. /\ ctx[t].at = "flagged" /\ UNCHANGED <<clock, free, busy, handle, tick, call>>
      /\ slot' = [slot EXCEPT ![ix] = [in_use |-> slot[ix].in_use, name |-> Name[h],
                                       arg |-> h, due |-> ctx[t].due]]
      /\ ctx' = [ctx EXCEPT ![t].at = "filled"]
  BY DEF AddFill
<1>2. t \in Holding /\ ix \in Slots /\ ix \in HeldSlots /\ h \in Handles /\ slot[ix].in_use
  BY <1>1 DEF Holding, HeldSlots, IInv, AddsOwnSlot
<1>3. /\ ctx'[t].at = "filled" /\ ctx'[t].ix = ix /\ ctx'[t].h = h
      /\ \A u \in Threads : u # t => ctx'[u] = ctx[u]
  BY <1>1 DEF IInv, TypeOK, Context
<1>4. /\ slot'[ix].in_use /\ slot'[ix].arg = h /\ slot'[ix].name = Name[h]
      /\ \A i \in Slots : i # ix => slot'[i] = slot[i]
  BY <1>1, <1>2 DEF IInv, TypeOK, Slot
<1>5. TypeOK'
  <2>1. ctx[t] \in Context /\ ctx \in [Threads -> Context] /\ slot[ix] \in Slot
        /\ slot \in [Slots -> Slot] /\ ctx[t].due \in Nat /\ slot[ix].in_use \in BOOLEAN
    BY <1>2 DEF IInv, TypeOK, Slot, Context
  <2>2. /\ [ctx[t] EXCEPT !.at = "filled"] \in Context
        /\ [in_use |-> slot[ix].in_use, name |-> Name[h], arg |-> h, due |-> ctx[t].due] \in Slot
    BY <1>2, <2>1 DEF Context, Slot
  <2>. QED BY <1>1, <1>2, <2>1, <2>2 DEF IInv, TypeOK
<1>6. Holding' = Holding
  <2>1. \A u \in Threads : u \in Holding' <=> u \in Holding
    BY <1>1, <1>3 DEF Holding
  <2>. QED BY <2>1 DEF Holding
<1>7. HeldSlots' = HeldSlots
  BY <1>3, <1>6 DEF HeldSlots, Holding
<1>8. ix \notin Range(busy) /\ ix \notin Range(free)
  BY <1>2 DEF IInv, SlotPartition
<1>9. SlotPartition'
  <2>1. \A u, w \in Holding : ctx'[u].ix = ctx'[w].ix => u = w
    BY <1>3 DEF IInv, SlotPartition, Holding
  <2>. QED BY <1>1, <1>4, <1>6, <1>7, <1>8, <2>1, BusySlots DEF IInv, SlotPartition
<1>10. HandleTruth'
  BY <1>1, <1>3, <1>4, <1>8, BusySlots, SameTruth
<1>11. AddsOwnSlot'
  BY <1>1, <1>2, <1>3, <1>4, <1>6, OwnSlotStep
<1>. QED BY <1>5, <1>9, <1>10, <1>11 DEF IInv

\* Linking the slot: it passes from the thread to the busy list.
LEMMA LinkInv ==
  ASSUME IInv, NEW t \in Threads, AddLink(t)
  PROVE  IInv'
<1>. DEFINE ix == ctx[t].ix
            h == ctx[t].h
<1>1. /\ ctx[t].at = "filled" /\ UNCHANGED <<clock, free, slot, handle, tick, call>>
      /\ busy' = InsertAt(busy, InsertPos(ix), ix)
      /\ ctx' = [ctx EXCEPT ![t].at = "linked"]
  BY DEF AddLink
<1>2. /\ t \in Holding /\ ix \in Slots /\ ix \in HeldSlots /\ h \in Handles /\ Owner[h] = t
      /\ slot[ix].in_use /\ slot[ix].arg = h /\ slot[ix].name = Name[h]
  BY <1>1 DEF Holding, HeldSlots, IInv, AddsOwnSlot
<1>3. /\ ctx'[t].at = "linked" /\ ctx'[t].ix = ix /\ ctx'[t].h = h
      /\ \A u \in Threads : u # t => ctx'[u] = ctx[u]
  BY <1>1 DEF IInv, TypeOK, Context
<1>4. ix \notin Range(busy) /\ ix \notin Range(free)
  BY <1>2 DEF IInv, SlotPartition
<1>5. /\ busy' \in Seq(Slots) /\ IsInjective(busy') /\ Range(busy') = Range(busy) \cup {ix}
  <2>1. busy \in Seq(Slots) /\ IsInjective(busy)
    BY DEF IInv, TypeOK, SlotPartition
  <2>. QED BY <1>1, <1>2, <1>4, <2>1, InsertPosType, InsertList
<1>6. TypeOK'
  <2>1. ctx[t] \in Context /\ ctx \in [Threads -> Context]
    BY DEF IInv, TypeOK
  <2>2. [ctx[t] EXCEPT !.at = "linked"] \in Context
    BY <2>1 DEF Context
  <2>. QED BY <1>1, <1>5, <2>1, <2>2 DEF IInv, TypeOK
<1>7. Holding' = Holding \ {t}
  <2>1. \A u \in Threads : u \in Holding' <=> u \in Holding \ {t}
    BY <1>3 DEF Holding
  <2>. QED BY <2>1 DEF Holding
<1>8. HeldSlots' = HeldSlots \ {ix}
  <2>1. \A u \in Holding : u # t => ctx[u].ix # ix
    BY <1>2 DEF IInv, SlotPartition
  <2>2. \A u \in Holding : u # t => ctx'[u].ix = ctx[u].ix
    BY <1>3 DEF Holding
  <2>. QED BY <1>7, <2>1, <2>2 DEF HeldSlots
<1>9. SlotPartition'
  <2>1. \A u, w \in Holding' : ctx'[u].ix = ctx'[w].ix => u = w
    BY <1>3, <1>7 DEF IInv, SlotPartition, Holding
  <2>. QED BY <1>1, <1>2, <1>4, <1>5, <1>8, <2>1 DEF IInv, SlotPartition
<1>10. HandleTruth'
  <2>. SUFFICES ASSUME NEW g \in Handles, Owner[g] = Main, g \notin AddOnly
                PROVE  TellsTruth(g)'
    BY DEF HandleTruth
  <2>1. TellsTruth(g)
    BY DEF IInv, HandleTruth
  <2>2. ctx[Main].at = "linked" => ctx'[Main] = ctx[Main]
    BY <1>1, <1>3
  <2>3. CASE g = h
    <3>1. t = Main /\ call = None
      BY <1>1, <1>2, <2>3 DEF IInv, AddsOwnSlot
    <3>. QED BY <1>1, <1>2, <1>3, <1>5, <2>1, <2>3, <3>1 DEF TellsTruth
  <2>4. CASE g # h
    BY <1>1, <1>2, <1>5, <2>1, <2>2, <2>4 DEF TellsTruth
  <2>. QED BY <2>3, <2>4
<1>11. AddsOwnSlot'
  <2>1. \A u \in Holding' : ctx'[u] = ctx[u]
    BY <1>3, <1>7 DEF Holding
  <2>2. ctx'[Main].at # "idle" /\ ctx'[Main].h \notin AddOnly =>
          /\ handle'[ctx'[Main].h] = Stopped
          /\ \A i \in Range(busy)' : slot'[i].arg = ctx'[Main].h =>
               ctx'[Main].at = "linked" /\ i = ctx'[Main].ix
          /\ ctx'[Main].at = "linked" =>
               ctx'[Main].ix \in Range(busy)' /\ slot'[ctx'[Main].ix].arg = ctx'[Main].h
    <3>1. CASE t = Main
      BY <1>1, <1>2, <1>3, <1>5, <3>1 DEF IInv, AddsOwnSlot
    <3>2. CASE t # Main
      <4>1. ctx'[Main] = ctx[Main] /\ (ctx[Main].at # "idle" => h # ctx[Main].h)
        BY <1>2, <1>3, <3>2 DEF IInv, AddsOwnSlot
      <4>. QED BY <1>1, <1>2, <1>5, <4>1 DEF IInv, AddsOwnSlot
    <3>. QED BY <3>1, <3>2
  <2>3. \A u \in Threads : ctx'[u].at # "idle" =>
          /\ ctx'[u].h \in Handles /\ Owner[ctx'[u].h] = u
          /\ ctx'[u].at \in {"taken", "flagged", "filled", "linked"} => ctx'[u].ix \in Slots
    BY <1>2, <1>3 DEF IInv, AddsOwnSlot
  <2>4. \A i \in Range(busy)' : slot'[i].arg \in Handles /\ slot'[i].name = Name[slot'[i].arg]
    BY <1>1, <1>2, <1>5 DEF IInv, AddsOwnSlot
  <2>5. call' # None => ctx'[Main].at = "idle"
    BY <1>1, <1>3 DEF IInv, AddsOwnSlot
  <2>6. \A u \in Holding' :
         /\ ctx'[u].at \in {"flagged", "filled"} => slot'[ctx'[u].ix].in_use
         /\ ctx'[u].at = "filled" => /\ slot'[ctx'[u].ix].arg = ctx'[u].h
                                     /\ slot'[ctx'[u].ix].name = Name[ctx'[u].h]
    BY <1>1, <1>7, <2>1 DEF IInv, AddsOwnSlot
  <2>. QED BY <2>2, <2>3, <2>4, <2>5, <2>6 DEF AddsOwnSlot
<1>. QED BY <1>6, <1>9, <1>10, <1>11 DEF IInv

\* The handle is written last.
LEMMA ReturnInv ==
  ASSUME IInv, NEW t \in Threads, AddReturn(t)
  PROVE  IInv'
<1>. DEFINE ix == ctx[t].ix
            h == ctx[t].h
<1>1. /\ ctx[t].at = "linked" /\ UNCHANGED <<clock, free, busy, slot, tick, call>>
      /\ handle' = [handle EXCEPT ![h] = ix]
      /\ ctx' = [ctx EXCEPT ![t] = Idle]
  BY DEF AddReturn
<1>2. t \notin Holding /\ h \in Handles /\ Owner[h] = t /\ ix \in Slots
  BY <1>1 DEF Holding, IInv, AddsOwnSlot
<1>3. /\ ctx'[t].at = "idle" /\ \A u \in Threads : u # t => ctx'[u] = ctx[u]
      /\ \A g \in Handles : g # h => handle'[g] = handle[g]
      /\ handle'[h] = ix
  BY <1>1, <1>2 DEF IInv, TypeOK, Idle
<1>4. TypeOK'
  BY <1>1, <1>2 DEF IInv, TypeOK, Context, Idle, Stopped
<1>5. Holding' = Holding
  <2>1. \A u \in Threads : u \in Holding' <=> u \in Holding
    BY <1>2, <1>3 DEF Holding
  <2>. QED BY <2>1 DEF Holding
<1>6. \A u \in Holding : ctx'[u] = ctx[u]
  BY <1>2, <1>3 DEF Holding
<1>7. SlotPartition' /\ HeldSlots' = HeldSlots
  BY <1>1, <1>5, <1>6, SamePartition
<1>8. HandleTruth'
  <2>. SUFFICES ASSUME NEW g \in Handles, Owner[g] = Main, g \notin AddOnly
                PROVE  TellsTruth(g)'
    BY DEF HandleTruth
  <2>1. TellsTruth(g)
    BY DEF IInv, HandleTruth
  <2>2. CASE g = h
    <3>1. t = Main /\ call = None
      BY <1>1, <1>2, <2>2 DEF IInv, AddsOwnSlot
    <3>2. ix \in Range(busy) /\ slot[ix].arg = h /\ \A i \in Range(busy) : slot[i].arg = h => i = ix
      BY <1>1, <2>2, <3>1 DEF IInv, AddsOwnSlot
    <3>. QED BY <1>1, <1>3, <2>2, <3>1, <3>2 DEF TellsTruth
  <2>3. CASE g # h
    <3>1. ctx[Main].at = "linked" /\ ctx[Main].h = g => ctx'[Main] = ctx[Main]
      BY <1>3, <2>3
    <3>. QED BY <1>1, <1>3, <2>1, <2>3, <3>1 DEF TellsTruth
  <2>. QED BY <2>2, <2>3
<1>9. AddsOwnSlot'
  <2>1. ctx'[Main].at # "idle" => handle'[ctx'[Main].h] = handle[ctx[Main].h]
    BY <1>2, <1>3 DEF IInv, AddsOwnSlot
  <2>. QED BY <1>1, <1>2, <1>3, <1>5, <2>1 DEF IInv, AddsOwnSlot, Holding
<1>. QED BY <1>4, <1>7, <1>8, <1>9 DEF IInv

(***************************************************************************)
(* pf_scheduler_remove and pf_scheduler_restart.                           *)
(***************************************************************************)
\* A slot goes from the busy list back to the free list.
LEMMA FreeSlot ==
  ASSUME IInv, NEW ix \in Range(busy),
         slot' = [slot EXCEPT ![ix].in_use = FALSE],
         free' = LinkFirst(free, ix),
         busy' \in Seq(Slots), IsInjective(busy'), Range(busy)' = Range(busy) \ {ix},
         Holding' = Holding, \A u \in Holding : ctx'[u] = ctx[u]
  PROVE  /\ slot' \in [Slots -> Slot] /\ free' \in Seq(Slots)
         /\ \A i \in Slots : i # ix => slot'[i] = slot[i]
         /\ SlotPartition'
<1>1. /\ ix \in Slots /\ ix \notin Range(free) /\ ix \notin HeldSlots
      /\ free \in Seq(Slots) /\ IsInjective(free)
      /\ slot \in [Slots -> Slot] /\ slot[ix] \in Slot
  BY BusySlots DEF IInv, TypeOK, SlotPartition
<1>2. free' \in Seq(Slots) /\ IsInjective(free') /\ Range(free)' = Range(free) \cup {ix}
  BY <1>1, LinkFirstList DEF LinkFirst
<1>3. /\ slot' \in [Slots -> Slot] /\ ~slot'[ix].in_use
      /\ \A i \in Slots : i # ix => slot'[i] = slot[i]
  <2>1. [slot[ix] EXCEPT !.in_use = FALSE] \in Slot /\ ~[slot[ix] EXCEPT !.in_use = FALSE].in_use
    BY <1>1 DEF Slot
  <2>2. slot' = [slot EXCEPT ![ix] = [slot[ix] EXCEPT !.in_use = FALSE]]
    BY <1>1
  <2>. QED BY <1>1, <2>1, <2>2
<1>4. HeldSlots' = HeldSlots
  BY DEF HeldSlots
<1>5. SlotPartition'
  <2>1. /\ Range(free)' \cap Range(busy)' = {}
        /\ HeldSlots \cap (Range(free)' \cup Range(busy)') = {}
        /\ Slots = Range(free)' \cup Range(busy)' \cup HeldSlots
    BY <1>1, <1>2 DEF IInv, SlotPartition
  <2>2. \A t, u \in Holding : ctx'[t].ix = ctx'[u].ix => t = u
    BY DEF IInv, SlotPartition
  <2>3. /\ \A i \in Range(free)' : ~slot'[i].in_use
        /\ \A i \in Range(busy)' : slot'[i].in_use
    BY <1>1, <1>2, <1>3, BusySlots DEF IInv, SlotPartition
  <2>. QED BY <1>2, <1>4, <2>1, <2>2, <2>3 DEF SlotPartition
<1>. QED BY <1>2, <1>3, <1>4, <1>5

\* The main thread removes its own timer: under the discipline a running
\* handle always finds its slot.  It may be on its way into a new add.
LEMMA RemoveInv ==
  ASSUME IInv, NEW h \in Handles, Owner[h] = Main, h \notin AddOnly,
         Ready(Main), handle[h] # Stopped, DoRemove(h),
         UNCHANGED <<clock, tick, call>>,
         \/ ctx' = ctx
         \/ ctx' = [ctx EXCEPT ![Main] = [Idle EXCEPT !.at = "called", !.h = h]]
  PROVE  IInv'
<1>. DEFINE ix == handle[h]
<1>1. call = None /\ ctx[Main].at = "idle" /\ Main \notin Holding
  BY DEF Ready, Busy, Holding
<1>2. /\ ix \in Range(busy) /\ slot[ix].arg = h /\ slot[ix].name = Name[h] /\ slot[ix].in_use
      /\ \A i \in Range(busy) : slot[i].arg = h => i = ix
  <2>1. TellsTruth(h)
    BY DEF IInv, HandleTruth
  <2>2. ix \in Range(busy) /\ slot[ix].arg = h
    BY <1>1, <2>1 DEF TellsTruth
  <2>. QED BY <1>1, <2>1, <2>2 DEF TellsTruth, IInv, AddsOwnSlot, SlotPartition
<1>3. /\ busy' = Unlink(busy, ix) /\ slot' = [slot EXCEPT ![ix].in_use = FALSE]
      /\ free' = LinkFirst(free, ix) /\ handle' = [handle EXCEPT ![h] = Stopped]
  BY <1>2 DEF DoRemove, Removable
<1>4. busy' \in Seq(Slots) /\ IsInjective(busy') /\ Range(busy)' = Range(busy) \ {ix}
  <2>1. busy \in Seq(Slots) /\ IsInjective(busy)
    BY DEF IInv, TypeOK, SlotPartition
  <2>2. busy' = RemoveAt(busy, CHOOSE i \in 1 .. Len(busy) : busy[i] = ix)
    BY <1>2, <1>3 DEF Unlink
  <2>. DEFINE b == RemoveAt(busy, CHOOSE i \in 1 .. Len(busy) : busy[i] = ix)
  <2>3. b \in Seq(Slots) /\ IsInjective(b) /\ Range(b) = Range(busy) \ {ix}
    BY SMTT(30), <1>2, <2>1, UnlinkList
  <2>. HIDE DEF b
  <2>4. busy' = b
    BY <2>2 DEF b
  <2>. QED BY <2>3, <2>4
<1>5. /\ ctx' \in [Threads -> Context] /\ ctx'[Main].at \in {"idle", "called"}
      /\ ctx'[Main].at = "called" => ctx'[Main].h = h
      /\ \A u \in Threads : u # Main => ctx'[u] = ctx[u]
  <2>1. ctx \in [Threads -> Context]
    BY DEF IInv, TypeOK
  <2>2. CASE ctx' = ctx
    BY <1>1, <2>1, <2>2
  <2>3. CASE ctx' = [ctx EXCEPT ![Main] = [Idle EXCEPT !.at = "called", !.h = h]]
    <3>1. /\ [Idle EXCEPT !.at = "called", !.h = h] \in Context
          /\ [Idle EXCEPT !.at = "called", !.h = h].at = "called"
          /\ [Idle EXCEPT !.at = "called", !.h = h].h = h
      BY DEF Context, Idle, Stopped
    <3>. QED BY <2>1, <2>3, <3>1
  <2>. QED BY <2>2, <2>3
<1>6. Holding' = Holding /\ \A u \in Holding : ctx'[u] = ctx[u]
  <2>1. \A u \in Threads : u \in Holding' <=> u \in Holding
    BY <1>1, <1>5 DEF Holding
  <2>. QED BY <1>1, <1>5, <2>1 DEF Holding
<1>7. /\ slot' \in [Slots -> Slot] /\ free' \in Seq(Slots)
      /\ \A i \in Slots : i # ix => slot'[i] = slot[i]
      /\ SlotPartition'
  BY <1>2, <1>3, <1>4, <1>6, FreeSlot
<1>8. handle'[h] = Stopped /\ \A g \in Handles : g # h => handle'[g] = handle[g]
  BY <1>3 DEF IInv, TypeOK
<1>9. TypeOK'
  BY <1>3, <1>4, <1>5, <1>7 DEF IInv, TypeOK
<1>10. \A i \in Range(busy)' : i \in Range(busy) /\ slot'[i] = slot[i] /\ i # ix
  BY <1>4, <1>7, BusySlots
<1>11. HandleTruth'
  <2>. SUFFICES ASSUME NEW g \in Handles, Owner[g] = Main, g \notin AddOnly
                PROVE  TellsTruth(g)'
    BY DEF HandleTruth
  <2>1. TellsTruth(g)
    BY DEF IInv, HandleTruth
  <2>2. CASE g = h
    BY <1>1, <1>2, <1>8, <1>10, <2>2 DEF TellsTruth
  <2>3. CASE g # h
    <3>1. handle[g] # Stopped => handle[g] \in Range(busy)' /\ slot'[handle[g]].arg = g
      BY <1>1, <1>2, <1>4, <1>7, <2>1, <2>3, BusySlots DEF TellsTruth
    <3>. QED BY <1>1, <1>8, <1>10, <2>1, <2>3, <3>1 DEF TellsTruth
  <2>. QED BY <2>2, <2>3
<1>12. AddsOwnSlot'
  <2>1. \A u \in Holding : ctx[u].ix \in Slots /\ ctx[u].ix # ix
    BY <1>2 DEF IInv, AddsOwnSlot, SlotPartition, HeldSlots, Holding
  <2>2. \A u \in Threads : ctx'[u].at # "idle" => ctx'[u].h \in Handles /\ Owner[ctx'[u].h] = u
    BY <1>5 DEF IInv, AddsOwnSlot
  <2>3. \A i \in Range(busy)' : slot'[i].arg # h
    BY <1>2, <1>10
  <2>. QED BY <1>1, <1>5, <1>6, <1>7, <1>8, <1>10, <2>1, <2>2, <2>3 DEF IInv, AddsOwnSlot, Holding
<1>. QED BY <1>7, <1>9, <1>11, <1>12 DEF IInv

(***************************************************************************)
(* pf_scheduler_tick.                                                      *)
(***************************************************************************)
\* The head of the busy list is freed and its callback is due.
LEMMA PopInv ==
  ASSUME IInv, TickPop
  PROVE  IInv'
<1>. DEFINE ix == Head(busy)
<1>1. /\ call = None /\ ctx[Main].at = "idle" /\ busy # << >>
      /\ busy' = Tail(busy) /\ slot' = [slot EXCEPT ![ix].in_use = FALSE]
      /\ free' = LinkFirst(free, ix) /\ call' = slot[ix].arg
      /\ UNCHANGED <<clock, handle, ctx, tick>>
  BY DEF TickPop, Ready, Busy, Expired
<1>2. /\ ix \in Range(busy) /\ busy' \in Seq(Slots) /\ IsInjective(busy')
      /\ Range(busy)' = Range(busy) \ {ix}
  <2>1. busy \in Seq(Slots) /\ IsInjective(busy)
    BY DEF IInv, TypeOK, SlotPartition
  <2>. QED BY <1>1, <2>1, TailList
<1>3. Holding' = Holding /\ \A u \in Holding : ctx'[u] = ctx[u]
  BY <1>1 DEF Holding
<1>4. /\ slot' \in [Slots -> Slot] /\ free' \in Seq(Slots)
      /\ \A i \in Slots : i # ix => slot'[i] = slot[i]
      /\ SlotPartition'
  BY <1>1, <1>2, <1>3, FreeSlot
<1>5. slot[ix].arg \in Handles
  BY <1>2 DEF IInv, AddsOwnSlot
<1>6. TypeOK'
  BY <1>1, <1>2, <1>4, <1>5 DEF IInv, TypeOK
<1>7. \A i \in Range(busy)' : i \in Range(busy) /\ slot'[i] = slot[i] /\ i # ix
  BY <1>2, <1>4, BusySlots
<1>8. HandleTruth'
  <2>. SUFFICES ASSUME NEW g \in Handles, Owner[g] = Main, g \notin AddOnly
                PROVE  TellsTruth(g)'
    BY DEF HandleTruth
  <2>1. TellsTruth(g)
    BY DEF IInv, HandleTruth
  <2>2. \A i \in Range(busy) : slot[i].arg = g => handle[g] = i
    BY <1>1, <2>1 DEF TellsTruth
  <2>3. handle[g] # Stopped => handle[g] \in Range(busy) /\ slot[handle[g]].arg = g
    BY <1>1, <2>1 DEF TellsTruth
  <2>4. CASE slot[ix].arg = g
    BY <1>1, <1>2, <1>7, <2>2, <2>4 DEF TellsTruth
  <2>5. CASE slot[ix].arg # g
    <3>1. handle[g] # Stopped => handle[g] \in Range(busy)' /\ slot'[handle[g]].arg = g
      BY <1>2, <1>4, <2>3, <2>5, BusySlots
    <3>. QED BY <1>1, <1>7, <2>2, <2>5, <3>1 DEF TellsTruth
  <2>. QED BY <2>4, <2>5
<1>9. AddsOwnSlot'
  <2>1. \A u \in Holding : ctx[u].ix \in Slots /\ ctx[u].ix # ix
    BY <1>2 DEF IInv, AddsOwnSlot, SlotPartition, HeldSlots, Holding
  <2>. QED BY <1>1, <1>3, <1>4, <1>7, <2>1 DEF IInv, AddsOwnSlot
<1>. QED BY <1>4, <1>6, <1>8, <1>9 DEF IInv

\* The callback declares its handle stopped, which by now has no slot.
LEMMA CallbackInv ==
  ASSUME IInv, Callback
  PROVE  IInv'
<1>1. /\ call # None /\ call \in Handles /\ ctx[Main].at = "idle"
      /\ handle' = [handle EXCEPT ![call] = Stopped] /\ call' = None
      /\ UNCHANGED <<clock, free, busy, slot, ctx, tick>>
  BY DEF Callback, IInv, TypeOK, AddsOwnSlot
<1>2. handle'[call] = Stopped /\ \A g \in Handles : g # call => handle'[g] = handle[g]
  BY <1>1 DEF IInv, TypeOK
<1>3. TypeOK'
  BY <1>1 DEF IInv, TypeOK
<1>4. Holding' = Holding
  BY <1>1 DEF Holding
<1>5. SlotPartition'
  BY <1>1, <1>4, SamePartition
<1>6. HandleTruth'
  <2>. SUFFICES ASSUME NEW g \in Handles, Owner[g] = Main, g \notin AddOnly
                PROVE  TellsTruth(g)'
    BY DEF HandleTruth
  <2>1. TellsTruth(g)
    BY DEF IInv, HandleTruth
  <2>2. CASE g = call
    BY <1>1, <1>2, <2>1, <2>2 DEF TellsTruth
  <2>3. CASE g # call
    BY <1>1, <1>2, <2>1, <2>3 DEF TellsTruth
  <2>. QED BY <2>2, <2>3
<1>7. AddsOwnSlot'
  BY <1>1, <1>4 DEF IInv, AddsOwnSlot
<1>. QED BY <1>3, <1>5, <1>6, <1>7 DEF IInv

\* Steps that only move the clock or the tick.
LEMMA TimeInv ==
  ASSUME IInv, clock' \in Nat, tick' \in [on : BOOLEAN, now : Nat],
         UNCHANGED <<free, busy, slot, handle, ctx, call>>
  PROVE  IInv'
<1>1. TypeOK'
  BY DEF IInv, TypeOK
<1>2. Holding' = Holding
  BY DEF Holding
<1>3. SlotPartition' /\ HandleTruth'
  BY <1>2, SamePartition, SameTruth
<1>4. AddsOwnSlot'
  BY <1>2 DEF IInv, AddsOwnSlot
<1>. QED BY <1>1, <1>3, <1>4 DEF IInv

LEMMA StepInv == IInv /\ Discipline /\ [Next]_vars => IInv'
<1>. SUFFICES ASSUME IInv, Discipline, [Next]_vars PROVE IInv'
  OBVIOUS
<1>1. ASSUME NEW t \in Threads, NEW h \in Handles, AddCall(t, h) PROVE IInv'
  BY <1>1, EnterAdd DEF AddCall
<1>2. ASSUME NEW t \in Threads, NEW h \in Handles, Restart(t, h) PROVE IInv'
  BY <1>2, RemoveInv DEF Restart, Discipline
<1>3. ASSUME NEW t \in Threads, NEW h \in Handles, RemoveIfRunning(t, h) PROVE IInv'
  BY <1>3, RemoveInv DEF RemoveIfRunning, Discipline
<1>4. ASSUME NEW t \in Threads, NEW d \in 1 .. MaxDelay, AddNow(t, d) PROVE IInv'
  BY <1>4, NowInv
<1>5. ASSUME NEW t \in Threads,
             AddTake(t) \/ AddFlag(t) \/ AddFill(t) \/ AddLink(t) \/ AddReturn(t)
      PROVE  IInv'
  BY <1>5, TakeInv, FlagInv, FillInv, LinkInv, ReturnInv
<1>6. CASE TickStart \/ TickEnd \/ Advance
  <2>1. clock \in Nat /\ tick \in [on : BOOLEAN, now : Nat]
    BY DEF IInv, TypeOK
  <2>3. clock' \in Nat
    BY <1>6, <2>1 DEF TickStart, TickEnd, Advance
  <2>4. tick' \in [on : BOOLEAN, now : Nat]
    <3>1. CASE TickStart
      BY <2>1, <3>1 DEF TickStart
    <3>2. CASE TickEnd
      <4>1. [tick EXCEPT !.on = FALSE] \in [on : BOOLEAN, now : Nat]
        BY <2>1
      <4>. QED BY <3>2, <4>1 DEF TickEnd
    <3>3. CASE Advance
      BY <2>1, <3>3 DEF Advance
    <3>. QED BY <1>6, <3>1, <3>2, <3>3
  <2>2. UNCHANGED <<free, busy, slot, handle, ctx, call>>
    BY <1>6 DEF TickStart, TickEnd, Advance
  <2>. QED BY <2>2, <2>3, <2>4, TimeInv
<1>7. CASE TickPop \/ Callback
  BY <1>7, PopInv, CallbackInv
<1>8. CASE UNCHANGED vars
  <2>1. clock' \in Nat /\ tick' \in [on : BOOLEAN, now : Nat]
    BY <1>8 DEF vars, IInv, TypeOK
  <2>. QED BY <1>8, <2>1, TimeInv DEF vars
<1>. QED
  BY <1>1, <1>2, <1>3, <1>4, <1>5, <1>6, <1>7, <1>8 DEF Next, ThreadStep, TickStep

\* In the whole life of the stack no slot of the timer pool is lost, doubly
\* linked or handed out twice, and the handles of the main thread agree with
\* the list, whatever the interleaving (pf_scheduler_add/remove/tick).
THEOREM PoolSafe ==
  ASSUME Discipline
  PROVE  Spec => [](SlotPartition /\ HandleTruth)
<1>1. Init => IInv
  BY InitInv
<1>2. IInv /\ [Next]_vars => IInv'
  BY StepInv
<1>3. IInv => SlotPartition /\ HandleTruth
  BY DEF IInv
<1>. QED BY <1>1, <1>2, <1>3, PTL DEF Spec

\* Type correctness of the timer pool and of the calls in progress.
THEOREM SchedulerTypes ==
  ASSUME Discipline
  PROVE  Spec => []TypeOK
<1>1. Init => IInv
  BY InitInv
<1>2. IInv /\ [Next]_vars => IInv'
  BY StepInv
<1>3. IInv => TypeOK
  BY DEF IInv
<1>. QED BY <1>1, <1>2, <1>3, PTL DEF Spec

\* The handle of a timer that one thread owns tells whether its callback is
\* scheduled, and in which slot (pf_scheduler_remove relies on it).
THEOREM HandlesTrue ==
  ASSUME Discipline
  PROVE  Spec => []HandleTruth
<1>1. SlotPartition /\ HandleTruth => HandleTruth
  OBVIOUS
<1>. QED BY <1>1, PoolSafe, PTL

\* A thread inside pf_scheduler_add fills a slot that is its own: no other
\* thread fills, links or frees it between the two locked regions.
THEOREM AddsSafe ==
  ASSUME Discipline
  PROVE  Spec => []AddsOwnSlot
<1>1. Init => IInv
  BY InitInv
<1>2. IInv /\ [Next]_vars => IInv'
  BY StepInv
<1>3. IInv => AddsOwnSlot
  BY DEF IInv
<1>. QED BY <1>1, <1>2, <1>3, PTL DEF Spec

(***************************************************************************)
(* The busy list is in order of expiry, and timers fire in time.  The code *)
(* compares the low bits of two times as a signed number; that is their    *)
(* difference because both are close to the clock (Timely), and the        *)
(* entries are close to it because each was inserted with the time its     *)
(* thread had read, whatever happened since.                               *)
(***************************************************************************)
LEMMA ModIs ==
  ASSUME NEW m \in Nat \ {0}, NEW q \in Int, NEW r \in 0 .. m - 1
  PROVE  (q * m + r) % m = r
<1>. DEFINE a == q * m + r
            k == a \div m
            z == a % m
<1>1. a \in Int /\ k \in Int /\ z \in 0 .. m - 1 /\ a = k * m + z
  OBVIOUS
<1>2. (q - k) * m = z - r
  BY <1>1
<1>3. q - k >= 1 => (q - k) * m >= m
  BY <1>1
<1>4. q - k <= -1 => (q - k) * m <= -m
  BY <1>1
<1>5. q = k
  BY <1>1, <1>2, <1>3, <1>4
<1>. QED BY <1>1, <1>5

\* Residues can be taken before or after a subtraction.
LEMMA ModDifference ==
  ASSUME NEW m \in Nat \ {0}, NEW a \in Int, NEW b \in Int
  PROVE  ((a % m) - (b % m)) % m = (a - b) % m
<1>. DEFINE c == a - b
            x == a \div m
            y == b \div m
            z == c \div m
<1>1. /\ x \in Int /\ a % m \in 0 .. m - 1 /\ a = x * m + (a % m)
      /\ y \in Int /\ b % m \in 0 .. m - 1 /\ b = y * m + (b % m)
      /\ z \in Int /\ c % m \in 0 .. m - 1 /\ c = z * m + (c % m)
  OBVIOUS
<1>2. (a % m) - (b % m) = (z - x + y) * m + (c % m)
  BY <1>1
<1>. HIDE DEF c, x, y, z
<1>3. z - x + y \in Int
  BY <1>1
<1>4. ((z - x + y) * m + (c % m)) % m = c % m
  BY <1>1, <1>3, ModIs
<1>. QED BY <1>2, <1>4 DEF c

\* The signed comparison of two clock readings that are not half a turn apart.
LEMMA DiffIs ==
  ASSUME NEW a \in Int, NEW b \in Int, 2 * (a - b) < M, -M < 2 * (a - b)
  PROVE  Diff(a, b) = a - b
<1>. DEFINE d == a - b
<1>1. M \in Nat \ {0} /\ d \in Int /\ 2 * d < M /\ -M < 2 * d
  OBVIOUS
<1>2. ((a % M) - (b % M)) % M = d % M
  BY <1>1, ModDifference
<1>. HIDE DEF d
<1>3. CASE d >= 0
  <2>1. (0 * M + d) % M = d
    BY <1>1, <1>3, ModIs
  <2>2. d % M = d
    BY <1>1, <2>1
  <2>3. Diff(a, b) = d
    BY <1>1, <1>2, <2>2 DEF Diff, Signed
  <2>. QED BY <2>3 DEF d
<1>4. CASE d < 0
  <2>. DEFINE r == d + M
  <2>1. r \in 0 .. M - 1 /\ d = (-1) * M + r /\ 2 * r >= M
    BY <1>1, <1>4
  <2>. HIDE DEF r
  <2>2. d % M = r
    BY <1>1, <2>1, ModIs
  <2>3. Diff(a, b) = r - M
    BY <1>1, <1>2, <2>1, <2>2 DEF Diff, Signed
  <2>. QED BY <1>1, <2>1, <2>3 DEF d
<1>. QED BY <1>1, <1>3, <1>4

\* Two times near the clock are compared as they are.
LEMMA RecentDiff ==
  ASSUME clock \in Nat, NEW a \in Int, NEW b \in Int, Recent(a), Recent(b)
  PROVE  Diff(a, b) = a - b
<1>1. 2 * (a - b) < M /\ -M < 2 * (a - b)
  BY DEF Recent
<1>. QED BY <1>1, DiffIs

\* What the invariants say of the entries of the busy list.
LEMMA BusyFacts ==
  ASSUME IInv
  PROVE  /\ Len(busy) \in Nat
         /\ \A k \in 1 .. Len(busy) : /\ busy[k] \in Slots /\ busy[k] \in Range(busy)
                                      /\ slot[busy[k]].due \in Nat
<1>1. busy \in Seq(Slots) /\ slot \in [Slots -> Slot]
  BY DEF IInv, TypeOK
<1>2. Len(busy) \in Nat /\ \A k \in 1 .. Len(busy) : busy[k] \in Slots
  BY <1>1, LenProperties, ElementOfSeq
<1>3. \A k \in 1 .. Len(busy) : busy[k] \in Range(busy)
  BY <1>1, LenProperties DEF Range
<1>4. \A i \in Slots : slot[i].due \in Nat
  BY <1>1 DEF Slot
<1>. QED BY <1>2, <1>3, <1>4

LEMMA InitOrder == Init => OrderInv
<1>. SUFFICES ASSUME Init PROVE OrderInv
  OBVIOUS
<1>1. Len(busy) = 0 /\ ~tick.on /\ \A t \in Threads : ctx[t].at = "idle"
  BY DEF Init, Idle
<1>. QED BY <1>1 DEF OrderInv, BusySorted, Timely

\* A thread moves on, and neither the list nor an expiry time changes.
LEMMA ThreadOrder ==
  ASSUME IInv, OrderInv, NEW t \in Threads, UNCHANGED <<clock, busy, tick>>,
         \A i \in Slots : slot'[i].due = slot[i].due,
         \A u \in Threads : u # t => ctx'[u] = ctx[u],
         ctx'[t].at # "filled",
         ctx'[t].at \in {"idle", "called"} \/ Recent(ctx'[t].due)
  PROVE  OrderInv'
<1>1. BusySorted'
  BY BusyFacts DEF OrderInv, BusySorted
<1>2. \A k \in 1 .. Len(busy) : Recent(slot'[busy[k]].due)
  BY BusyFacts DEF OrderInv, Timely
<1>3. \A u \in Threads : ctx'[u].at \notin {"idle", "called"} => Recent(ctx'[u].due)
  BY DEF OrderInv, Timely
<1>4. ASSUME NEW u \in Threads, ctx'[u].at = "filled"
      PROVE  slot'[ctx'[u].ix].due = ctx'[u].due
  <2>1. ctx'[u] = ctx[u]
    BY <1>4
  <2>2. ctx[u].ix \in Slots
    BY <1>4, <2>1 DEF IInv, AddsOwnSlot
  <2>. QED BY <1>4, <2>1, <2>2 DEF OrderInv, Timely
<1>5. tick.on => tick.now \in clock - MaxLate .. clock
  BY DEF OrderInv, Timely
<1>. QED BY <1>1, <1>2, <1>3, <1>4, <1>5 DEF OrderInv, Timely, Recent

\* An entry leaves the list.
LEMMA ShorterOrder ==
  ASSUME IInv, OrderInv, UNCHANGED <<clock, tick>>, NEW n \in 1 .. Len(busy),
         Len(busy') = Len(busy) - 1,
         \A i \in 1 .. Len(busy) - 1 : busy'[i] = IF i < n THEN busy[i] ELSE busy[i + 1],
         \A i \in Slots : slot'[i].due = slot[i].due,
         \A u \in Threads : ctx'[u] = ctx[u] \/ ctx'[u].at \in {"idle", "called"}
  PROVE  OrderInv'
<1>. DEFINE old(i) == IF i < n THEN i ELSE i + 1
<1>1. Len(busy) \in Nat
  BY BusyFacts
<1>2. \A i \in 1 .. Len(busy') : old(i) \in 1 .. Len(busy) /\ busy'[i] = busy[old(i)]
  BY <1>1
<1>3. \A i, j \in 1 .. Len(busy') : i < j => old(i) < old(j)
  BY <1>1
<1>4. \A i \in 1 .. Len(busy') : slot'[busy'[i]].due = slot[busy[old(i)]].due
  BY <1>2, BusyFacts
<1>. HIDE DEF old
<1>5. BusySorted'
  <2>. SUFFICES ASSUME NEW i \in 1 .. Len(busy'), NEW j \in 1 .. Len(busy'), i < j
                PROVE  slot'[busy'[i]].due <= slot'[busy'[j]].due
    BY DEF BusySorted
  <2>1. slot[busy[old(i)]].due <= slot[busy[old(j)]].due
    BY <1>2, <1>3 DEF OrderInv, BusySorted
  <2>. QED BY <1>4, <2>1
<1>6. \A k \in 1 .. Len(busy') : Recent(slot'[busy'[k]].due)
  BY <1>2, <1>4 DEF OrderInv, Timely
<1>7. \A u \in Threads : ctx'[u].at \notin {"idle", "called"} => Recent(ctx'[u].due)
  BY DEF OrderInv, Timely
<1>8. ASSUME NEW u \in Threads, ctx'[u].at = "filled"
      PROVE  slot'[ctx'[u].ix].due = ctx'[u].due
  <2>1. ctx'[u] = ctx[u]
    BY <1>8
  <2>2. ctx[u].ix \in Slots
    BY <1>8, <2>1 DEF IInv, AddsOwnSlot
  <2>. QED BY <1>8, <2>1, <2>2 DEF OrderInv, Timely
<1>9. tick.on => tick.now \in clock - MaxLate .. clock
  BY DEF OrderInv, Timely
<1>. QED BY <1>5, <1>6, <1>7, <1>8, <1>9 DEF OrderInv, Timely, Recent

\* A new entry goes behind those that expire earlier, before the others.
LEMMA InsertPosOrder ==
  ASSUME IInv, OrderInv, NEW ix \in Slots, Recent(slot[ix].due)
  PROVE  /\ InsertPos(ix) \in 1 .. Len(busy) + 1
         /\ \A k \in 1 .. Len(busy) : IF k < InsertPos(ix)
                                      THEN slot[busy[k]].due < slot[ix].due
                                      ELSE slot[ix].due <= slot[busy[k]].due
<1>. DEFINE later == {k \in 1 .. Len(busy) : Diff(slot[ix].due, slot[busy[k]].due) <= 0}
            p == InsertPos(ix)
<1>1. p \in 1 .. Len(busy) + 1
  BY InsertPosType DEF IInv, TypeOK
<1>2. slot[ix].due \in Nat /\ clock \in Nat /\ Len(busy) \in Nat
  <2>1. slot[ix] \in Slot
    BY DEF IInv, TypeOK
  <2>. QED BY <2>1, BusyFacts DEF IInv, TypeOK, Slot
<1>3. \A k \in 1 .. Len(busy) : Diff(slot[ix].due, slot[busy[k]].due) = slot[ix].due - slot[busy[k]].due
  BY <1>2, BusyFacts, RecentDiff DEF OrderInv, Timely
<1>4. \A k \in 1 .. Len(busy) : k \in later <=> slot[ix].due <= slot[busy[k]].due
  BY <1>2, <1>3, BusyFacts
<1>5. p = IF later = {} THEN Len(busy) + 1 ELSE CHOOSE k \in later : \A j \in later : k <= j
  BY DEF InsertPos
<1>6. later \subseteq 1 .. Len(busy) /\ later \in SUBSET Nat
  BY <1>2
<1>. HIDE DEF later, p
<1>7. CASE later = {}
  <2>1. ASSUME NEW k \in 1 .. Len(busy) PROVE k < p /\ slot[busy[k]].due < slot[ix].due
    BY <1>2, <1>4, <1>5, <1>7, BusyFacts
  <2>. QED BY <1>1, <2>1 DEF p
<1>8. CASE later # {}
  <2>1. \E k \in later : \A j \in later : k <= j
    BY <1>6, <1>8, LeastNatural
  <2>2. p \in later /\ \A j \in later : p <= j
    BY <1>5, <1>8, <2>1
  <2>3. ASSUME NEW k \in 1 .. Len(busy), k < p PROVE slot[busy[k]].due < slot[ix].due
    BY <1>2, <1>4, <1>6, <2>2, <2>3, BusyFacts
  <2>4. ASSUME NEW k \in 1 .. Len(busy), ~(k < p) PROVE slot[ix].due <= slot[busy[k]].due
    <3>1. p \in 1 .. Len(busy) /\ slot[ix].due <= slot[busy[p]].due
      BY <1>4, <1>6, <2>2
    <3>2. slot[busy[p]].due <= slot[busy[k]].due
      BY <2>4, <3>1, BusyFacts DEF OrderInv, BusySorted
    <3>. QED BY <1>2, <3>1, <3>2, BusyFacts
  <2>. QED BY <1>1, <2>3, <2>4 DEF p
<1>. QED BY <1>7, <1>8

LEMMA LinkOrder ==
  ASSUME IInv, OrderInv, NEW t \in Threads, AddLink(t)
  PROVE  OrderInv'
<1>. DEFINE ix == ctx[t].ix
            p == InsertPos(ix)
            v == slot[ix].due
<1>1. /\ ctx[t].at = "filled" /\ busy' = InsertAt(busy, p, ix)
      /\ ctx' = [ctx EXCEPT ![t].at = "linked"]
      /\ UNCHANGED <<clock, free, slot, handle, tick, call>>
  BY DEF AddLink
<1>2. ix \in Slots /\ v = ctx[t].due /\ Recent(v)
  BY <1>1 DEF IInv, AddsOwnSlot, OrderInv, Timely
<1>3. /\ p \in 1 .. Len(busy) + 1
      /\ \A k \in 1 .. Len(busy) : IF k < p THEN slot[busy[k]].due < v ELSE v <= slot[busy[k]].due
  BY <1>2, InsertPosOrder
<1>4. busy \in Seq(Slots) /\ Len(busy) \in Nat /\ v \in Nat
  <2>1. slot[ix] \in Slot
    BY <1>2 DEF IInv, TypeOK
  <2>. QED BY <2>1, BusyFacts DEF IInv, TypeOK, Slot
<1>. HIDE DEF p, v
<1>5. /\ Len(busy') = Len(busy) + 1
      /\ \A i \in 1 .. Len(busy) + 1 :
           busy'[i] = IF i < p THEN busy[i] ELSE IF i = p THEN ix ELSE busy[i - 1]
  <2>. DEFINE b == InsertAt(busy, p, ix)
  <2>1. /\ Len(b) = Len(busy) + 1
        /\ \A i \in 1 .. Len(busy) + 1 :
             b[i] = IF i < p THEN busy[i] ELSE IF i = p THEN ix ELSE busy[i - 1]
    <3>. HIDE DEF ix
    <3>. QED BY <1>2, <1>3, <1>4, InsertItems
  <2>2. busy' = b
    BY <1>1
  <2>. HIDE DEF b, ix
  <2>. QED BY <2>1, <2>2
<1>6. \A i \in 1 .. Len(busy) + 1 :
        /\ i < p => i \in 1 .. Len(busy) /\ slot[busy'[i]].due = slot[busy[i]].due
        /\ i = p => slot[busy'[i]].due = v
        /\ p < i => i - 1 \in 1 .. Len(busy) /\ slot[busy'[i]].due = slot[busy[i - 1]].due
  BY <1>3, <1>4, <1>5 DEF v
<1>7. BusySorted'
  <2>. SUFFICES ASSUME NEW i \in 1 .. Len(busy) + 1, NEW j \in 1 .. Len(busy) + 1, i < j
                PROVE  slot[busy'[i]].due <= slot[busy'[j]].due
    BY <1>1, <1>5 DEF BusySorted
  <2>0. \A a, b \in 1 .. Len(busy) : a < b => slot[busy[a]].due <= slot[busy[b]].due
    BY DEF OrderInv, BusySorted
  <2>1. CASE j < p
    BY <1>3, <1>4, <1>6, <2>0, <2>1
  <2>2. CASE j = p
    <3>1. i \in 1 .. Len(busy) /\ i < p /\ slot[busy[i]].due < v
      BY <1>3, <1>4, <1>6, <2>2
    <3>. QED BY <1>4, <1>6, <2>2, <3>1, BusyFacts
  <2>3. CASE p < j /\ i < p
    <3>1. j - 1 \in 1 .. Len(busy) /\ v <= slot[busy[j - 1]].due
      BY <1>3, <1>4, <1>6, <2>3
    <3>2. i \in 1 .. Len(busy) /\ slot[busy[i]].due < v
      BY <1>3, <1>4, <1>6, <2>3
    <3>3. slot[busy[i]].due <= slot[busy[j - 1]].due
      BY <1>4, <3>1, <3>2, BusyFacts
    <3>. QED BY <1>6, <2>3, <3>3
  <2>4. CASE i = p
    <3>1. j - 1 \in 1 .. Len(busy) /\ v <= slot[busy[j - 1]].due
      BY <1>3, <1>4, <1>6, <2>4
    <3>. QED BY <1>6, <2>4, <3>1
  <2>5. CASE p < i
    <3>1. i - 1 \in 1 .. Len(busy) /\ j - 1 \in 1 .. Len(busy) /\ i - 1 < j - 1
      BY <1>3, <1>4, <2>5
    <3>2. slot[busy'[i]].due = slot[busy[i - 1]].due /\ slot[busy'[j]].due = slot[busy[j - 1]].due
      BY <1>3, <1>4, <1>6, <2>5
    <3>. QED BY <2>0, <3>1, <3>2
  <2>. QED BY <1>3, <1>4, <2>1, <2>2, <2>3, <2>4, <2>5
<1>8. \A k \in 1 .. Len(busy') : Recent(slot[busy'[k]].due)
  <2>. SUFFICES ASSUME NEW k \in 1 .. Len(busy) + 1
                PROVE  Recent(slot[busy'[k]].due)
    BY <1>5
  <2>1. \A a \in 1 .. Len(busy) : Recent(slot[busy[a]].due)
    BY DEF OrderInv, Timely
  <2>2. k < p \/ k = p \/ p < k
    BY <1>3, <1>4
  <2>. QED BY <1>2, <1>6, <2>1, <2>2
<1>9. /\ ctx'[t].at = "linked" /\ ctx'[t].due = ctx[t].due
      /\ \A u \in Threads : u # t => ctx'[u] = ctx[u]
  <2>1. ctx \in [Threads -> Context]
    BY DEF IInv, TypeOK
  <2>2. ctx[t] \in Context
    BY <2>1
  <2>. QED BY <1>1, <2>1, <2>2 DEF Context
<1>10. Timely'
  BY <1>1, <1>2, <1>8, <1>9 DEF OrderInv, Timely, Recent
<1>. QED BY <1>7, <1>10 DEF OrderInv

\* The slot that gets its time is in no list and in nobody else's hands.
LEMMA FillOrder ==
  ASSUME IInv, OrderInv, NEW t \in Threads, AddFill(t)
  PROVE  OrderInv'
<1>. DEFINE ix == ctx[t].ix
<1>1. /\ ctx[t].at = "flagged" /\ UNCHANGED <<clock, free, busy, handle, tick, call>>
      /\ slot' = [slot EXCEPT ![ix] = [in_use |-> slot[ix].in_use, name |-> Name[ctx[t].h],
                                       arg |-> ctx[t].h, due |-> ctx[t].due]]
      /\ ctx' = [ctx EXCEPT ![t].at = "filled"]
  BY DEF AddFill
<1>2. t \in Holding /\ ix \in Slots /\ ix \in HeldSlots
  BY <1>1 DEF Holding, HeldSlots, IInv, AddsOwnSlot
<1>3. ctx \in [Threads -> Context] /\ ctx[t] \in Context /\ slot \in [Slots -> Slot]
  BY DEF IInv, TypeOK
<1>4. /\ ctx'[t].at = "filled" /\ ctx'[t].ix = ix /\ ctx'[t].due = ctx[t].due
      /\ \A u \in Threads : u # t => ctx'[u] = ctx[u]
  BY <1>1, <1>3 DEF Context
<1>5. slot'[ix].due = ctx[t].due /\ \A i \in Slots : i # ix => slot'[i] = slot[i]
  BY <1>1, <1>2, <1>3
<1>6. ix \notin Range(busy) /\ \A u \in Holding : u # t => ctx[u].ix # ix
  BY <1>2 DEF IInv, SlotPartition
<1>. HIDE DEF ix
<1>7. \A k \in 1 .. Len(busy) : slot'[busy[k]] = slot[busy[k]]
  BY <1>5, <1>6, BusyFacts
<1>8. BusySorted'
  BY <1>1, <1>7 DEF OrderInv, BusySorted
<1>9. Recent(ctx[t].due)
  BY <1>1 DEF OrderInv, Timely
<1>10. ASSUME NEW u \in Threads, ctx'[u].at = "filled"
       PROVE  slot'[ctx'[u].ix].due = ctx'[u].due
  <2>1. CASE u = t
    BY <1>4, <1>5, <2>1
  <2>2. CASE u # t
    <3>1. ctx'[u] = ctx[u] /\ u \in Holding /\ ctx[u].ix \in Slots
      BY <1>4, <1>10, <2>2 DEF Holding, IInv, AddsOwnSlot
    <3>2. slot'[ctx[u].ix] = slot[ctx[u].ix]
      BY <1>5, <1>6, <2>2, <3>1
    <3>. QED BY <1>10, <3>1, <3>2 DEF OrderInv, Timely
  <2>. QED BY <2>1, <2>2
<1>11. Timely'
  BY <1>1, <1>4, <1>7, <1>9, <1>10 DEF OrderInv, Timely, Recent
<1>. QED BY <1>8, <1>11 DEF OrderInv

\* Reading the clock: the delay is at most MaxDelay.
LEMMA NowOrder ==
  ASSUME IInv, OrderInv, NEW t \in Threads, NEW d \in 1 .. MaxDelay, AddNow(t, d)
  PROVE  OrderInv'
<1>1. ctx[t] \in Context /\ ctx \in [Threads -> Context] /\ clock \in Nat
  BY DEF IInv, TypeOK
<1>2. /\ ctx'[t].at = "timed" /\ ctx'[t].due = clock + d
      /\ \A u \in Threads : u # t => ctx'[u] = ctx[u]
      /\ UNCHANGED <<clock, busy, slot, tick>>
  BY <1>1 DEF AddNow, Context
<1>3. Recent(clock + d)
  BY <1>1 DEF Recent
<1>. QED BY <1>2, <1>3, ThreadOrder

\* The other steps of pf_scheduler_add keep the time they have read.
LEMMA AddOrder ==
  ASSUME IInv, OrderInv, NEW t \in Threads,
         \/ AddTake(t) \/ AddFlag(t) \/ AddReturn(t)
         \/ \E h \in Handles : AddCall(t, h)
  PROVE  OrderInv'
<1>1. ctx[t] \in Context /\ ctx \in [Threads -> Context] /\ slot \in [Slots -> Slot]
  BY DEF IInv, TypeOK
<1>2. ctx[t].at \notin {"idle", "called"} => Recent(ctx[t].due)
  BY DEF OrderInv, Timely
<1>3. CASE AddTake(t)
  <2>1. /\ UNCHANGED <<clock, busy, slot, tick>> /\ ctx[t].at = "timed"
        /\ \A u \in Threads : u # t => ctx'[u] = ctx[u]
    BY <1>1, <1>3 DEF AddTake
  <2>2. \/ ctx'[t].at = "idle"
        \/ ctx'[t].at = "taken" /\ ctx'[t].due = ctx[t].due
    BY <1>1, <1>3 DEF AddTake, Context, Idle
  <2>. QED BY <1>2, <2>1, <2>2, ThreadOrder
<1>4. CASE AddFlag(t)
  <2>. DEFINE ix == ctx[t].ix
  <2>1. /\ UNCHANGED <<clock, busy, tick>> /\ ctx[t].at = "taken"
        /\ slot' = [slot EXCEPT ![ix].in_use = TRUE]
        /\ ctx'[t].at = "flagged" /\ ctx'[t].due = ctx[t].due
        /\ \A u \in Threads : u # t => ctx'[u] = ctx[u]
    BY <1>1, <1>4 DEF AddFlag, Context
  <2>2. ix \in Slots
    BY <2>1 DEF IInv, AddsOwnSlot
  <2>. HIDE DEF ix
  <2>3. [slot[ix] EXCEPT !.in_use = TRUE].due = slot[ix].due
    BY <1>1, <2>2 DEF Slot
  <2>4. \A i \in Slots : slot'[i].due = slot[i].due
    BY <1>1, <2>1, <2>2, <2>3
  <2>. QED BY <1>2, <2>1, <2>4, ThreadOrder
<1>5. CASE AddReturn(t)
  <2>1. /\ UNCHANGED <<clock, busy, slot, tick>> /\ ctx'[t].at = "idle"
        /\ \A u \in Threads : u # t => ctx'[u] = ctx[u]
    BY <1>1, <1>5 DEF AddReturn, Idle
  <2>. QED BY <2>1, ThreadOrder
<1>6. CASE \E h \in Handles : AddCall(t, h)
  <2>0. PICK h \in Handles : AddCall(t, h)
    BY <1>6
  <2>. DEFINE c == [Idle EXCEPT !.at = "called", !.h = h]
  <2>2. c.at = "called"
    BY DEF Idle
  <2>3. UNCHANGED <<clock, busy, slot, tick>> /\ ctx' = [ctx EXCEPT ![t] = c]
    BY <2>0 DEF AddCall
  <2>. HIDE DEF c
  <2>1. /\ UNCHANGED <<clock, busy, slot, tick>> /\ ctx'[t].at = "called"
        /\ \A u \in Threads : u # t => ctx'[u] = ctx[u]
    BY <1>1, <2>2, <2>3
  <2>. QED BY <2>1, ThreadOrder
<1>. QED BY <1>3, <1>4, <1>5, <1>6

\* A slot that is freed keeps the time it had.
LEMMA FreedDue ==
  ASSUME slot \in [Slots -> Slot], NEW ix \in Slots, slot' = [slot EXCEPT ![ix].in_use = FALSE]
  PROVE  \A i \in Slots : slot'[i].due = slot[i].due
<1>1. [slot[ix] EXCEPT !.in_use = FALSE].due = slot[ix].due
  BY DEF Slot
<1>2. \A i \in Slots : slot'[i] = IF i = ix THEN [slot[ix] EXCEPT !.in_use = FALSE] ELSE slot[i]
  OBVIOUS
<1>. QED BY <1>1, <1>2

LEMMA RemoveOrder ==
  ASSUME IInv, OrderInv, NEW h \in Handles, DoRemove(h), handle[h] # Stopped,
         UNCHANGED <<clock, tick>>, Main \in Threads,
         \/ ctx' = ctx
         \/ ctx' = [ctx EXCEPT ![Main] = [Idle EXCEPT !.at = "called", !.h = h]]
  PROVE  OrderInv'
<1>. DEFINE ix == handle[h]
<1>1. /\ ctx \in [Threads -> Context] /\ slot \in [Slots -> Slot] /\ ix \in Slots
      /\ busy \in Seq(Slots)
  BY DEF IInv, TypeOK
<1>. DEFINE c == [Idle EXCEPT !.at = "called", !.h = h]
<1>0. c.at = "called"
  BY DEF Idle
<1>2. \A u \in Threads : ctx'[u] = ctx[u] \/ ctx'[u].at \in {"idle", "called"}
  <2>1. ctx' = ctx \/ ctx' = [ctx EXCEPT ![Main] = c]
    OBVIOUS
  <2>. HIDE DEF c
  <2>. QED BY <1>0, <1>1, <2>1
<1>3. \A i \in Slots : slot'[i].due = slot[i].due
  BY <1>1, FreedDue DEF DoRemove
<1>4. CASE Removable(h) /\ ix \in Range(busy)
  <2>. DEFINE n == CHOOSE k \in 1 .. Len(busy) : busy[k] = ix
  <2>1. busy' = RemoveAt(busy, n)
    BY <1>4 DEF DoRemove, Unlink
  <2>2. n \in 1 .. Len(busy)
    BY <1>1, <1>4, LenProperties DEF Range
  <2>. HIDE DEF n
  <2>3. /\ Len(busy') = Len(busy) - 1
        /\ \A i \in 1 .. Len(busy) - 1 : busy'[i] = IF i < n THEN busy[i] ELSE busy[i + 1]
    BY SMTT(30), <1>1, <2>1, <2>2, RemoveItems
  <2>. QED BY SMTT(30), <1>2, <1>3, <2>2, <2>3, ShorterOrder
<1>5. CASE ~(Removable(h) /\ ix \in Range(busy))
  <2>1. busy' = busy
    BY <1>5 DEF DoRemove, Unlink
  <2>2. \A u \in Threads \ {Main} : ctx'[u] = ctx[u]
    BY <1>1
  <2>3. CASE ctx' = ctx
    <3>1. BusySorted'
      BY <1>3, <2>1, BusyFacts DEF OrderInv, BusySorted
    <3>2. \A k \in 1 .. Len(busy) : slot'[busy[k]].due = slot[busy[k]].due
      BY <1>3, BusyFacts
    <3>3. \A u \in Threads : ctx[u].at = "filled" => ctx[u].ix \in Slots
      BY DEF IInv, AddsOwnSlot
    <3>4. Timely'
      BY <1>3, <2>1, <2>3, <3>2, <3>3 DEF OrderInv, Timely, Recent
    <3>. QED BY <3>1, <3>4 DEF OrderInv
  <2>4. CASE ctx' = [ctx EXCEPT ![Main] = [Idle EXCEPT !.at = "called", !.h = h]]
    <3>1. ctx'[Main].at = "called"
      BY <1>1, <2>4 DEF Idle
    <3>. QED BY <1>3, <2>1, <2>2, <3>1, ThreadOrder
  <2>. QED BY <2>3, <2>4
<1>. QED BY <1>4, <1>5

LEMMA PopOrder == ASSUME IInv, OrderInv, TickPop PROVE OrderInv'
<1>1. /\ busy # << >> /\ busy' = Tail(busy) /\ slot' = [slot EXCEPT ![Head(busy)].in_use = FALSE]
      /\ UNCHANGED <<clock, ctx, tick>>
  BY DEF TickPop, Expired
<1>2. busy \in Seq(Slots) /\ slot \in [Slots -> Slot] /\ Len(busy) \in Nat
  BY BusyFacts DEF IInv, TypeOK
<1>3. /\ 1 \in 1 .. Len(busy) /\ Head(busy) \in Slots /\ Len(busy') = Len(busy) - 1
      /\ \A i \in 1 .. Len(busy) - 1 : busy'[i] = busy[i + 1]
  BY <1>1, <1>2, HeadTailProperties, EmptySeq, LenProperties
<1>4. \A i \in Slots : slot'[i].due = slot[i].due
  BY <1>1, <1>2, <1>3, FreedDue
<1>5. \A i \in 1 .. Len(busy) - 1 : busy'[i] = IF i < 1 THEN busy[i] ELSE busy[i + 1]
  BY <1>3
<1>. QED BY <1>1, <1>3, <1>4, <1>5, ShorterOrder

\* Time passes only as far as nothing is overdue by more than MaxLate.
LEMMA AdvanceOrder == ASSUME IInv, OrderInv, Advance PROVE OrderInv'
<1>1. /\ clock' = clock + 1 /\ UNCHANGED <<free, busy, slot, handle, ctx, tick, call>>
      /\ \A k \in 1 .. Len(busy) : clock + 1 - slot[busy[k]].due <= MaxLate
      /\ \A t \in Threads : ctx[t].at \notin {"idle", "called"} => clock + 1 - ctx[t].due <= MaxLate
      /\ tick.on => clock + 1 - tick.now <= MaxLate
  BY DEF Advance
<1>2. clock \in Nat /\ tick.now \in Nat /\ \A t \in Threads : ctx[t].due \in Nat
  BY DEF IInv, TypeOK, Context
<1>3. \A k \in 1 .. Len(busy) : slot[busy[k]].due \in clock + 1 - MaxLate .. clock + 1 + MaxDelay
  BY <1>1, <1>2, BusyFacts DEF OrderInv, Timely, Recent
<1>4. \A t \in Threads : ctx[t].at \notin {"idle", "called"} =>
        ctx[t].due \in clock + 1 - MaxLate .. clock + 1 + MaxDelay
  BY <1>1, <1>2 DEF OrderInv, Timely, Recent
<1>5. tick.on => tick.now \in clock + 1 - MaxLate .. clock + 1
  BY <1>1, <1>2 DEF OrderInv, Timely
<1>6. \A t \in Threads : ctx[t].at = "filled" => slot[ctx[t].ix].due = ctx[t].due
  BY DEF OrderInv, Timely
<1>7. clock' = clock + 1 /\ busy' = busy /\ slot' = slot /\ ctx' = ctx /\ tick' = tick
  BY <1>1
<1>8. Timely'
  <2>1. \A k \in 1 .. Len(busy) : Recent(slot[busy[k]].due)'
    BY <1>2, <1>3, <1>7 DEF Recent
  <2>2. \A t \in Threads : ctx[t].at \notin {"idle", "called"} => Recent(ctx[t].due)'
    BY <1>2, <1>4, <1>7 DEF Recent
  <2>3. tick'.on => tick'.now \in clock' - MaxLate .. clock'
    BY <1>2, <1>5, <1>7
  <2>. QED BY <1>6, <1>7, <2>1, <2>2, <2>3 DEF Timely
<1>. QED BY <1>1, <1>8 DEF OrderInv, BusySorted

\* The tick starts with the time it reads; a callback and the end of the tick
\* change no time.
LEMMA TickOrder ==
  ASSUME IInv, OrderInv, TickStart \/ Callback \/ TickEnd \/ UNCHANGED vars
  PROVE  OrderInv'
<1>1. UNCHANGED <<clock, busy, slot, ctx>>
  BY DEF TickStart, Callback, TickEnd, vars
<1>2. clock \in Nat /\ MaxLate \in Nat
  BY DEF IInv, TypeOK
<1>3. tick'.on => tick'.now \in clock - MaxLate .. clock
  <2>1. CASE TickStart
    BY <1>2, <2>1 DEF TickStart
  <2>2. CASE TickEnd
    BY <2>2 DEF TickEnd, IInv, TypeOK
  <2>3. CASE tick' = tick
    BY <2>3 DEF OrderInv, Timely
  <2>. QED BY <2>1, <2>2, <2>3 DEF Callback, vars
<1>. QED BY <1>1, <1>3 DEF OrderInv, BusySorted, Timely, Recent

LEMMA StepOrder == IInv /\ OrderInv /\ Discipline /\ [Next]_vars => OrderInv'
<1>. SUFFICES ASSUME IInv, OrderInv, Discipline, [Next]_vars PROVE OrderInv'
  OBVIOUS
<1>1. ASSUME NEW t \in Threads, NEW h \in Handles, Restart(t, h) \/ RemoveIfRunning(t, h)
      PROVE  OrderInv'
  <2>1. t = Main
    BY <1>1 DEF Restart, RemoveIfRunning, Discipline
  <2>. QED BY <1>1, <2>1, RemoveOrder DEF Restart, RemoveIfRunning
<1>2. ASSUME NEW t \in Threads, ThreadStep(t) PROVE OrderInv'
  BY <1>1, <1>2, NowOrder, AddOrder, FillOrder, LinkOrder DEF ThreadStep
<1>3. CASE TickStep \/ Advance \/ UNCHANGED vars
  BY <1>3, TickOrder, PopOrder, AdvanceOrder DEF TickStep
<1>. QED BY <1>2, <1>3 DEF Next

LEMMA AlwaysOrder ==
  ASSUME Discipline
  PROVE  Spec => [](IInv /\ OrderInv)
<1>1. Init => IInv /\ OrderInv
  BY InitInv, InitOrder
<1>2. IInv /\ OrderInv /\ [Next]_vars => IInv' /\ OrderInv'
  BY StepInv, StepOrder
<1>. QED BY <1>1, <1>2, PTL DEF Spec

\* The busy list stays in order of expiry, whatever threads add in between and
\* also where the 32-bit clock turns over (pf_scheduler_add, link_before).
THEOREM BusyStaysSorted ==
  ASSUME Discipline
  PROVE  Spec => []BusySorted
<1>1. OrderInv => BusySorted
  BY DEF OrderInv
<1>. QED BY <1>1, AlwaysOrder, PTL

\* What the tick decides about the head of the list.
LEMMA HeadExpired ==
  ASSUME IInv, OrderInv, tick.on, busy # << >>
  PROVE  /\ Diff(tick.now, slot[Head(busy)].due) = tick.now - slot[Head(busy)].due
         /\ tick.now \in Nat /\ slot[Head(busy)].due \in Nat
         /\ \A i \in Range(busy) : slot[Head(busy)].due <= slot[i].due /\ slot[i].due \in Nat
<1>1. busy \in Seq(Slots) /\ clock \in Nat /\ tick.now \in Nat
  BY DEF IInv, TypeOK
<1>2. 1 \in 1 .. Len(busy) /\ Head(busy) = busy[1] /\ DOMAIN busy = 1 .. Len(busy)
  BY <1>1, HeadTailProperties, EmptySeq, LenProperties
<1>3. Recent(tick.now) /\ Recent(slot[Head(busy)].due)
  BY <1>1, <1>2 DEF OrderInv, Timely, Recent
<1>4. slot[Head(busy)].due \in Nat
  BY <1>2, BusyFacts
<1>5. ASSUME NEW i \in Range(busy)
      PROVE  slot[Head(busy)].due <= slot[i].due /\ slot[i].due \in Nat
  <2>1. PICK k \in 1 .. Len(busy) : i = busy[k]
    BY <1>2 DEF Range
  <2>2. CASE k = 1
    BY <1>2, <1>4, <2>1, <2>2
  <2>3. CASE k # 1
    <3>1. 1 < k
      BY <2>3
    <3>. QED BY <1>2, <2>1, <3>1, BusyFacts DEF OrderInv, BusySorted
  <2>. QED BY <2>2, <2>3
<1>. QED BY <1>1, <1>3, <1>4, <1>5, RecentDiff

LEMMA StepFires ==
  ASSUME IInv, OrderInv, Next
  PROVE  /\ call = None /\ call' # None =>
              /\ slot[Head(busy)].due <= tick.now
              /\ \A i \in Range(busy) : slot[Head(busy)].due <= slot[i].due
         /\ tick.on /\ ~tick'.on => \A i \in Range(busy) : slot[i].due > tick.now
<1>1. call = None /\ call' # None => TickPop
  BY DEF Next, ThreadStep, TickStep, AddCall, Restart, RemoveIfRunning, AddNow, AddTake,
         AddFlag, AddFill, AddLink, AddReturn, TickStart, TickEnd, Callback, Advance
<1>2. tick.on /\ ~tick'.on => TickEnd
  BY DEF Next, ThreadStep, TickStep, AddCall, Restart, RemoveIfRunning, AddNow, AddTake,
         AddFlag, AddFill, AddLink, AddReturn, TickStart, TickPop, Callback, Advance
<1>3. CASE TickPop
  <2>1. tick.on /\ busy # << >> /\ Diff(tick.now, slot[Head(busy)].due) >= 0 /\ tick' = tick
    BY <1>3 DEF TickPop, Expired
  <2>2. slot[Head(busy)].due <= tick.now
    BY <2>1, HeadExpired
  <2>. QED BY <2>1, <2>2, HeadExpired
<1>4. CASE TickEnd
  <2>1. tick.on /\ call' = call /\ ~Expired
    BY <1>4 DEF TickEnd
  <2>2. CASE busy = << >>
    BY <2>1, <2>2 DEF Range
  <2>3. CASE busy # << >>
    <3>1. ~(Diff(tick.now, slot[Head(busy)].due) >= 0)
      BY <2>1, <2>3 DEF Expired
    <3>2. slot[Head(busy)].due > tick.now
      BY <2>1, <2>3, <3>1, HeadExpired
    <3>3. ASSUME NEW i \in Range(busy) PROVE slot[i].due > tick.now
      BY <2>1, <2>3, <3>2, HeadExpired
    <3>. QED BY <2>1, <3>3
  <2>. QED BY <2>2, <2>3
<1>. QED BY <1>1, <1>2, <1>3, <1>4

\* A callback is called when its delay has passed and no sooner, those that
\* expire earlier first, and a tick leaves no expired entry behind
\* (pf_scheduler_tick, pf_scheduler_add).
THEOREM TimersInTime ==
  ASSUME Discipline
  PROVE  Spec => FiresInTime
<1>1. IInv /\ OrderInv /\ [Next]_vars =>
        [ /\ call = None /\ call' # None =>
               /\ slot[Head(busy)].due <= tick.now
               /\ \A i \in Range(busy) : slot[Head(busy)].due <= slot[i].due
          /\ tick.on /\ ~tick'.on => \A i \in Range(busy) : slot[i].due > tick.now ]_vars
  BY StepFires
<1>. QED BY <1>1, AlwaysOrder, PTL DEF Spec, FiresInTime
=============================================================================
