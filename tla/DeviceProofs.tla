---------------------------- MODULE DeviceProofs ----------------------------
(***************************************************************************)
(* Proofs about Plug, Diagnosis and Peers.                                 *)
(*                                                                         *)
(* Plug: what the connection expects and the application has plugged       *)
(* belongs to the connection, for any numbers of slots, subslots and ident *)
(* numbers, any requests, and whatever was plugged, pulled and left behind *)
(* before; what the controller learns of the submodules from the module    *)
(* difference block is so, and an answer to its connection tells it of     *)
(* every one that is not as expected.                                      *)
(*                                                                         *)
(* Diagnosis: the lists keep every item once, and the flags of a submodule *)
(* are those of its list, for any number of items, any subslots and any    *)
(* diagnoses, while two threads add, update, remove, plug and pull.        *)
(*                                                                         *)
(* Peers: the diagnosis of a port says what is known of its peer, for any  *)
(* peers, any checks, and any number of frames, timeouts, link changes and *)
(* restarts.                                                               *)
(***************************************************************************)
EXTENDS Plug, Diagnosis, Peers, FiniteSetTheorems, WellFoundedInduction, TLAPS

\* Induction over the natural numbers, for a set of them.
LEMMA UpFromZero ==
    ASSUME NEW S, 0 \in S, \A n \in Nat : n \in S => n + 1 \in S
    PROVE  Nat \subseteq S
<1> SUFFICES ASSUME Nat \ S # {} PROVE FALSE
  OBVIOUS
<1>1. PICK k \in Nat \ S : \A j \in Nat \ S : ~(<<j, k>> \in OpToRel(<, Nat))
  BY NatLessThanWellFounded, WFMin
<1>2. k - 1 \in Nat /\ k - 1 \in S => FALSE
  <2>1. ASSUME k - 1 \in Nat, k - 1 \in S PROVE FALSE
    <3>1. (k - 1) + 1 = k
      OBVIOUS
    <3> QED BY <2>1, <3>1
  <2> QED BY <2>1
<1>3. k - 1 \in Nat \ S
  BY <1>2
<1>4. <<k - 1, k>> \in {ss \in Nat \X Nat : ss[1] < ss[2]}
  BY <1>3
<1> QED BY <1>1, <1>3, <1>4 DEF OpToRel

\* c chooses a member of every set that has one; f is the fold of a set from b
\* with g, which takes the chosen members out one after the other.
Chooses(c, D) == \A s \in SUBSET D : s # {} => c[s] \in s
Folds(f, D, b, g, c) ==
    /\ f[{}] = b
    /\ \A s \in SUBSET D : s # {} => f[s] = g[<<f[s \ {c[s]}], c[s]>>]

\* Over a finite set there is such an f: a fold is what its equation says.
LEMMA FoldExists ==
    ASSUME NEW D, IsFiniteSet(D), NEW V, NEW b \in V, NEW g \in [V \X D -> V],
           NEW c, Chooses(c, D)
    PROVE  \E f \in [SUBSET D -> V] : Folds(f, D, b, g, c)
<1> DEFINE Small(n) == {s \in SUBSET D : Cardinality(s) <= n}
           Is(f, n) == f = [s \in Small(n) |-> IF s = {} THEN b ELSE g[<<f[s \ {c[s]}], c[s]>>]]
           Done == {n \in Nat : \E f \in [Small(n) -> V] : Is(f, n)}
<1> USE DEF Chooses
<1>1. \A s \in SUBSET D : IsFiniteSet(s) /\ Cardinality(s) \in Nat
  BY FS_Subset, FS_CardinalityType
<1>2. \A s \in SUBSET D : s # {} => Cardinality(s) # 0
                                    /\ Cardinality(s \ {c[s]}) = Cardinality(s) - 1
  BY <1>1, FS_RemoveElement, FS_EmptySet
<1>3. 0 \in Done
  <2> DEFINE f == [s \in Small(0) |-> b]
  <2>1. ASSUME NEW s \in Small(0) PROVE s = {}
    <3>1. s \in SUBSET D /\ Cardinality(s) <= 0
      OBVIOUS
    <3>2. Cardinality(s) = 0
      BY <1>1, <3>1
    <3> QED BY <1>2, <3>1, <3>2
  <2> HIDE DEF Small
  <2>2. f \in [Small(0) -> V] /\ Is(f, 0)
    BY <2>1
  <2> QED BY <2>2
<1>4. ASSUME NEW n \in Nat, n \in Done PROVE n + 1 \in Done
  <2>1. PICK f \in [Small(n) -> V] : Is(f, n)
    BY <1>4
  <2> DEFINE h == [s \in Small(n + 1) |-> IF s = {} THEN b ELSE g[<<f[s \ {c[s]}], c[s]>>]]
  <2>2. \A s \in Small(n + 1) : s # {} => s \ {c[s]} \in Small(n) /\ c[s] \in D
    BY <1>1, <1>2
  <2>3. \A s \in Small(n) : s \in Small(n + 1)
    BY <1>1
  <2> HIDE DEF Small
  <2>4. \A s \in Small(n) : h[s] = f[s]
    BY <2>1, <2>3
  <2>5. h \in [Small(n + 1) -> V]
    BY <2>2
  <2>6. \A s \in Small(n + 1) : s # {} => h[s \ {c[s]}] = f[s \ {c[s]}]
    BY <2>2, <2>4
  <2>7. Is(h, n + 1)
    BY <2>6
  <2> HIDE DEF Is, h
  <2> QED BY <2>5, <2>7
<1>5. Cardinality(D) \in Done
  <2> HIDE DEF Done
  <2>1. Cardinality(D) \in Nat
    BY FS_CardinalityType
  <2> QED BY <1>3, <1>4, <2>1, UpFromZero
<1>6. Small(Cardinality(D)) = SUBSET D
  BY FS_Subset, FS_CardinalityType
<1>7. PICK f \in [Small(Cardinality(D)) -> V] : Is(f, Cardinality(D))
  BY <1>5
<1>8. Folds(f, D, b, g, c)
  <2> HIDE DEF Small
  <2> QED BY <1>6, <1>7 DEF Folds
<1> HIDE DEF Small, Is
<1> QED BY <1>6, <1>7, <1>8


\* A sequence without repetitions of members of T is not longer than T.
LEMMA NoLongerThan ==
    ASSUME NEW T, IsFiniteSet(T), NEW n \in Nat, NEW h \in [1 .. n -> T],
           \A i, j \in 1 .. n : h[i] = h[j] => i = j
    PROVE  n <= Cardinality(T)
<1>1. IsFiniteSet(1 .. n) /\ Cardinality(1 .. n) = n
  BY FS_Interval
<1>2. h \in Injection(1 .. n, T)
  BY DEF Injection, IsInjective
<1> QED BY <1>1, <1>2, FS_Injection

\* The greatest of the numbers up to k.
LEMMA GreatestUpTo ==
    ASSUME NEW k \in Nat, k > 0
    PROVE  Max(1 .. k) = k /\ (1 .. k) \ {k} = 1 .. (k - 1) /\ 1 .. k # {}
<1>1. k \in 1 .. k /\ \A y \in 1 .. k : k >= y
  OBVIOUS
<1>2. \A x \in 1 .. k : (\A y \in 1 .. k : x >= y) => x = k
  BY <1>1
<1>3. Max(1 .. k) = k
  BY <1>1, <1>2 DEF Max
<1> QED BY <1>1, <1>3

\* A set of the places of a sequence has a greatest member.
LEMMA GreatestOf ==
    ASSUME NEW n \in Nat, NEW s \in SUBSET (1 .. n), s # {}
    PROVE  Max(s) \in s
<1>1. \E x \in s : \A y \in s : x >= y
  <2> DEFINE S == {i \in Nat : \A u \in SUBSET (1 .. n) :
                      u # {} /\ (\A y \in u : y <= i) => \E x \in u : \A y \in u : x >= y}
  <2>1. 0 \in S
    <3>1. ASSUME NEW u \in SUBSET (1 .. n), NEW y \in u, y <= 0 PROVE FALSE
      BY <3>1
    <3> QED BY <3>1
  <2>2. ASSUME NEW i \in Nat, i \in S PROVE i + 1 \in S
    <3>1. ASSUME NEW u \in SUBSET (1 .. n), u # {}, \A y \in u : y <= i + 1
          PROVE  \E x \in u : \A y \in u : x >= y
      <4>1. CASE i + 1 \in u
        BY <3>1, <4>1
      <4>2. CASE i + 1 \notin u
        <5>1. \A y \in u : y <= i
          BY <3>1, <4>2
        <5> QED BY <2>2, <3>1, <5>1
      <4> QED BY <4>1, <4>2
    <3> QED BY <3>1
  <2> HIDE DEF S
  <2>3. n \in S
    BY <2>1, <2>2, UpFromZero
  <2> QED BY <2>3 DEF S
<1> QED BY <1>1 DEF Max

(***************************************************************************)
(* Plug.                                                                   *)
(***************************************************************************)
SubType == [in_use : BOOLEAN, ident : Idents \cup {None}, owned : BOOLEAN, fault : BOOLEAN]
SlotType == [in_use : BOOLEAN, ident : Idents \cup {None}, owned : BOOLEAN,
             subs : [SubNbrs -> SubType]]

PlugTypes ==
    /\ slots \in [SlotNbrs -> SlotType]
    /\ owned \in BOOLEAN
    /\ ar = [phase |-> ar.phase, exp |-> ar.exp, alarm |-> ar.alarm,
             diff |-> ar.diff, reads |-> ar.reads]
    /\ Up => ar.exp \in Requests

\* A slot that the connection owns gives its owner to what is plugged in it; so
\* the slots themselves, and the API, must have kept theirs.
OwnedIn(sl, r) ==
    \A p \in Expected(r) :
       sl[p[1]].in_use => /\ sl[p[1]].owned
                          /\ sl[p[1]].subs[p[2]].in_use => sl[p[1]].subs[p[2]].owned

PlugInv == PlugTypes /\ (Up => owned /\ OwnedIn(slots, ar.exp))

\* What is expected has a place.
LEMMA ExpectedPlaces ==
    ASSUME NEW r \in Requests, NEW p \in Expected(r)
    PROVE  p[1] \in SlotNbrs /\ p[2] \in SubNbrs
BY DEF Expected, Positions

\* An empty slot, and a new one, have their types.
LEMMA EmptyTypes ==
    /\ NoSub \in SubType /\ NoSlot \in SlotType
    /\ \A i \in Idents, own \in BOOLEAN : NewSub(i, own) \in SubType /\ NewSlot(i, own) \in SlotType
BY DEF NoSub, NoSlot, NewSub, NewSlot, SubType, SlotType

-----------------------------------------------------------------------------
(***************************************************************************)
(* Connect.                                                                *)
(***************************************************************************)
\* What a Connect does to the slot of a module it expects: the connection owns
\* the slot, and the submodules that passed the checks.
LEMMA ClaimedFacts ==
    ASSUME NEW s \in SlotType, NEW m \in Modules, NEW i \in Idents \cup {None},
           NEW subs \in [SubNbrs -> Idents \cup {None}], NEW took
    PROVE  /\ Claimed(s, m, i, subs, took) \in SlotType
           /\ Claimed(s, m, i, subs, took).owned
           /\ \A b \in SubNames(m) \cap SubNbrs : b \in took =>
                 /\ Claimed(s, m, i, subs, took).subs[b].in_use
                       => Claimed(s, m, i, subs, took).subs[b].owned
<1> DEFINE t == AskedSlot(s, i)
           c == Claimed(s, m, i, subs, took)
           new(b) == IF b \notin SubNames(m) THEN t.subs[b]
                     ELSE IF t.subs[b].in_use
                     THEN [t.subs[b] EXCEPT !.owned = t.subs[b].owned \/ b \in took]
                     ELSE IF subs[b] # None THEN NewSub(subs[b], TRUE)
                     ELSE NoSub
<1>1. t \in SlotType
  BY EmptyTypes DEF AskedSlot
<1>2. \A b \in SubNbrs : new(b) \in SubType
  <2> TAKE b \in SubNbrs
  <2>1. t.subs[b] \in SubType
    BY <1>1 DEF SlotType
  <2>2. [t.subs[b] EXCEPT !.owned = t.subs[b].owned \/ b \in took] \in SubType
    BY <2>1 DEF SubType
  <2>3. subs[b] # None => NewSub(subs[b], TRUE) \in SubType
    BY EmptyTypes
  <2> QED BY <2>1, <2>2, <2>3, EmptyTypes
<1>3. c = [t EXCEPT !.owned = TRUE, !.subs = [b \in SubNbrs |-> new(b)]]
  BY DEF Claimed
<1> HIDE DEF t, c, new
<1>4. c \in SlotType /\ c.owned /\ c.subs = [b \in SubNbrs |-> new(b)]
  BY <1>1, <1>2, <1>3 DEF SlotType
<1>5. ASSUME NEW b \in SubNames(m) \cap SubNbrs, b \in took
      PROVE  new(b).in_use => new(b).owned
  <2>1. t.subs[b] \in SubType
    BY <1>1 DEF SlotType
  <2> QED BY <1>5, <2>1 DEF new, NewSub, NoSub, SubType
<1> QED BY <1>4, <1>5 DEF c

\* What a Connect leaves of the slots after k modules.
LEMMA ConfiguredFacts ==
    ASSUME PlugTypes, NEW r \in Requests, NEW k \in 0 .. Len(r),
           NEW app \in Answers, NEW subs \in SubAnswers
    PROVE  /\ Configured(r, k, app, subs) \in [SlotNbrs -> SlotType]
           /\ k = Len(r) => OwnedIn(Configured(r, k, app, subs), r)
<1> DEFINE sl == Configured(r, k, app, subs)
           at(n) == CHOOSE i \in 1 .. k : r[i].slot = n
           claim(n) == Claimed(slots[n], r[at(n)], app[n], subs[n], SubNames(r[at(n)]))
<1>1. /\ r \in Seq(Modules)
      /\ \A i, j \in 1 .. Len(r) : r[i].slot = r[j].slot => i = j
  BY PlugAssumption
<1>2. ASSUME NEW n \in SlotNbrs, NEW i \in 1 .. k, r[i].slot = n
      PROVE  /\ at(n) = i
             /\ claim(n) \in SlotType /\ claim(n).owned
             /\ \A b \in SubNames(r[i]) \cap SubNbrs :
                   claim(n).subs[b].in_use => claim(n).subs[b].owned
  <2>1. at(n) = i
    BY <1>1, <1>2
  <2>2. /\ r[i] \in Modules /\ slots[n] \in SlotType
        /\ app[n] \in Idents \cup {None} /\ subs[n] \in [SubNbrs -> Idents \cup {None}]
    BY <1>1 DEF PlugTypes, Answers, SubAnswers
  <2> QED BY <2>1, <2>2, ClaimedFacts
<1>3. sl = [n \in SlotNbrs |-> IF \E i \in 1 .. k : r[i].slot = n THEN claim(n) ELSE slots[n]]
  BY DEF Configured
<1> HIDE DEF sl, claim, at
<1>4. sl \in [SlotNbrs -> SlotType]
  BY <1>2, <1>3 DEF PlugTypes
<1>5. ASSUME k = Len(r), NEW p \in Expected(r)
      PROVE  /\ sl[p[1]].owned
             /\ sl[p[1]].subs[p[2]].in_use => sl[p[1]].subs[p[2]].owned
  <2>1. PICK i \in 1 .. k : p[1] = r[i].slot /\ p[2] \in SubNames(r[i])
    BY <1>5 DEF Expected
  <2>2. p[1] \in SlotNbrs /\ p[2] \in SubNbrs
    BY ExpectedPlaces
  <2>3. sl[p[1]] = claim(p[1])
    BY <1>3, <2>1, <2>2
  <2> QED BY <1>2, <2>1, <2>2, <2>3
<1> QED BY <1>4, <1>5 DEF OwnedIn, sl

LEMMA AcceptedInv ==
    ASSUME PlugInv, NEW r \in Requests, NEW app \in Answers, NEW subs \in SubAnswers,
           ConnectAccepted(r, app, subs)
    PROVE  PlugInv'
<1>1. Len(r) \in 0 .. Len(r)
  BY PlugAssumption
<1>2. /\ slots' \in [SlotNbrs -> SlotType] /\ OwnedIn(slots', r)
      /\ owned' = TRUE /\ ar'.exp = r
  BY <1>1, ConfiguredFacts DEF PlugInv, ConnectAccepted
<1>3. ar' = [phase |-> ar'.phase, exp |-> ar'.exp, alarm |-> ar'.alarm,
             diff |-> ar'.diff, reads |-> ar'.reads]
  BY DEF ConnectAccepted
<1> QED BY <1>2, <1>3 DEF PlugInv, PlugTypes, OwnedIn

\* A refused Connect: there is no connection, and what it claimed keeps its
\* type.
LEMMA RefusedInv ==
    ASSUME PlugInv, NEW r \in Requests, NEW k \in 0 .. Len(r), NEW took \in SUBSET SubNbrs,
           NEW app \in Answers, NEW subs \in SubAnswers,
           ConnectRefused(r, k, took, app, subs)
    PROVE  PlugInv'
<1> DEFINE s == Configured(r, k, app, subs)
           m == r[k + 1]
           one == IF AskedSlot(s[m.slot], app[m.slot]).in_use
                  THEN Claimed(s[m.slot], m, app[m.slot], subs[m.slot], took) ELSE s[m.slot]
<1>1. s \in [SlotNbrs -> SlotType]
  BY ConfiguredFacts DEF PlugInv
<1>2. slots' = IF k = Len(r) THEN s ELSE [s EXCEPT ![m.slot] = one]
  BY DEF ConnectRefused
<1>3. k # Len(r) => one \in SlotType
  <2> SUFFICES ASSUME k # Len(r) PROVE one \in SlotType
    OBVIOUS
  <2>1. m \in Modules
    BY PlugAssumption
  <2>2. m.slot \in SlotNbrs
    BY <2>1 DEF Modules
  <2>3. /\ s[m.slot] \in SlotType
        /\ app[m.slot] \in Idents \cup {None} /\ subs[m.slot] \in [SubNbrs -> Idents \cup {None}]
    BY <1>1, <2>2 DEF Answers, SubAnswers
  <2> HIDE DEF s, m
  <2>4. Claimed(s[m.slot], m, app[m.slot], subs[m.slot], took) \in SlotType
    BY <2>1, <2>3, ClaimedFacts
  <2> QED BY <2>3, <2>4
<1> HIDE DEF s, one, m
<1>4. slots' \in [SlotNbrs -> SlotType]
  BY <1>1, <1>2, <1>3
<1>5. owned' = TRUE /\ ar' = ar /\ ~Up
  BY DEF ConnectRefused
<1> QED BY <1>4, <1>5 DEF PlugInv, PlugTypes, Up

-----------------------------------------------------------------------------
(***************************************************************************)
(* The application plugs and pulls: one slot changes.                      *)
(***************************************************************************)
Fine(n, s) ==
    Up => \A b \in SubNbrs : <<n, b>> \in Expected(ar.exp) =>
             (s.in_use => s.owned /\ (s.subs[b].in_use => s.subs[b].owned))

LEMMA FineNow == ASSUME PlugInv, NEW n \in SlotNbrs PROVE slots[n] \in SlotType /\ Fine(n, slots[n])
BY DEF PlugInv, PlugTypes, Fine, OwnedIn

LEMMA SlotChange ==
    ASSUME PlugInv, NEW n \in SlotNbrs, NEW s \in SlotType, Fine(n, s),
           slots' = [slots EXCEPT ![n] = s], UNCHANGED <<owned, ar>>
    PROVE  PlugInv'
<1>1. PlugTypes'
  BY DEF PlugInv, PlugTypes, Up
<1>2. ASSUME Up, NEW p \in Expected(ar.exp)
      PROVE  slots'[p[1]].in_use => /\ slots'[p[1]].owned
                                    /\ slots'[p[1]].subs[p[2]].in_use => slots'[p[1]].subs[p[2]].owned
  <2>1. p[1] \in SlotNbrs /\ p[2] \in SubNbrs /\ p = <<p[1], p[2]>>
    BY DEF Expected, Positions
  <2>2. CASE p[1] = n
    BY <1>2, <2>1, <2>2 DEF PlugInv, PlugTypes, Fine
  <2>3. CASE p[1] # n
    BY <1>2, <2>1, <2>3 DEF PlugInv, PlugTypes, OwnedIn
  <2> QED BY <2>2, <2>3
<1> QED BY <1>1, <1>2 DEF PlugInv, OwnedIn, Up

\* A module that is plugged gets the owner of the API.
LEMMA ModulePluggedFacts ==
    ASSUME PlugInv, NEW n \in SlotNbrs, NEW m \in Idents
    PROVE  ModulePlugged(n, m) \in SlotType /\ Fine(n, ModulePlugged(n, m))
<1>1. NewSlot(m, owned) \in SlotType
  BY EmptyTypes DEF PlugInv, PlugTypes
<1>2. Fine(n, NewSlot(m, owned))
  BY DEF PlugInv, Fine, NewSlot, NoSlot, NoSub
<1> QED BY <1>1, <1>2, FineNow DEF ModulePlugged

LEMMA PlugModuleInv ==
    ASSUME PlugInv, NEW n \in SlotNbrs, NEW m \in Idents, PlugModule(n, m) PROVE PlugInv'
BY ModulePluggedFacts, SlotChange DEF PlugModule

LEMMA PlugSubmoduleInv ==
    ASSUME PlugInv, NEW n \in SlotNbrs, NEW b \in SubNbrs, NEW m \in Idents, NEW i \in Idents,
           NEW room \in BOOLEAN, PlugSubmodule(n, b, m, i, room)
    PROVE  PlugInv'
<1> DEFINE s == ModulePlugged(n, m)
           new == [s EXCEPT !.subs[b] = NewSub(i, s.owned)]
<1>1. s \in SlotType /\ Fine(n, s)
  BY ModulePluggedFacts
<1>2. \/ slots' = [slots EXCEPT ![n] = s]
      \/ slots' = [slots EXCEPT ![n] = new] /\ s.in_use
  BY DEF PlugSubmodule
<1>3. UNCHANGED <<owned, ar>>
  BY DEF PlugSubmodule
<1> HIDE DEF s
<1>4. s.in_use => new \in SlotType /\ Fine(n, new)
  <2>1. NewSub(i, s.owned) \in SubType
    BY <1>1, EmptyTypes DEF SlotType
  <2>2. new = [s EXCEPT !.subs = [s.subs EXCEPT ![b] = NewSub(i, s.owned)]]
    BY <1>1 DEF SlotType
  <2>3. /\ new \in SlotType /\ new.in_use = s.in_use /\ new.owned = s.owned
        /\ new.subs = [s.subs EXCEPT ![b] = NewSub(i, s.owned)]
    BY <1>1, <2>1, <2>2 DEF SlotType
  <2>4. NewSub(i, s.owned).owned = s.owned
    BY DEF NewSub, NoSub
  <2> QED BY <1>1, <2>3, <2>4 DEF Fine, SlotType
<1>5. CASE slots' = [slots EXCEPT ![n] = s]
  BY <1>1, <1>3, <1>5, SlotChange
<1>6. CASE slots' = [slots EXCEPT ![n] = new] /\ s.in_use
  BY <1>3, <1>4, <1>6, SlotChange
<1> QED BY <1>2, <1>5, <1>6

\* A subslot that becomes empty or whose fault comes or goes.
LEMMA SubslotChange ==
    ASSUME PlugInv, NEW n \in SlotNbrs, NEW b \in SubNbrs, NEW x \in SubType,
           x.in_use => x.owned = slots[n].subs[b].owned /\ slots[n].subs[b].in_use,
           slots' = [slots EXCEPT ![n].subs[b] = x], UNCHANGED <<owned, ar>>
    PROVE  PlugInv'
<1> DEFINE s == [slots[n] EXCEPT !.subs = [slots[n].subs EXCEPT ![b] = x]]
<1>1. slots[n] \in SlotType /\ Fine(n, slots[n])
  BY FineNow
<1>2. slots' = [slots EXCEPT ![n] = s]
  BY <1>1 DEF SlotType, PlugInv, PlugTypes
<1>3. /\ s \in SlotType /\ s.in_use = slots[n].in_use /\ s.owned = slots[n].owned
      /\ s.subs = [slots[n].subs EXCEPT ![b] = x]
  BY <1>1 DEF SlotType
<1> HIDE DEF s
<1>4. Fine(n, s)
  BY <1>1, <1>3 DEF Fine, SlotType
<1> QED BY <1>2, <1>3, <1>4, SlotChange

LEMMA PullSubmoduleInv ==
    ASSUME PlugInv, NEW n \in SlotNbrs, NEW b \in SubNbrs, NEW heard, PullSubmodule(n, b, heard)
    PROVE  PlugInv'
<1>1. CASE UNCHANGED <<slots, owned, ar>>
  BY <1>1 DEF PlugInv, PlugTypes, OwnedIn, Up
<1>2. CASE slots' = [slots EXCEPT ![n].subs[b] = NoSub] /\ UNCHANGED <<owned, ar>>
  <2>1. NoSub \in SubType /\ ~NoSub.in_use
    BY EmptyTypes DEF NoSub
  <2> QED BY <1>2, <2>1, SubslotChange
<1> QED BY <1>1, <1>2 DEF PullSubmodule, NullOwner

LEMMA PullModuleInv ==
    ASSUME PlugInv, NEW n \in SlotNbrs, NEW heard, PullModule(n, heard) PROVE PlugInv'
<1>1. CASE UNCHANGED <<slots, owned, ar>>
  BY <1>1 DEF PlugInv, PlugTypes, OwnedIn, Up
<1>2. CASE slots' = [slots EXCEPT ![n] = NoSlot] /\ UNCHANGED <<owned, ar>>
  <2>1. NoSlot \in SlotType /\ Fine(n, NoSlot)
    BY EmptyTypes DEF NoSlot, Fine
  <2> QED BY <1>2, <2>1, SlotChange
<1> QED BY <1>1, <1>2 DEF PullModule, NullOwner

LEMMA DiagnoseInv ==
    ASSUME PlugInv, NEW n \in SlotNbrs, NEW b \in SubNbrs, NEW f \in BOOLEAN, Diagnose(n, b, f)
    PROVE  PlugInv'
<1> DEFINE x == [slots[n].subs[b] EXCEPT !.fault = f]
<1>1. slots[n] \in SlotType /\ slots[n].subs[b] \in SubType
  BY FineNow DEF SlotType
<1>2. x \in SubType /\ x.owned = slots[n].subs[b].owned /\ x.in_use = slots[n].subs[b].in_use
  BY <1>1 DEF SubType
<1>3. slots' = [slots EXCEPT ![n].subs[b] = x] /\ UNCHANGED <<owned, ar>>
  BY <1>1 DEF Diagnose, PlugInv, PlugTypes, SlotType, SubType
<1>4. slots[n].subs[b].in_use
  BY DEF Diagnose
<1> HIDE DEF x
<1> QED BY <1>2, <1>3, <1>4, SubslotChange

-----------------------------------------------------------------------------
(***************************************************************************)
(* The rest of the connection.                                             *)
(***************************************************************************)
\* The slots and the expected modules stay as they are.
LEMMA PhaseInv ==
    ASSUME PlugInv, AppReady \/ ReadyConfirmed \/ PrmBegin \/ ReadDiff PROVE PlugInv'
<1>1. /\ UNCHANGED <<slots, owned>> /\ Up /\ ar'.exp = ar.exp
      /\ ar' = [phase |-> ar'.phase, exp |-> ar'.exp, alarm |-> ar'.alarm,
                diff |-> ar'.diff, reads |-> ar'.reads]
  BY DEF PlugInv, PlugTypes, AppReady, ReadyConfirmed, PrmBegin, ReadDiff, Up
<1>2. PlugTypes'
  BY <1>1 DEF PlugInv, PlugTypes
<1>3. (owned /\ OwnedIn(slots, ar.exp))'
  BY <1>1 DEF PlugInv, OwnedIn
<1> QED BY <1>2, <1>3 DEF PlugInv

LEMMA AbortedInv == ASSUME PlugInv, Aborted \/ EventAbort PROVE PlugInv'
<1>1. ~Up' /\ ar' = NoAr
  BY DEF Aborted, EventAbort, Up, NoAr
<1>2. ASSUME NEW n \in SlotNbrs PROVE Released(slots[n]) \in SlotType
  <2>1. slots[n] \in SlotType
    BY DEF PlugInv, PlugTypes
  <2>2. \A b \in SubNbrs : [slots[n].subs[b] EXCEPT !.owned = FALSE] \in SubType
    BY <2>1 DEF SlotType, SubType
  <2> QED BY <2>1, <2>2 DEF Released, SlotType
<1>3. slots' \in [SlotNbrs -> SlotType] /\ owned' \in BOOLEAN
  BY <1>2 DEF Aborted, EventAbort, PlugInv, PlugTypes
<1> QED BY <1>1, <1>3 DEF PlugInv, PlugTypes, NoAr

LEMMA PlugInitInv == PlugInit => PlugInv
<1>1. NoSlot \in SlotType
  BY EmptyTypes
<1>2. NoAr = [phase |-> NoAr.phase, exp |-> NoAr.exp, alarm |-> NoAr.alarm,
              diff |-> NoAr.diff, reads |-> NoAr.reads]
  BY DEF NoAr
<1>3. NoAr.phase = "none"
  BY DEF NoAr
<1> QED BY <1>1, <1>2, <1>3 DEF PlugInit, PlugInv, PlugTypes, Up

LEMMA PlugStepInv == PlugInv /\ [PlugNext]_pvars => PlugInv'
<1> SUFFICES ASSUME PlugInv, [PlugNext]_pvars PROVE PlugInv'
  OBVIOUS
<1>1. CASE Connect
  BY <1>1, AcceptedInv, RefusedInv DEF Connect
<1>2. CASE AppReady \/ ReadyConfirmed \/ PrmBegin \/ ReadDiff
  BY <1>2, PhaseInv
<1>3. CASE Aborted \/ EventAbort
  BY <1>3, AbortedInv
<1>4. CASE Application
  BY <1>4, PlugModuleInv, PlugSubmoduleInv, PullSubmoduleInv, PullModuleInv, DiagnoseInv
     DEF Application
<1>5. CASE UNCHANGED pvars
  BY <1>5 DEF pvars, PlugInv, PlugTypes, OwnedIn, Up
<1> QED BY <1>1, <1>2, <1>3, <1>4, <1>5 DEF PlugNext

\* Whatever the application plugs and pulls while the connection is up, and
\* whichever owners an earlier one has left behind, what the connection expects
\* and finds plugged is its own (pf_cmdev_exp_submodule_configure,
\* pf_cmdev_plug_submodule).
THEOREM AlwaysOwned == PlugSpec => []OwnedByAr
<1>1. PlugInv => OwnedByAr
  BY DEF PlugInv, OwnedIn, OwnedByAr
<1>2. PlugInv /\ [PlugNext]_pvars => PlugInv'
  BY PlugStepInv
<1> QED BY <1>1, <1>2, PlugInitInv, PTL DEF PlugSpec

\* So a submodule that the connection expects can be pulled while it is up: its
\* pull alarm goes to a live AR (pf_cmdev_pull_submodule).  PullIsSafe fails
\* only without a connection, or for what it does not expect.
THEOREM ExpectedPullIsSafe ==
    PlugSpec => [][\A n \in SlotNbrs, b \in SubNbrs, heard \in SUBSET SubNbrs :
                     Up /\ ~halted /\ <<n, b>> \in Expected(ar.exp)
                        /\ PullSubmodule(n, b, heard) => ~halted']_pvars
<1>1. PlugInv /\ [PlugNext]_pvars =>
         [\A n \in SlotNbrs, b \in SubNbrs, heard \in SUBSET SubNbrs :
            Up /\ ~halted /\ <<n, b>> \in Expected(ar.exp)
               /\ PullSubmodule(n, b, heard) => ~halted']_pvars
  <2> SUFFICES ASSUME PlugInv, NEW n \in SlotNbrs, NEW b \in SubNbrs, NEW heard,
                      Up, ~halted, <<n, b>> \in Expected(ar.exp), PullSubmodule(n, b, heard)
               PROVE  ~halted'
    OBVIOUS
  <2>1. slots[n].owned /\ slots[n].subs[b].owned
    BY FineNow DEF Fine, PullSubmodule
  <2> QED BY <2>1 DEF PullSubmodule, NullOwner
<1>2. PlugInv /\ [PlugNext]_pvars => PlugInv'
  BY PlugStepInv
<1> QED BY <1>1, <1>2, PlugInitInv, PTL DEF PlugSpec

-----------------------------------------------------------------------------
SubEntries == [sub : SubNbrs \cup {0}, ident : Idents \cup {None},
               info : {"OK", "NO", "WRONG"}, fault : BOOLEAN]
SubLists == [n : Nat, subs : [SubDiffs -> SubEntries]]
ModEntries == [slot : SlotNbrs \cup {0}, state : {"NO_MODULE", "WRONG_MODULE", "PROPER_MODULE"},
               ident : Idents \cup {None}, n : Nat, subs : [SubDiffs -> SubEntries]]
Blocks == [n : Nat, mods : [Diffs -> ModEntries]]
SubItems == [sub : SubNbrs, ident : Idents]

\* One comparison yields a list of entries again.
LEMMA SubDiffType ==
    ASSUME NEW s \in SlotType, NEW a \in SubLists, NEW x \in SubItems
    PROVE  SubDiff(s, a, x) \in SubLists
<1> DEFINE b == s.subs[x.sub]
           wrong == b.in_use /\ b.ident # x.ident
           old == a.subs[a.n + 1]
           e == [old EXCEPT
                !.sub = x.sub,
                !.info = IF ~b.in_use THEN "NO" ELSE IF wrong THEN "WRONG" ELSE @,
                !.ident = IF wrong \/ b.fault THEN b.ident ELSE @,
                !.fault = @ \/ b.fault]
           differs == ~b.in_use \/ wrong \/ b.fault
<1>1. b \in SubType
  BY DEF SlotType, SubItems
<1>2. a.n \in Nat /\ a.subs \in [SubDiffs -> SubEntries]
  BY DEF SubLists
<1>3. SubDiff(s, a, x) = [n |-> a.n + (IF differs THEN 1 ELSE 0), subs |-> [a.subs EXCEPT ![a.n + 1] = e]]
  BY DEF SubDiff
<1> HIDE DEF b
<1>4. ASSUME a.n + 1 \in SubDiffs PROVE e \in SubEntries
  <2>1. old \in SubEntries
    BY <1>2, <1>4
  <2> HIDE DEF old
  <2> QED BY <1>1, <2>1 DEF SubEntries, SubType, SubItems
<1> HIDE DEF e, differs
<1>5. [a.subs EXCEPT ![a.n + 1] = e] \in [SubDiffs -> SubEntries]
  BY <1>2, <1>4
<1> QED BY <1>2, <1>3, <1>5 DEF SubLists

\* The submodules are compared one after the other.
LEMMA SubDiffFold ==
    ASSUME NEW s \in SlotType, NEW b \in SubLists, NEW xs \in Seq(SubItems)
    PROVE  \E h \in [0 .. Len(xs) -> SubLists] :
              /\ h[0] = b
              /\ \A k \in 1 .. Len(xs) : h[k] = SubDiff(s, h[k - 1], xs[k])
              /\ Within(s, b, xs) = h[Len(xs)]
<1> DEFINE n == Len(xs)
           D == 1 .. n
           c == [u \in SUBSET D |-> Max(u)]
           g == [p \in SubLists \X D |-> SubDiff(s, p[1], xs[p[2]])]
           it == CHOOSE it : it = [u \in SUBSET D |->
                    IF u = {} THEN b ELSE SubDiff(s, it[u \ {Max(u)}], xs[Max(u)])]
           h == [k \in 0 .. n |-> it[1 .. k]]
<1>1. n \in Nat /\ DOMAIN xs = D /\ IsFiniteSet(D)
  BY FS_Interval
<1>2. Within(s, b, xs) = it[D]
  BY <1>1 DEF Within, FoldLeft, MapThenFoldSet
<1>3. Chooses(c, D)
  BY <1>1, GreatestOf DEF Chooses
<1>4. \A p \in SubLists \X D : g[p] \in SubLists
  BY SubDiffType
<1>5. g \in [SubLists \X D -> SubLists]
  BY <1>4
<1>6. PICK f \in [SUBSET D -> SubLists] :
         Folds(f, D, b, g, c)
  <2> HIDE DEF D, c, g
  <2>1. IsFiniteSet(D)
    BY <1>1
  <2> QED BY <1>3, <1>5, <2>1, FoldExists
<1>7. \A u \in SUBSET D : f[u] = IF u = {} THEN b ELSE SubDiff(s, f[u \ {Max(u)}], xs[Max(u)])
  <2> TAKE u \in SUBSET D
  <2>1. CASE u = {}
    BY <1>6, <2>1 DEF Folds
  <2>2. CASE u # {}
    <3>1. u \ {c[u]} \in SUBSET D /\ c[u] \in D /\ c[u] = Max(u)
      BY <1>3, <2>2 DEF Chooses
    <3>2. f[u \ {c[u]}] \in SubLists
      BY <1>6, <3>1
    <3>3. f[u] = g[<<f[u \ {c[u]}], c[u]>>]
      BY <1>6, <2>2 DEF Folds
    <3> HIDE DEF c
    <3> QED BY <2>2, <3>1, <3>2, <3>3
  <2> QED BY <2>1, <2>2
<1>8. f = [u \in SUBSET D |-> IF u = {} THEN b ELSE SubDiff(s, f[u \ {Max(u)}], xs[Max(u)])]
  BY <1>7
<1>9. it = [u \in SUBSET D |-> IF u = {} THEN b ELSE SubDiff(s, it[u \ {Max(u)}], xs[Max(u)])]
  BY <1>8, Zenon
<1> HIDE DEF it
<1>10. it[{}] = b /\ \A k \in 1 .. n : it[1 .. k] = SubDiff(s, it[1 .. (k - 1)], xs[k])
  <2>1. ASSUME NEW k \in 1 .. n PROVE it[1 .. k] = SubDiff(s, it[1 .. (k - 1)], xs[k])
    <3>1. 1 .. k \in SUBSET D /\ k \in Nat /\ k > 0
      BY <1>1
    <3> QED BY <1>9, <3>1, GreatestUpTo
  <2> QED BY <1>9, <2>1
<1>11. ASSUME NEW k \in Nat, k \in {j \in Nat : j <= n => h[j] \in SubLists}
       PROVE  k + 1 \in {j \in Nat : j <= n => h[j] \in SubLists}
  <2> SUFFICES ASSUME k + 1 <= n PROVE h[k + 1] \in SubLists
    OBVIOUS
  <2>1. k + 1 \in 1 .. n /\ k \in 0 .. n /\ (k + 1) - 1 = k /\ xs[k + 1] \in SubItems
    BY <1>1
  <2>2. h[k + 1] = SubDiff(s, h[k], xs[k + 1]) /\ h[k] \in SubLists
    BY <1>10, <1>11, <2>1
  <2> QED BY <2>1, <2>2, SubDiffType
<1>12. h[0] = b
  BY <1>1, <1>10
<1>13. h \in [0 .. n -> SubLists]
  <2>1. 0 \in {j \in Nat : j <= n => h[j] \in SubLists}
    BY <1>12
  <2> HIDE DEF h
  <2>2. Nat \subseteq {j \in Nat : j <= n => h[j] \in SubLists}
    BY <1>11, <2>1, UpFromZero
  <2>3. \A j \in 0 .. n : h[j] \in SubLists
    BY <2>2
  <2> QED BY <2>3 DEF h
<1>14. \A k \in 1 .. n : h[k] = SubDiff(s, h[k - 1], xs[k])
  BY <1>1, <1>10
<1>15. Within(s, b, xs) = h[n]
  BY <1>1, <1>2
<1> HIDE DEF h
<1> WITNESS h \in [0 .. n -> SubLists]
<1> QED BY <1>12, <1>14, <1>15

-----------------------------------------------------------------------------
(***************************************************************************)
(* What the block says.  An entry that nothing was written to but the      *)
(* number is clean: that is what makes it safe to overwrite it in part.    *)
(***************************************************************************)
CleanSub(e) == e.info = "OK" /\ ~e.fault

\* An expected submodule x of slot s must be reported.
Differs(s, x) == ~s.subs[x.sub].in_use \/ s.subs[x.sub].ident # x.ident \/ s.subs[x.sub].fault

\* Entry e says of x what is so.
SubTells(s, e, x) ==
    LET b == s.subs[x.sub]
    IN  /\ e.sub = x.sub
        /\ ~b.in_use => e.info = "NO"
        /\ b.in_use => e.ident = b.ident /\ e.info = IF b.ident # x.ident THEN "WRONG" ELSE "OK"
        /\ e.fault = b.fault

\* The list a of entries tells of the first k submodules.
TellsUpTo(s, a, xs, k) ==
    /\ a.n \in 0 .. k
    /\ \A q \in SubDiffs : q > a.n => CleanSub(a.subs[q])
    /\ \A q \in 1 .. a.n : \E i \in 1 .. k : SubTells(s, a.subs[q], xs[i])
    /\ \A i \in 1 .. k : Differs(s, xs[i]) => \E q \in 1 .. a.n : a.subs[q].sub = xs[i].sub

\* An empty subslot has no diagnosis.
Tidy(s, x) == s.subs[x.sub].fault => s.subs[x.sub].in_use

LEMMA SubDiffTells ==
    ASSUME NEW s \in SlotType, NEW xs \in Seq(SubItems), Len(xs) <= Cardinality(SubNbrs),
           Cardinality(SubNbrs) \in Nat,
           NEW k \in 1 .. Len(xs), NEW a \in SubLists, TellsUpTo(s, a, xs, k - 1)
    PROVE  TellsUpTo(s, SubDiff(s, a, xs[k]), xs, k)
<1> DEFINE x == xs[k]
           b == s.subs[x.sub]
           wrong == b.in_use /\ b.ident # x.ident
           p == a.n + 1
           old == a.subs[p]
           e == [old EXCEPT
                !.sub = x.sub,
                !.info = IF ~b.in_use THEN "NO" ELSE IF wrong THEN "WRONG" ELSE @,
                !.ident = IF wrong \/ b.fault THEN b.ident ELSE @,
                !.fault = @ \/ b.fault]
           differs == ~b.in_use \/ wrong \/ b.fault
           c == SubDiff(s, a, x)
<1>1. x \in SubItems /\ k \in Nat /\ k - 1 \in Nat
  OBVIOUS
<1>2. b \in SubType
  BY <1>1 DEF SlotType, SubItems
<1>3. a.n \in 0 .. (k - 1) /\ a.subs \in [SubDiffs -> SubEntries] /\ p \in SubDiffs
  BY DEF SubLists, TellsUpTo, SubDiffs
<1>4. c.n = a.n + (IF differs THEN 1 ELSE 0) /\ c.subs = [a.subs EXCEPT ![p] = e]
  BY DEF SubDiff
<1>5. old \in SubEntries /\ CleanSub(old)
  <2>1. p > a.n
    BY <1>3
  <2> HIDE DEF p
  <2> QED BY <1>3, <2>1 DEF TellsUpTo
<1>6. differs <=> Differs(s, x)
  BY DEF Differs
<1> HIDE DEF b
<1>7. /\ e.sub = x.sub /\ e.fault = b.fault
      /\ ~b.in_use => e.info = "NO"
      /\ b.in_use => e.info = IF b.ident # x.ident THEN "WRONG" ELSE "OK"
      /\ wrong \/ b.fault => e.ident = b.ident
  <2> HIDE DEF old
  <2> QED BY <1>2, <1>5 DEF CleanSub, SubEntries, SubType
<1>8. ~differs => CleanSub(e)
  BY <1>2, <1>7 DEF CleanSub, SubType
<1>9. differs => SubTells(s, e, x)
  BY <1>2, <1>7 DEF SubTells, b, SubType
<1> HIDE DEF x, e, c, old
<1>10. c.subs[p] = e /\ \A q \in SubDiffs : q # p => c.subs[q] = a.subs[q]
  BY <1>3, <1>4
<1>11. c.n \in 0 .. k
  BY <1>1, <1>3, <1>4
<1>12. ASSUME NEW q \in SubDiffs, q > c.n PROVE CleanSub(c.subs[q])
  <2>1. CASE q = p
    BY <1>3, <1>4, <1>8, <1>10, <1>12, <2>1
  <2>2. CASE q # p
    BY <1>3, <1>4, <1>10, <1>12, <2>2 DEF TellsUpTo, SubDiffs
  <2> QED BY <2>1, <2>2
<1>13. ASSUME NEW q \in 1 .. c.n PROVE \E i \in 1 .. k : SubTells(s, c.subs[q], xs[i])
  <2>1. CASE q = p
    BY <1>1, <1>3, <1>4, <1>9, <1>10, <1>13, <2>1 DEF x
  <2>2. CASE q # p
    <3>1. q \in 1 .. a.n /\ q \in SubDiffs
      BY <1>3, <1>4, <1>13, <2>2 DEF SubDiffs
    <3> QED BY <1>1, <1>10, <2>2, <3>1 DEF TellsUpTo
  <2> QED BY <2>1, <2>2
<1>14. ASSUME NEW i \in 1 .. k, Differs(s, xs[i])
       PROVE  \E q \in 1 .. c.n : c.subs[q].sub = xs[i].sub
  <2>1. CASE i = k
    <3>1. p \in 1 .. c.n /\ c.subs[p].sub = x.sub
      BY <1>3, <1>4, <1>6, <1>7, <1>10, <1>14, <2>1 DEF x
    <3> QED BY <2>1, <3>1 DEF x
  <2>2. CASE i # k
    <3>1. PICK q \in 1 .. a.n : a.subs[q].sub = xs[i].sub
      BY <1>1, <1>14, <2>2 DEF TellsUpTo
    <3>2. q \in 1 .. c.n /\ q # p /\ q \in SubDiffs
      BY <1>3, <1>4, <3>1 DEF SubDiffs
    <3> QED BY <1>10, <3>1, <3>2
  <2> QED BY <2>1, <2>2
<1>15. TellsUpTo(s, c, xs, k)
  BY <1>11, <1>12, <1>13, <1>14 DEF TellsUpTo
<1> QED BY <1>15 DEF c, x

\* What the comparison of all submodules of a module yields.
LEMMA WithinTells ==
    ASSUME NEW s \in SlotType, NEW xs \in Seq(SubItems), Len(xs) <= Cardinality(SubNbrs),
           NEW old \in [SubDiffs -> SubEntries], \A q \in SubDiffs : CleanSub(old[q])
    PROVE  /\ Within(s, [n |-> 0, subs |-> old], xs) \in SubLists
           /\ TellsUpTo(s, Within(s, [n |-> 0, subs |-> old], xs), xs, Len(xs))
<1> DEFINE b == [n |-> 0, subs |-> old]
           n == Len(xs)
<1>1. b \in SubLists /\ n \in Nat /\ Cardinality(SubNbrs) \in Nat
  BY PlugAssumption, FS_CardinalityType DEF SubLists
<1>2. TellsUpTo(s, b, xs, 0)
  BY <1>1 DEF TellsUpTo
<1> HIDE DEF b
<1>3. PICK h \in [0 .. n -> SubLists] :
         /\ h[0] = b
         /\ \A k \in 1 .. n : h[k] = SubDiff(s, h[k - 1], xs[k])
         /\ Within(s, b, xs) = h[n]
  BY <1>1, SubDiffFold
<1> DEFINE Done == {k \in Nat : k <= n => TellsUpTo(s, h[k], xs, k)}
<1>4. 0 \in Done
  BY <1>2, <1>3
<1>5. ASSUME NEW k \in Nat, k \in Done PROVE k + 1 \in Done
  <2> SUFFICES ASSUME k + 1 <= n PROVE TellsUpTo(s, h[k + 1], xs, k + 1)
    OBVIOUS
  <2>1. k + 1 \in 1 .. n /\ k \in 0 .. n /\ (k + 1) - 1 = k
    BY <1>1
  <2>2. h[k] \in SubLists /\ h[k + 1] = SubDiff(s, h[k], xs[k + 1]) /\ TellsUpTo(s, h[k], xs, k)
    BY <1>1, <1>3, <1>5, <2>1
  <2> HIDE DEF n
  <2> QED BY <1>1, <2>1, <2>2, SubDiffTells DEF n
<1> HIDE DEF Done
<1>6. n \in Done
  BY <1>1, <1>4, <1>5, UpFromZero
<1>7. TellsUpTo(s, h[n], xs, n) /\ h[n] \in SubLists
  BY <1>1, <1>3, <1>6 DEF Done
<1> QED BY <1>3, <1>7 DEF b

-----------------------------------------------------------------------------
(***************************************************************************)
(* The modules.                                                            *)
(***************************************************************************)
\* An expected module m must be reported.
ModDiffers(sl, m) ==
    \/ ~sl[m.slot].in_use \/ sl[m.slot].ident # m.ident
    \/ \E j \in 1 .. Len(m.subs) : Differs(sl[m.slot], m.subs[j])

\* Entry e says of m what is so.
ModTells(sl, e, m) ==
    LET s == sl[m.slot]
    IN  /\ e.slot = m.slot
        /\ ~s.in_use => e.state = "NO_MODULE"
        /\ s.in_use /\ s.ident # m.ident => e.state = "WRONG_MODULE"
        /\ s.in_use /\ s.ident = m.ident =>
              /\ e.state = "PROPER_MODULE" /\ e.ident = s.ident
              /\ TellsUpTo(s, [n |-> e.n, subs |-> e.subs], m.subs, Len(m.subs))

\* The block d tells of the first k modules.
BlockTells(sl, d, r, k) ==
    /\ d.n \in 0 .. k
    /\ \A q \in Diffs : q > d.n => \A j \in SubDiffs : CleanSub(d.mods[q].subs[j])
    /\ \A q \in 1 .. d.n : \E i \in 1 .. k : ModTells(sl, d.mods[q], r[i])
    /\ \A i \in 1 .. k : ModDiffers(sl, r[i]) => \E q \in 1 .. d.n : d.mods[q].slot = r[i].slot

LEMMA ModuleItems ==
    ASSUME NEW m \in Modules PROVE m.slot \in SlotNbrs /\ m.ident \in Idents /\ m.subs \in Seq(SubItems)
BY DEF Modules, SubItems

\* A module of a request names no more submodules than there are.
LEMMA SubsFit ==
    ASSUME NEW r \in Requests, NEW i \in 1 .. Len(r)
    PROVE  r[i] \in Modules /\ Len(r[i].subs) <= Cardinality(SubNbrs)
<1> DEFINE m == r[i]
           xs == m.subs
<1>1. m \in Modules
  BY PlugAssumption
<1> HIDE DEF m
<1>2. xs \in Seq(SubItems)
  BY <1>1, ModuleItems
<1>3. \A j, k \in 1 .. Len(xs) : xs[j].sub = xs[k].sub => j = k
  BY PlugAssumption DEF m
<1> HIDE DEF xs
<1> DEFINE h == [j \in 1 .. Len(xs) |-> xs[j].sub]
<1>4. \A j \in 1 .. Len(xs) : xs[j] \in SubItems /\ xs[j].sub \in SubNbrs
  <2>1. \A j \in 1 .. Len(xs) : xs[j] \in SubItems
    BY <1>2
  <2> QED BY <2>1 DEF SubItems
<1>5. h \in [1 .. Len(xs) -> SubNbrs] /\ \A j, k \in 1 .. Len(xs) : h[j] = h[k] => j = k
  BY <1>3, <1>4
<1>6. Len(xs) \in Nat /\ IsFiniteSet(SubNbrs)
  BY <1>2, PlugAssumption
<1> HIDE DEF h
<1>7. Len(xs) <= Cardinality(SubNbrs)
  BY <1>5, <1>6, NoLongerThan
<1> QED BY <1>1, <1>7 DEF m, xs

\* A request names no more modules than there are slots.
LEMMA ModulesFit ==
    ASSUME NEW r \in Requests PROVE r \in Seq(Modules) /\ Len(r) <= Cardinality(SlotNbrs)
<1>1. r \in Seq(Modules) /\ \A i, j \in 1 .. Len(r) : r[i].slot = r[j].slot => i = j
  BY PlugAssumption
<1> DEFINE h == [i \in 1 .. Len(r) |-> r[i].slot]
<1>2. \A i \in 1 .. Len(r) : r[i].slot \in SlotNbrs
  BY <1>1, ModuleItems
<1>3. h \in [1 .. Len(r) -> SlotNbrs] /\ \A i, j \in 1 .. Len(r) : h[i] = h[j] => i = j
  BY <1>1, <1>2
<1>4. Len(r) \in Nat /\ IsFiniteSet(SlotNbrs)
  BY <1>1, PlugAssumption
<1> HIDE DEF h
<1> QED BY <1>1, <1>3, <1>4, NoLongerThan

\* One comparison yields a block again.
LEMMA ModuleDiffType ==
    ASSUME NEW sl \in [SlotNbrs -> SlotType], NEW d \in Blocks, NEW m \in Modules
    PROVE  ModuleDiff(sl, d, m) \in Blocks
<1> DEFINE s == sl[m.slot]
           k == d.n + 1
           old == [d.mods[k] EXCEPT !.slot = m.slot]
           within == Within(s, [n |-> 0, subs |-> old.subs], m.subs)
           proper == s.in_use /\ s.ident = m.ident
           e == IF ~s.in_use THEN [old EXCEPT !.state = "NO_MODULE"]
                ELSE IF ~proper THEN [old EXCEPT !.state = "WRONG_MODULE", !.ident = s.ident]
                ELSE [old EXCEPT !.state = "PROPER_MODULE", !.ident = s.ident,
                                 !.n = within.n, !.subs = within.subs]
<1>1. s \in SlotType /\ m.slot \in SlotNbrs /\ m.subs \in Seq(SubItems)
  BY ModuleItems
<1>2. d.n \in Nat /\ d.mods \in [Diffs -> ModEntries]
  BY DEF Blocks
<1>3. ModuleDiff(sl, d, m) = [n |-> d.n + (IF proper /\ within.n = 0 THEN 0 ELSE 1),
                              mods |-> [d.mods EXCEPT ![k] = e]]
  BY DEF ModuleDiff
<1>4. ASSUME k \in Diffs PROVE e \in ModEntries
  <2>1. d.mods[k] \in ModEntries
    BY <1>2, <1>4
  <2>2. old \in ModEntries /\ old.subs \in [SubDiffs -> SubEntries]
    BY <1>1, <2>1 DEF ModEntries
  <2>3. [n |-> 0, subs |-> old.subs] \in SubLists
    BY <2>2 DEF SubLists
  <2> HIDE DEF s, old
  <2>4. PICK h \in [0 .. Len(m.subs) -> SubLists] : within = h[Len(m.subs)]
    BY <1>1, <2>3, SubDiffFold
  <2>5. within \in SubLists
    BY <1>1, <2>4
  <2> HIDE DEF within
  <2> QED BY <1>1, <2>2, <2>5 DEF ModEntries, SubLists, SlotType
<1> HIDE DEF e, within, s
<1>5. [d.mods EXCEPT ![k] = e] \in [Diffs -> ModEntries]
  BY <1>2, <1>4
<1> QED BY <1>2, <1>3, <1>5 DEF Blocks

\* The modules are compared one after the other.
LEMMA GenerateFold ==
    ASSUME NEW sl \in [SlotNbrs -> SlotType], NEW d \in Blocks, NEW r \in Seq(Modules)
    PROVE  \E h \in [0 .. Len(r) -> Blocks] :
              /\ h[0] = [d EXCEPT !.n = 0]
              /\ \A k \in 1 .. Len(r) : h[k] = ModuleDiff(sl, h[k - 1], r[k])
              /\ Generate(sl, d, r) = h[Len(r)]
<1> DEFINE b == [d EXCEPT !.n = 0]
           n == Len(r)
           D == 1 .. n
           c == [u \in SUBSET D |-> Max(u)]
           g == [p \in Blocks \X D |-> ModuleDiff(sl, p[1], r[p[2]])]
           it == CHOOSE it : it = [u \in SUBSET D |->
                    IF u = {} THEN b ELSE ModuleDiff(sl, it[u \ {Max(u)}], r[Max(u)])]
           h == [k \in 0 .. n |-> it[1 .. k]]
<1>1. n \in Nat /\ DOMAIN r = D /\ IsFiniteSet(D)
  BY FS_Interval
<1>2. Generate(sl, d, r) = it[D]
  BY <1>1 DEF Generate, FoldLeft, MapThenFoldSet
<1>3. b \in Blocks
  BY DEF Blocks
<1> HIDE DEF b
<1>4. Chooses(c, D)
  BY <1>1, GreatestOf DEF Chooses
<1>5. \A p \in Blocks \X D : g[p] \in Blocks
  BY ModuleDiffType
<1>6. g \in [Blocks \X D -> Blocks]
  BY <1>5
<1>7. PICK f \in [SUBSET D -> Blocks] : Folds(f, D, b, g, c)
  <2> HIDE DEF D, c, g
  <2>1. IsFiniteSet(D)
    BY <1>1
  <2> QED BY <1>3, <1>4, <1>6, <2>1, FoldExists
<1>8. \A u \in SUBSET D : f[u] = IF u = {} THEN b ELSE ModuleDiff(sl, f[u \ {Max(u)}], r[Max(u)])
  <2> TAKE u \in SUBSET D
  <2>1. CASE u = {}
    BY <1>7, <2>1 DEF Folds
  <2>2. CASE u # {}
    <3>1. u \ {c[u]} \in SUBSET D /\ c[u] \in D /\ c[u] = Max(u)
      BY <1>4, <2>2 DEF Chooses
    <3>2. f[u \ {c[u]}] \in Blocks
      BY <1>7, <3>1
    <3>3. f[u] = g[<<f[u \ {c[u]}], c[u]>>]
      BY <1>7, <2>2 DEF Folds
    <3> HIDE DEF c
    <3> QED BY <2>2, <3>1, <3>2, <3>3
  <2> QED BY <2>1, <2>2
<1>9. f = [u \in SUBSET D |-> IF u = {} THEN b ELSE ModuleDiff(sl, f[u \ {Max(u)}], r[Max(u)])]
  BY <1>8
<1>10. it = [u \in SUBSET D |-> IF u = {} THEN b ELSE ModuleDiff(sl, it[u \ {Max(u)}], r[Max(u)])]
  BY <1>9, Zenon
<1> HIDE DEF it
<1>11. it[{}] = b /\ \A k \in 1 .. n : it[1 .. k] = ModuleDiff(sl, it[1 .. (k - 1)], r[k])
  <2>1. ASSUME NEW k \in 1 .. n PROVE it[1 .. k] = ModuleDiff(sl, it[1 .. (k - 1)], r[k])
    <3>1. 1 .. k \in SUBSET D /\ k \in Nat /\ k > 0
      BY <1>1
    <3> QED BY <1>10, <3>1, GreatestUpTo
  <2> QED BY <1>10, <2>1
<1> DEFINE Typed == {j \in Nat : j <= n => h[j] \in Blocks}
<1>12. ASSUME NEW k \in Nat, k \in Typed PROVE k + 1 \in Typed
  <2> SUFFICES ASSUME k + 1 <= n PROVE h[k + 1] \in Blocks
    OBVIOUS
  <2>1. k + 1 \in 1 .. n /\ k \in 0 .. n /\ (k + 1) - 1 = k /\ r[k + 1] \in Modules
    BY <1>1
  <2>2. h[k + 1] = ModuleDiff(sl, h[k], r[k + 1]) /\ h[k] \in Blocks
    BY <1>11, <1>12, <2>1
  <2> QED BY <2>1, <2>2, ModuleDiffType
<1>13. h[0] = b
  BY <1>1, <1>11
<1>14. h \in [0 .. n -> Blocks]
  <2>1. 0 \in Typed
    BY <1>3, <1>13
  <2> HIDE DEF h, Typed
  <2>2. Nat \subseteq Typed
    BY <1>12, <2>1, UpFromZero
  <2>3. \A j \in 0 .. n : h[j] \in Blocks
    BY <2>2 DEF Typed
  <2> QED BY <2>3 DEF h
<1>15. \A k \in 1 .. n : h[k] = ModuleDiff(sl, h[k - 1], r[k])
  BY <1>1, <1>11
<1>16. Generate(sl, d, r) = h[n]
  BY <1>1, <1>2
<1> HIDE DEF h
<1> WITNESS h \in [0 .. n -> Blocks]
<1> QED BY <1>13, <1>15, <1>16 DEF b

LEMMA ModuleDiffTells ==
    ASSUME NEW sl \in [SlotNbrs -> SlotType], NEW r \in Requests, NEW k \in 1 .. Len(r),
           NEW d \in Blocks, BlockTells(sl, d, r, k - 1)
    PROVE  BlockTells(sl, ModuleDiff(sl, d, r[k]), r, k)
<1> DEFINE m == r[k]
           s == sl[m.slot]
           p == d.n + 1
           old == [d.mods[p] EXCEPT !.slot = m.slot]
           within == Within(s, [n |-> 0, subs |-> old.subs], m.subs)
           proper == s.in_use /\ s.ident = m.ident
           e == IF ~s.in_use THEN [old EXCEPT !.state = "NO_MODULE"]
                ELSE IF ~proper THEN [old EXCEPT !.state = "WRONG_MODULE", !.ident = s.ident]
                ELSE [old EXCEPT !.state = "PROPER_MODULE", !.ident = s.ident,
                                 !.n = within.n, !.subs = within.subs]
           same == proper /\ within.n = 0
           c == ModuleDiff(sl, d, m)
<1>1. m \in Modules /\ Len(m.subs) <= Cardinality(SubNbrs) /\ Len(r) <= Cardinality(SlotNbrs)
  BY SubsFit, ModulesFit
<1>2. Cardinality(SlotNbrs) \in Nat /\ k \in Nat /\ k - 1 \in Nat /\ Len(r) \in Nat
  BY PlugAssumption, FS_CardinalityType
<1> HIDE DEF m
<1>3. s \in SlotType /\ m.slot \in SlotNbrs /\ m.subs \in Seq(SubItems)
  BY <1>1, ModuleItems
<1>4. d.n \in 0 .. (k - 1) /\ d.mods \in [Diffs -> ModEntries] /\ p \in Diffs
  BY <1>1, <1>2 DEF Blocks, BlockTells, Diffs
<1>5. /\ c.n = d.n + (IF same THEN 0 ELSE 1)
      /\ c.mods = [d.mods EXCEPT ![p] = e]
  BY DEF ModuleDiff
<1>6. /\ old \in ModEntries /\ old.subs \in [SubDiffs -> SubEntries]
      /\ \A j \in SubDiffs : CleanSub(old.subs[j])
      /\ old.slot = m.slot
  <2>1. d.mods[p] \in ModEntries
    BY <1>4
  <2>2. \A j \in SubDiffs : CleanSub(d.mods[p].subs[j])
    <3>1. p > d.n
      BY <1>4
    <3> HIDE DEF p
    <3> QED BY <1>4, <3>1 DEF BlockTells
  <2> QED BY <1>3, <2>1, <2>2 DEF ModEntries
<1> HIDE DEF s, old
<1>7. within \in SubLists /\ TellsUpTo(s, within, m.subs, Len(m.subs))
  BY <1>1, <1>3, <1>6, WithinTells
<1>8. within = [n |-> within.n, subs |-> within.subs]
  <2> HIDE DEF within
  <2> QED BY <1>7 DEF SubLists
<1> HIDE DEF within
<1>9. /\ e.slot = m.slot
      /\ ~s.in_use => e.state = "NO_MODULE"
      /\ s.in_use /\ s.ident # m.ident => e.state = "WRONG_MODULE"
      /\ proper => /\ e.state = "PROPER_MODULE" /\ e.ident = s.ident
                   /\ e.n = within.n /\ e.subs = within.subs
  BY <1>6 DEF ModEntries
<1> HIDE DEF e
<1>10. ModTells(sl, e, m)
  <2>1. proper => TellsUpTo(s, [n |-> e.n, subs |-> e.subs], m.subs, Len(m.subs))
    BY <1>7, <1>8, <1>9
  <2> QED BY <1>9, <2>1 DEF ModTells, s
<1>11. same => (\A j \in SubDiffs : CleanSub(e.subs[j])) /\ ~ModDiffers(sl, m)
  <2> SUFFICES ASSUME same PROVE (\A j \in SubDiffs : CleanSub(e.subs[j])) /\ ~ModDiffers(sl, m)
    OBVIOUS
  <2>1. \A j \in SubDiffs : CleanSub(within.subs[j])
    <3>1. \A j \in SubDiffs : j > 0
      BY DEF SubDiffs
    <3> QED BY <1>7, <3>1 DEF TellsUpTo
  <2>2. \A j \in 1 .. Len(m.subs) : ~Differs(s, m.subs[j])
    BY <1>7 DEF TellsUpTo
  <2> QED BY <1>9, <2>1, <2>2 DEF ModDiffers, s
<1> HIDE DEF same
<1>12. c.mods[p] = e /\ \A q \in Diffs : q # p => c.mods[q] = d.mods[q]
  BY <1>4, <1>5
<1> HIDE DEF c
<1>13. c.n \in 0 .. k
  BY <1>2, <1>4, <1>5
<1>14. ASSUME NEW q \in Diffs, q > c.n PROVE \A j \in SubDiffs : CleanSub(c.mods[q].subs[j])
  <2>1. CASE q = p
    BY <1>4, <1>5, <1>11, <1>12, <1>14, <2>1
  <2>2. CASE q # p
    BY <1>4, <1>5, <1>12, <1>14, <2>2 DEF BlockTells, Diffs
  <2> QED BY <2>1, <2>2
<1>15. ASSUME NEW q \in 1 .. c.n PROVE \E i \in 1 .. k : ModTells(sl, c.mods[q], r[i])
  <2>1. CASE q = p
    BY <1>2, <1>10, <1>12, <2>1 DEF m
  <2>2. CASE q # p
    <3>1. q \in 1 .. d.n /\ q \in Diffs
      BY <1>1, <1>2, <1>4, <1>5, <1>15, <2>2 DEF Diffs
    <3> QED BY <1>2, <1>12, <2>2, <3>1 DEF BlockTells
  <2> QED BY <2>1, <2>2
<1>16. ASSUME NEW i \in 1 .. k, ModDiffers(sl, r[i])
       PROVE  \E q \in 1 .. c.n : c.mods[q].slot = r[i].slot
  <2>1. CASE i = k
    <3>1. p \in 1 .. c.n
      BY <1>2, <1>4, <1>5, <1>11, <1>16, <2>1 DEF m
    <3> QED BY <1>9, <1>12, <2>1, <3>1 DEF m
  <2>2. CASE i # k
    <3>1. PICK q \in 1 .. d.n : d.mods[q].slot = r[i].slot
      BY <1>2, <1>16, <2>2 DEF BlockTells
    <3>2. q \in 1 .. c.n /\ q # p /\ q \in Diffs
      BY <1>1, <1>2, <1>4, <1>5, <3>1 DEF Diffs
    <3> QED BY <1>12, <3>1, <3>2
  <2> QED BY <2>1, <2>2
<1>17. BlockTells(sl, c, r, k)
  BY <1>13, <1>14, <1>15, <1>16 DEF BlockTells
<1> QED BY <1>17 DEF c, m

\* The block that is generated into an empty one.
LEMMA GenerateTells ==
    ASSUME NEW sl \in [SlotNbrs -> SlotType], NEW r \in Requests
    PROVE  BlockTells(sl, Generate(sl, NoDiff, r), r, Len(r))
<1> DEFINE n == Len(r)
<1>1. r \in Seq(Modules) /\ n \in Nat
  BY ModulesFit
<1>2. NoDiff \in Blocks /\ NoDiff.n = 0 /\ [NoDiff EXCEPT !.n = 0] = NoDiff
  <2> DEFINE e == [sub |-> 0, ident |-> None, info |-> "OK", fault |-> FALSE]
             m == [slot |-> 0, state |-> "NO_MODULE", ident |-> None, n |-> 0,
                   subs |-> [j \in SubDiffs |-> e]]
  <2>1. e \in SubEntries
    BY DEF SubEntries
  <2> HIDE DEF e
  <2>2. m \in ModEntries
    BY <2>1 DEF ModEntries
  <2>3. NoDiff = [n |-> 0, mods |-> [k \in Diffs |-> m]]
    BY DEF NoDiff, e
  <2> HIDE DEF m
  <2> QED BY <2>2, <2>3 DEF Blocks
<1>3. \A q \in Diffs : \A j \in SubDiffs : CleanSub(NoDiff.mods[q].subs[j])
  BY DEF NoDiff, CleanSub
<1>4. BlockTells(sl, NoDiff, r, 0)
  BY <1>2, <1>3 DEF BlockTells
<1>5. PICK h \in [0 .. n -> Blocks] :
         /\ h[0] = [NoDiff EXCEPT !.n = 0]
         /\ \A k \in 1 .. n : h[k] = ModuleDiff(sl, h[k - 1], r[k])
         /\ Generate(sl, NoDiff, r) = h[n]
  BY <1>1, <1>2, GenerateFold
<1> DEFINE Done == {k \in Nat : k <= n => BlockTells(sl, h[k], r, k)}
<1>6. 0 \in Done
  BY <1>2, <1>4, <1>5
<1>7. ASSUME NEW k \in Nat, k \in Done PROVE k + 1 \in Done
  <2> SUFFICES ASSUME k + 1 <= n PROVE BlockTells(sl, h[k + 1], r, k + 1)
    OBVIOUS
  <2>1. k + 1 \in 1 .. n /\ k \in 0 .. n /\ (k + 1) - 1 = k
    BY <1>1
  <2>2. h[k] \in Blocks /\ h[k + 1] = ModuleDiff(sl, h[k], r[k + 1]) /\ BlockTells(sl, h[k], r, k)
    BY <1>1, <1>5, <1>7, <2>1
  <2> QED BY <2>1, <2>2, ModuleDiffTells
<1> HIDE DEF Done
<1>8. n \in Done
  BY <1>1, <1>6, <1>7, UpFromZero
<1> QED BY <1>1, <1>5, <1>8 DEF Done

\* What the block says of an expected submodule is so.
LEMMA BlockAgrees ==
    ASSUME NEW sl \in [SlotNbrs -> SlotType], NEW r \in Requests, NEW d,
           \A i \in 1 .. Len(r) : \A j \in 1 .. Len(r[i].subs) : Tidy(sl[r[i].slot], r[i].subs[j]),
           BlockTells(sl, d, r, Len(r))
    PROVE  Agrees(sl, d, r)
<1> SUFFICES ASSUME NEW i \in 1 .. Len(r), NEW j \in 1 .. Len(r[i].subs)
             PROVE  /\ Actual(sl, r[i], r[i].subs[j]) \in Said(d, r[i], r[i].subs[j])
                    /\ SaidFault(d, r[i], r[i].subs[j]) <=> ActualFault(sl, r[i], r[i].subs[j])
  BY DEF Agrees
<1> DEFINE m == r[i]
           x == m.subs[j]
           s == sl[m.slot]
           b == s.subs[x.sub]
           E == {k \in 1 .. d.n : d.mods[k].slot = m.slot}
<1>1. /\ m \in Modules /\ m.slot \in SlotNbrs /\ m.ident \in Idents /\ x \in SubItems
      /\ s \in SlotType
  <2>1. m \in Modules
    BY SubsFit
  <2> HIDE DEF m
  <2>2. m.slot \in SlotNbrs /\ m.ident \in Idents /\ m.subs \in Seq(SubItems)
    BY <2>1, ModuleItems
  <2>3. j \in 1 .. Len(m.subs)
    BY DEF m
  <2>4. x \in SubItems
    BY <2>2, <2>3
  <2> QED BY <2>1, <2>2, <2>4
<1>2. b \in SubType /\ x.sub \in SubNbrs /\ x.ident \in Idents
  BY <1>1 DEF SlotType, SubItems
<1>3. Tidy(s, x)
  OBVIOUS
<1>4. \A k \in E : ModTells(sl, d.mods[k], m)
  <2> TAKE k \in E
  <2>1. PICK l \in 1 .. Len(r) : ModTells(sl, d.mods[k], r[l])
    BY DEF BlockTells
  <2>2. r[l].slot = m.slot
    BY <2>1 DEF ModTells
  <2>3. l = i
    BY <2>2, PlugAssumption
  <2> QED BY <2>1, <2>3
<1>5. E = {} => ~ModDiffers(sl, m)
  BY DEF BlockTells
<1>6. \A k \in E : s.in_use /\ s.ident = m.ident =>
         \A q \in 1 .. d.mods[k].n :
            d.mods[k].subs[q].sub = x.sub => SubTells(s, d.mods[k].subs[q], x)
  <2> SUFFICES ASSUME NEW k \in E, s.in_use, s.ident = m.ident, NEW q \in 1 .. d.mods[k].n,
                      d.mods[k].subs[q].sub = x.sub
               PROVE  SubTells(s, d.mods[k].subs[q], x)
    OBVIOUS
  <2> DEFINE a == [n |-> d.mods[k].n, subs |-> d.mods[k].subs]
  <2>1. TellsUpTo(s, a, m.subs, Len(m.subs)) /\ a.n = d.mods[k].n /\ a.subs = d.mods[k].subs
    BY <1>4 DEF ModTells
  <2> HIDE DEF a
  <2>2. PICK l \in 1 .. Len(m.subs) : SubTells(s, d.mods[k].subs[q], m.subs[l])
    BY <2>1 DEF TellsUpTo
  <2>3. m.subs[l].sub = x.sub
    BY <2>2 DEF SubTells
  <2>4. l = j
    BY <2>3, PlugAssumption
  <2> QED BY <2>2, <2>4
<1>7. \A k \in E : s.in_use /\ s.ident = m.ident /\ Differs(s, x) =>
         \E q \in 1 .. d.mods[k].n : d.mods[k].subs[q].sub = x.sub
  <2> SUFFICES ASSUME NEW k \in E, s.in_use, s.ident = m.ident, Differs(s, x)
               PROVE  \E q \in 1 .. d.mods[k].n : d.mods[k].subs[q].sub = x.sub
    OBVIOUS
  <2> DEFINE a == [n |-> d.mods[k].n, subs |-> d.mods[k].subs]
  <2>1. TellsUpTo(s, a, m.subs, Len(m.subs)) /\ a.n = d.mods[k].n /\ a.subs = d.mods[k].subs
    BY <1>4 DEF ModTells
  <2> HIDE DEF a
  <2> QED BY <2>1 DEF TellsUpTo
<1>8. Actual(sl, m, x) = IF ~s.in_use \/ ~b.in_use THEN Absent
                         ELSE [mod |-> s.ident, ident |-> b.ident, wrong |-> b.ident # x.ident]
  BY DEF Actual
<1>9. Actual(sl, m, x) \in Anything
  <2>1. s.ident \in Idents \cup {None} /\ b.ident \in Idents \cup {None}
    BY <1>1, <1>2 DEF SlotType, SubType
  <2> HIDE DEF s, b
  <2> QED BY <1>8, <2>1 DEF Absent, Anything
<1> DEFINE e == d.mods[CHOOSE k \in E : TRUE]
           F == {q \in 1 .. e.n : e.subs[q].sub = x.sub}
           f == e.subs[CHOOSE q \in F : TRUE]
<1>10. Said(d, m, x) = IF E = {} THEN {AsExpected(m, x)}
                       ELSE IF e.state = "NO_MODULE" THEN {Absent}
                       ELSE IF e.state = "WRONG_MODULE" THEN Anything
                       ELSE IF F = {} THEN {AsExpected(m, x)}
                       ELSE IF f.info = "NO" THEN {Absent}
                       ELSE {[mod |-> e.ident, ident |-> f.ident, wrong |-> f.info = "WRONG"]}
  BY DEF Said
<1>11. s.in_use \in BOOLEAN /\ b.in_use \in BOOLEAN
  BY <1>1, <1>2 DEF SlotType, SubType
<1>12. s.in_use /\ s.ident = m.ident /\ ~Differs(s, x) => Actual(sl, m, x) = AsExpected(m, x)
  BY <1>8, <1>11 DEF Differs, AsExpected
<1>13. ~ModDiffers(sl, m) => s.in_use /\ s.ident = m.ident /\ ~Differs(s, x)
  BY DEF ModDiffers
<1>14. E # {} => /\ ~s.in_use => e.state = "NO_MODULE"
                 /\ s.in_use /\ s.ident # m.ident => e.state = "WRONG_MODULE"
                 /\ s.in_use /\ s.ident = m.ident => e.state = "PROPER_MODULE" /\ e.ident = s.ident
  <2> HIDE DEF E
  <2> QED BY <1>4 DEF ModTells
<1>15. Actual(sl, m, x) \in Said(d, m, x)
  <2> HIDE DEF m, x, s, b, E
  <2>1. CASE E = {}
    BY <1>5, <1>10, <1>12, <1>13, <2>1
  <2>2. CASE E # {} /\ ~s.in_use
    BY <1>8, <1>10, <1>14, <2>2
  <2>3. CASE E # {} /\ s.in_use /\ s.ident # m.ident
    BY <1>9, <1>10, <1>14, <2>3
  <2>4. CASE E # {} /\ s.in_use /\ s.ident = m.ident /\ F = {}
    <3>1. ~Differs(s, x)
      BY <1>7, <2>4
    <3> HIDE DEF e, F, f
    <3> QED BY <1>10, <1>12, <1>14, <2>4, <3>1
  <2>5. CASE E # {} /\ s.in_use /\ s.ident = m.ident /\ F # {}
    <3>1. SubTells(s, f, x)
      BY <1>6, <2>5
    <3> HIDE DEF e, F, f
    <3>2. /\ ~b.in_use => f.info = "NO"
          /\ b.in_use => f.ident = b.ident /\ f.info = IF b.ident # x.ident THEN "WRONG" ELSE "OK"
      BY <3>1 DEF SubTells, b
    <3> QED BY <1>8, <1>10, <1>11, <1>14, <2>5, <3>2
  <2> QED BY <1>11, <2>1, <2>2, <2>3, <2>4, <2>5
<1>16. ActualFault(sl, m, x) <=> s.in_use /\ s.ident = m.ident /\ b.fault
  BY <1>3, <1>11, <1>2 DEF ActualFault, Tidy, SubType
<1>17. SaidFault(d, m, x) <=>
         \E k \in E : /\ d.mods[k].state = "PROPER_MODULE"
                      /\ \E q \in 1 .. d.mods[k].n : d.mods[k].subs[q].sub = x.sub /\ d.mods[k].subs[q].fault
  BY DEF SaidFault
<1>18. \A k \in E : d.mods[k].state = "PROPER_MODULE" <=> s.in_use /\ s.ident = m.ident
  BY <1>4, <1>11 DEF ModTells
<1>19. SaidFault(d, m, x) => ActualFault(sl, m, x)
  <2> HIDE DEF m, x, s, E
  <2> QED BY <1>6, <1>16, <1>17, <1>18 DEF SubTells
<1>20. ActualFault(sl, m, x) => SaidFault(d, m, x)
  <2> SUFFICES ASSUME s.in_use, s.ident = m.ident, b.fault PROVE SaidFault(d, m, x)
    BY <1>16
  <2>1. Differs(s, x)
    BY DEF Differs
  <2>2. E # {}
    BY <1>5, <1>13, <2>1
  <2> HIDE DEF m, x, s, E
  <2>3. PICK k \in E : \E q \in 1 .. d.mods[k].n : d.mods[k].subs[q].sub = x.sub
    BY <1>7, <2>1, <2>2
  <2>4. PICK q \in 1 .. d.mods[k].n : d.mods[k].subs[q].sub = x.sub
    BY <2>3
  <2>5. d.mods[k].subs[q].fault
    BY <1>6, <2>4 DEF SubTells
  <2> QED BY <1>17, <1>18, <2>4, <2>5
<1> QED BY <1>15, <1>19, <1>20

-----------------------------------------------------------------------------
(***************************************************************************)
(* What the controller believes.                                           *)
(***************************************************************************)
\* The position of an expected submodule.
At(r, i, j) == <<r[i].slot, r[i].subs[j].sub>>

\* What is so of a submodule is a matter of its slot alone.
SlotSays(s, x) ==
    IF ~s.in_use \/ ~s.subs[x.sub].in_use THEN Absent
    ELSE [mod |-> s.ident, ident |-> s.subs[x.sub].ident, wrong |-> s.subs[x.sub].ident # x.ident]

ViewInv == PlugInv /\ view = [p \in Positions |-> view[p]] /\ ViewTrue

\* A position of a request has one slot and one subslot, and is expected.
LEMMA PlaceOf ==
    ASSUME NEW r \in Requests, NEW i \in 1 .. Len(r), NEW j \in 1 .. Len(r[i].subs)
    PROVE  /\ r[i] \in Modules /\ r[i].slot \in SlotNbrs /\ r[i].ident \in Idents
           /\ r[i].subs[j] \in SubItems
           /\ r[i].subs[j].sub \in SubNbrs /\ r[i].subs[j].ident \in Idents
           /\ At(r, i, j) \in Positions /\ At(r, i, j) \in Expected(r)
           /\ r[i].subs[j].sub \in SubNames(r[i])
<1>1. r[i] \in Modules /\ r[i].slot \in SlotNbrs /\ r[i].ident \in Idents
  BY SubsFit, ModuleItems
<1>2. r[i].subs[j] \in SubItems
  <2> DEFINE m == r[i]
  <2>1. m.subs \in Seq(SubItems)
    BY <1>1, ModuleItems
  <2> QED BY <2>1
<1>3. r[i].subs[j].sub \in SubNbrs /\ r[i].subs[j].ident \in Idents
  BY <1>2 DEF SubItems
<1>4. r[i].subs[j].sub \in SubNames(r[i])
  BY DEF SubNames
<1>5. At(r, i, j) \in Positions /\ At(r, i, j)[1] = r[i].slot /\ At(r, i, j)[2] = r[i].subs[j].sub
  BY <1>1, <1>3 DEF At, Positions
<1>6. At(r, i, j) \in Expected(r)
  BY <1>4, <1>5 DEF Expected
<1> QED BY <1>1, <1>2, <1>3, <1>4, <1>5, <1>6

\* What the controller learns of an expected submodule is what it is told of it.
LEMMA LearnedOf ==
    ASSUME NEW d, NEW r \in Requests, NEW i \in 1 .. Len(r), NEW j \in 1 .. Len(r[i].subs)
    PROVE  Learned(d, r)[At(r, i, j)] = Said(d, r[i], r[i].subs[j])
<1> DEFINE p == At(r, i, j)
           ii == CHOOSE k \in 1 .. Len(r) : r[k].slot = p[1] /\ p[2] \in SubNames(r[k])
           jj == CHOOSE l \in 1 .. Len(r[ii].subs) : r[ii].subs[l].sub = p[2]
<1>1. p \in Positions /\ p \in Expected(r) /\ p[1] = r[i].slot /\ p[2] = r[i].subs[j].sub
      /\ r[i].subs[j].sub \in SubNames(r[i])
  BY PlaceOf DEF At
<1>2. Learned(d, r)[p] = Said(d, r[ii], r[ii].subs[jj])
  BY <1>1 DEF Learned
<1> HIDE DEF p
<1>3. ii = i
  <2>1. ii \in 1 .. Len(r) /\ r[ii].slot = p[1]
    BY <1>1
  <2> HIDE DEF ii
  <2> QED BY <1>1, <2>1, PlugAssumption
<1>4. jj = j
  <2>1. jj \in 1 .. Len(r[ii].subs) /\ r[ii].subs[jj].sub = p[2]
    BY <1>1, <1>3
  <2> HIDE DEF ii, jj
  <2> QED BY <1>1, <1>3, <2>1, PlugAssumption
<1> QED BY <1>2, <1>3, <1>4 DEF p

LEMMA ActualSays == \A sl, m, x : Actual(sl, m, x) = SlotSays(sl[m.slot], x)
BY DEF Actual, SlotSays

LEMMA SaysType ==
    ASSUME NEW s \in SlotType, NEW x, x.sub \in SubNbrs
    PROVE  SlotSays(s, x) \in Anything /\ s.in_use \in BOOLEAN /\ s.subs[x.sub] \in SubType
<1>1. s.subs[x.sub] \in SubType /\ s.ident \in Idents \cup {None} /\ s.in_use \in BOOLEAN
  BY DEF SlotType
<1>2. s.subs[x.sub].ident \in Idents \cup {None}
  BY <1>1 DEF SubType
<1> QED BY <1>1, <1>2 DEF SlotSays, Absent, Anything

\* The submodules one by one.
LEMMA ViewByPlace ==
    ASSUME ViewInv, PlugInv', view' = [p \in Positions |-> view'[p]], Up' => Up /\ ar'.exp = ar.exp,
           \A i \in 1 .. Len(ar.exp) : \A j \in 1 .. Len(ar.exp[i].subs) :
              Up => SlotSays(slots'[ar.exp[i].slot], ar.exp[i].subs[j]) \in view'[At(ar.exp, i, j)]
    PROVE  ViewInv'
BY ActualSays DEF ViewInv, ViewTrue, At

LEMMA ViewNow ==
    ASSUME ViewInv, Up, NEW i \in 1 .. Len(ar.exp), NEW j \in 1 .. Len(ar.exp[i].subs)
    PROVE  SlotSays(slots[ar.exp[i].slot], ar.exp[i].subs[j]) \in view[At(ar.exp, i, j)]
BY ActualSays DEF ViewInv, ViewTrue, At

LEMMA AcceptedAgrees ==
    ASSUME PlugInv, NEW r \in Requests, NEW app \in Answers, NEW subs \in SubAnswers,
           ConnectAccepted(r, app, subs)
    PROVE  Agrees(slots', ar'.diff, r) /\ ar'.exp = r
<1>1. slots' \in [SlotNbrs -> SlotType]
  BY AcceptedInv DEF PlugInv, PlugTypes
<1>2. ar'.diff = Generate(slots', NoDiff, r) /\ ar'.exp = r
  BY DEF ConnectAccepted
<1>3. \A p \in Expected(r) : slots'[p[1]].in_use /\ slots'[p[1]].subs[p[2]].in_use
  BY DEF ConnectAccepted
<1>4. ASSUME NEW i \in 1 .. Len(r), NEW j \in 1 .. Len(r[i].subs)
      PROVE  Tidy(slots'[r[i].slot], r[i].subs[j])
  <2>1. At(r, i, j) \in Expected(r) /\ At(r, i, j)[1] = r[i].slot /\ At(r, i, j)[2] = r[i].subs[j].sub
    BY PlaceOf DEF At
  <2> QED BY <1>3, <2>1 DEF Tidy
<1>5. BlockTells(slots', ar'.diff, r, Len(r))
  BY <1>1, <1>2, GenerateTells
<1> QED BY <1>1, <1>2, <1>4, <1>5, BlockAgrees

LEMMA AcceptedView ==
    ASSUME ViewInv, NEW r \in Requests, NEW app \in Answers, NEW subs \in SubAnswers,
           ConnectAccepted(r, app, subs)
    PROVE  ViewInv'
<1>1. PlugInv' /\ Agrees(slots', ar'.diff, r) /\ ar'.exp = r
  BY AcceptedInv, AcceptedAgrees DEF ViewInv
<1>2. view' = Learned(ar'.diff, r)
  BY DEF ConnectAccepted
<1>3. ASSUME NEW i \in 1 .. Len(r), NEW j \in 1 .. Len(r[i].subs)
      PROVE  Actual(slots', r[i], r[i].subs[j]) \in view'[At(r, i, j)]
  BY <1>1, <1>2, LearnedOf DEF Agrees
<1>4. view' = [p \in Positions |-> view'[p]]
  BY <1>2 DEF Learned
<1> QED BY <1>1, <1>3, <1>4 DEF ViewInv, ViewTrue, At

LEMMA RefusedView ==
    ASSUME ViewInv, NEW r \in Requests, NEW k \in 0 .. Len(r), NEW took \in SUBSET SubNbrs,
           NEW app \in Answers, NEW subs \in SubAnswers,
           ConnectRefused(r, k, took, app, subs)
    PROVE  ViewInv'
<1>1. PlugInv'
  BY RefusedInv DEF ViewInv
<1>2. ~Up' /\ view' = view
  BY DEF ConnectRefused, Up
<1> QED BY <1>1, <1>2 DEF ViewInv, ViewTrue

\* A module that is plugged has no submodules: nothing changes for them.
LEMMA PluggedSays ==
    ASSUME PlugInv, NEW n \in SlotNbrs, NEW m \in Idents, NEW x, x.sub \in SubNbrs
    PROVE  SlotSays(ModulePlugged(n, m), x) = SlotSays(slots[n], x)
<1>1. CASE ModulePlugged(n, m) = slots[n]
  BY <1>1
<1>2. CASE ~slots[n].in_use /\ ModulePlugged(n, m) = NewSlot(m, owned)
  <2>1. SlotSays(NewSlot(m, owned), x) = Absent
    BY DEF SlotSays, NewSlot, NoSlot, NoSub
  <2> QED BY <1>2, <2>1 DEF SlotSays
<1> QED BY <1>1, <1>2 DEF ModulePlugged

LEMMA PlugModuleView ==
    ASSUME ViewInv, NEW n \in SlotNbrs, NEW m \in Idents, PlugModule(n, m) PROVE ViewInv'
<1>1. PlugInv' /\ PlugInv
  BY PlugModuleInv DEF ViewInv
<1>2. UNCHANGED <<ar, view>> /\ slots' = [slots EXCEPT ![n] = ModulePlugged(n, m)]
  BY DEF PlugModule
<1>3. ASSUME NEW i \in 1 .. Len(ar.exp), NEW j \in 1 .. Len(ar.exp[i].subs), Up
      PROVE  SlotSays(slots'[ar.exp[i].slot], ar.exp[i].subs[j]) \in view'[At(ar.exp, i, j)]
  <2>1. ar.exp[i].subs[j].sub \in SubNbrs /\ ar.exp[i].slot \in SlotNbrs
    BY <1>1, <1>3, PlaceOf DEF PlugInv, PlugTypes
  <2>2. SlotSays(slots'[ar.exp[i].slot], ar.exp[i].subs[j]) = SlotSays(slots[ar.exp[i].slot], ar.exp[i].subs[j])
    BY <1>1, <1>2, <2>1, PluggedSays DEF PlugInv, PlugTypes
  <2> QED BY <1>2, <1>3, <2>2, ViewNow
<1> QED BY <1>1, <1>2, <1>3, ViewByPlace DEF ViewInv, Up

\* The ident number that a request expects of a submodule.
LEMMA ExpIdentOf ==
    ASSUME NEW r \in Requests, NEW i \in 1 .. Len(r), NEW j \in 1 .. Len(r[i].subs)
    PROVE  ExpIdent(r, At(r, i, j)) = r[i].subs[j].ident
<1> DEFINE p == At(r, i, j)
           Is(x) == \E k \in 1 .. Len(r) : \E l \in 1 .. Len(r[k].subs) :
                       r[k].slot = p[1] /\ r[k].subs[l] = [sub |-> p[2], ident |-> x]
<1>1. p[1] = r[i].slot /\ p[2] = r[i].subs[j].sub /\ r[i].subs[j].ident \in Idents
  BY PlaceOf DEF At
<1>2. r[i].subs[j] = [sub |-> p[2], ident |-> r[i].subs[j].ident]
  BY <1>1, PlaceOf DEF SubItems
<1> HIDE DEF p
<1>3. Is(r[i].subs[j].ident)
  BY <1>1, <1>2
<1>4. ASSUME NEW x \in Idents, Is(x) PROVE x = r[i].subs[j].ident
  <2>0. PICK k \in 1 .. Len(r) : \E l \in 1 .. Len(r[k].subs) :
           r[k].slot = p[1] /\ r[k].subs[l] = [sub |-> p[2], ident |-> x]
    BY <1>4
  <2>1. PICK l \in 1 .. Len(r[k].subs) :
           r[k].slot = p[1] /\ r[k].subs[l] = [sub |-> p[2], ident |-> x]
    BY <2>0
  <2>2. k = i
    BY <1>1, <2>1, PlugAssumption
  <2>3. r[i].subs[l].sub = r[i].subs[j].sub /\ l \in 1 .. Len(r[i].subs)
    BY <1>1, <2>1, <2>2
  <2>4. l = j
    BY <2>3, PlugAssumption
  <2> QED BY <2>1, <2>2, <2>4
<1>5. ExpIdent(r, p) = CHOOSE x \in Idents : Is(x)
  BY DEF ExpIdent
<1> HIDE DEF Is
<1>6. ExpIdent(r, p) = r[i].subs[j].ident
  BY <1>1, <1>3, <1>4, <1>5
<1> QED BY <1>6 DEF p

\* A submodule is plugged: if the controller expects it, its owner is told what
\* it is, or the controller may believe anything.
LEMMA PlugSubmoduleView ==
    ASSUME ViewInv, NEW n \in SlotNbrs, NEW b \in SubNbrs, NEW m \in Idents, NEW i \in Idents,
           NEW room \in BOOLEAN, PlugSubmodule(n, b, m, i, room)
    PROVE  ViewInv'
<1> DEFINE s == ModulePlugged(n, m)
           told == s.owned /\ <<n, b>> \in Expected(ar.exp)
           new == s.in_use /\ ~s.subs[b].in_use /\ Cardinality(SubsUsed(s)) < MaxSubs
           sub == NewSub(i, s.owned)
           t == IF new THEN [s EXCEPT !.subs[b] = sub] ELSE s
           know == {[mod |-> m, ident |-> i, wrong |-> i # ExpIdent(ar.exp, <<n, b>>)]}
<1>1. PlugInv' /\ PlugInv
  BY PlugSubmoduleInv DEF ViewInv
<1>2. /\ slots' = [slots EXCEPT ![n] = t] /\ ar' = ar
      /\ view' = [view EXCEPT ![<<n, b>>] = IF ~new \/ ~told THEN @
                                            ELSE IF ~Posted(room) THEN Anything ELSE know]
  BY DEF PlugSubmodule
<1>3. slots[n].in_use => m = slots[n].ident
  BY DEF PlugSubmodule
<1>4. s \in SlotType /\ Fine(n, s) /\ s.in_use \in BOOLEAN
  BY <1>1, ModulePluggedFacts DEF SlotType
<1>5. s.in_use => s.ident = m
  BY <1>3 DEF ModulePlugged, NewSlot, NoSlot
<1>6. /\ t.in_use = s.in_use /\ t.ident = s.ident
      /\ new => t.subs[b] = sub
      /\ ~new => t = s
      /\ \A c \in SubNbrs : c # b => t.subs[c] = s.subs[c]
  <2> HIDE DEF s, sub
  <2> QED BY <1>4 DEF SlotType
<1>7. sub.in_use /\ sub.ident = i
  BY DEF NewSub, NoSub
<1>8. <<n, b>> \in Positions /\ view = [p \in Positions |-> view[p]]
  BY DEF Positions, ViewInv
<1> HIDE DEF t, s, sub, know
<1>9. view'[<<n, b>>] = IF ~new \/ ~told THEN view[<<n, b>>]
                        ELSE IF ~Posted(room) THEN Anything ELSE know
  BY <1>2, <1>8
<1>10. \A p \in Positions : p # <<n, b>> => view'[p] = view[p]
  BY <1>2, <1>8
<1>11. ASSUME NEW k \in 1 .. Len(ar.exp), NEW j \in 1 .. Len(ar.exp[k].subs), Up
       PROVE  SlotSays(slots'[ar.exp[k].slot], ar.exp[k].subs[j]) \in view'[At(ar.exp, k, j)]
  <2> DEFINE x == ar.exp[k].subs[j]
             p == At(ar.exp, k, j)
  <2>1. ar.exp \in Requests
    BY <1>1, <1>11 DEF PlugInv, PlugTypes
  <2>2. /\ ar.exp[k].slot \in SlotNbrs /\ x.sub \in SubNbrs /\ x.ident \in Idents
        /\ p \in Positions /\ p \in Expected(ar.exp) /\ p = <<ar.exp[k].slot, x.sub>>
    BY <2>1, PlaceOf DEF At
  <2>3. SlotSays(slots[ar.exp[k].slot], x) \in view[p]
    BY <1>11, ViewNow DEF ViewInv
  <2>4. ExpIdent(ar.exp, p) = x.ident
    BY <2>1, ExpIdentOf
  <2> SUFFICES SlotSays(slots'[ar.exp[k].slot], x) \in view'[p]
    OBVIOUS
  <2> HIDE DEF x, p
  <2>5. CASE ar.exp[k].slot # n
    BY <1>1, <1>2, <1>10, <2>2, <2>3, <2>5 DEF PlugInv, PlugTypes
  <2>6. CASE ar.exp[k].slot = n /\ (x.sub # b \/ ~new)
    <3>1. SlotSays(t, x) = SlotSays(s, x)
      BY <1>6, <2>2, <2>6 DEF SlotSays
    <3>2. SlotSays(s, x) = SlotSays(slots[n], x)
      BY <1>1, <2>2, PluggedSays DEF s
    <3>3. slots'[n] = t
      BY <1>1, <1>2 DEF PlugInv, PlugTypes
    <3>4. view'[p] = view[p]
      BY <1>9, <1>10, <2>2, <2>6
    <3> QED BY <2>3, <2>6, <3>1, <3>2, <3>3, <3>4
  <2>7. CASE ar.exp[k].slot = n /\ x.sub = b /\ new
    <3>1. told
      BY <1>4, <1>11, <2>2, <2>7 DEF Fine
    <3>2. slots'[n] = t
      BY <1>1, <1>2 DEF PlugInv, PlugTypes
    <3>3. SlotSays(t, x) = [mod |-> m, ident |-> i, wrong |-> i # x.ident]
      BY <1>5, <1>6, <1>7, <2>7 DEF SlotSays
    <3>4. SlotSays(t, x) \in know /\ SlotSays(t, x) \in Anything
      BY <2>2, <2>4, <2>7, <3>3 DEF know, Anything
    <3> QED BY <1>9, <2>2, <2>7, <3>1, <3>2, <3>4
  <2> QED BY <2>5, <2>6, <2>7
<1>12. view' = [p \in Positions |-> view'[p]]
  BY <1>2, <1>8
<1> QED BY <1>1, <1>2, <1>11, <1>12, ViewByPlace DEF Up

\* Submodules are pulled: the controller is told that they are gone, or may
\* believe anything.
LEMMA PulledView ==
    ASSUME ViewInv, PlugInv', NEW n \in SlotNbrs, NEW B \in SUBSET SubNbrs, NEW heard,
           UNCHANGED ar, PullSubs(n, B, heard),
           \A k \in SlotNbrs : k # n => slots'[k] = slots[k],
           \A b \in SubNbrs : \A x : x.sub = b =>
              SlotSays(slots'[n], x) = IF b \in B THEN Absent ELSE SlotSays(slots[n], x)
    PROVE  ViewInv'
<1>1. PlugInv /\ view' = [p \in Positions |->
                IF p[1] # n \/ p[2] \notin B THEN view[p]
                ELSE IF Posted(p[2] \in heard) THEN {Absent} ELSE Anything]
  BY DEF PullSubs, ViewInv
<1>2. ASSUME NEW k \in 1 .. Len(ar.exp), NEW j \in 1 .. Len(ar.exp[k].subs), Up
      PROVE  SlotSays(slots'[ar.exp[k].slot], ar.exp[k].subs[j]) \in view'[At(ar.exp, k, j)]
  <2> DEFINE x == ar.exp[k].subs[j]
             p == At(ar.exp, k, j)
  <2>1. ar.exp \in Requests
    BY <1>1, <1>2 DEF PlugInv, PlugTypes
  <2>2. /\ ar.exp[k].slot \in SlotNbrs /\ x.sub \in SubNbrs
        /\ p \in Positions /\ p[1] = ar.exp[k].slot /\ p[2] = x.sub
    BY <2>1, PlaceOf DEF At
  <2>3. SlotSays(slots[ar.exp[k].slot], x) \in view[p]
    BY <1>2, ViewNow
  <2>4. Absent \in Anything
    BY DEF Absent, Anything
  <2>5. view'[p] = IF p[1] # n \/ p[2] \notin B THEN view[p]
                   ELSE IF Posted(p[2] \in heard) THEN {Absent} ELSE Anything
    BY <1>1, <2>2
  <2> SUFFICES SlotSays(slots'[ar.exp[k].slot], x) \in view'[p]
    OBVIOUS
  <2> HIDE DEF x, p
  <2>6. CASE ar.exp[k].slot # n
    BY <2>2, <2>3, <2>5, <2>6
  <2>7. CASE ar.exp[k].slot = n /\ x.sub \notin B
    BY <2>2, <2>3, <2>5, <2>7
  <2>8. CASE ar.exp[k].slot = n /\ x.sub \in B
    <3>1. SlotSays(slots'[n], x) = Absent
      BY <2>2, <2>8
    <3> QED BY <2>2, <2>4, <2>5, <2>8, <3>1
  <2> QED BY <2>6, <2>7, <2>8
<1>3. view' = [p \in Positions |-> view'[p]]
  BY <1>1
<1> QED BY <1>2, <1>3, ViewByPlace DEF Up

LEMMA PullSubmoduleView ==
    ASSUME ViewInv, NEW n \in SlotNbrs, NEW b \in SubNbrs, NEW heard, PullSubmodule(n, b, heard)
    PROVE  ViewInv'
<1>1. PlugInv' /\ PlugInv
  BY PullSubmoduleInv DEF ViewInv
<1>2. CASE UNCHANGED <<slots, owned, ar, view>>
  BY <1>1, <1>2 DEF ViewInv, ViewTrue, Up
<1>3. CASE slots' = [slots EXCEPT ![n].subs[b] = NoSub] /\ PullSubs(n, {b}, heard) /\ UNCHANGED ar
  <2>1. slots[n] \in SlotType /\ slots \in [SlotNbrs -> SlotType]
    BY <1>1 DEF PlugInv, PlugTypes
  <2>2. slots'[n] = [slots[n] EXCEPT !.subs = [slots[n].subs EXCEPT ![b] = NoSub]]
    BY <1>3, <2>1 DEF SlotType
  <2>3. /\ slots'[n].in_use = slots[n].in_use /\ slots'[n].ident = slots[n].ident
        /\ slots'[n].subs = [slots[n].subs EXCEPT ![b] = NoSub]
    BY <2>1, <2>2 DEF SlotType
  <2>4. slots'[n].subs[b] = NoSub /\ \A c \in SubNbrs : c # b => slots'[n].subs[c] = slots[n].subs[c]
    BY <2>1, <2>3 DEF SlotType
  <2>5. ASSUME NEW c \in SubNbrs, NEW x, x.sub = c
        PROVE  SlotSays(slots'[n], x) = IF c \in {b} THEN Absent ELSE SlotSays(slots[n], x)
    <3>1. CASE c = b
      BY <2>4, <2>5, <3>1 DEF SlotSays, NoSub
    <3>2. CASE c # b
      BY <2>3, <2>4, <2>5, <3>2 DEF SlotSays
    <3> QED BY <3>1, <3>2
  <2>6. \A k \in SlotNbrs : k # n => slots'[k] = slots[k]
    BY <1>3, <2>1
  <2> QED BY <1>1, <1>3, <2>5, <2>6, PulledView
<1> QED BY <1>2, <1>3 DEF PullSubmodule, NullOwner

LEMMA PullModuleView ==
    ASSUME ViewInv, NEW n \in SlotNbrs, NEW heard, PullModule(n, heard) PROVE ViewInv'
<1>1. PlugInv' /\ PlugInv
  BY PullModuleInv DEF ViewInv
<1>2. CASE UNCHANGED <<slots, owned, ar, view>>
  BY <1>1, <1>2 DEF ViewInv, ViewTrue, Up
<1>3. CASE slots' = [slots EXCEPT ![n] = NoSlot] /\ PullSubs(n, SubsUsed(slots[n]), heard) /\ UNCHANGED ar
  <2>1. slots \in [SlotNbrs -> SlotType]
    BY <1>1 DEF PlugInv, PlugTypes
  <2>2. slots'[n] = NoSlot /\ \A k \in SlotNbrs : k # n => slots'[k] = slots[k]
    BY <1>3, <2>1
  <2>3. ASSUME NEW c \in SubNbrs, NEW x, x.sub = c
        PROVE  SlotSays(slots'[n], x)
                  = IF c \in SubsUsed(slots[n]) THEN Absent ELSE SlotSays(slots[n], x)
    <3>1. SlotSays(slots'[n], x) = Absent
      BY <2>2 DEF SlotSays, NoSlot
    <3>2. c \notin SubsUsed(slots[n]) => SlotSays(slots[n], x) = Absent
      BY <2>3 DEF SlotSays, SubsUsed
    <3> QED BY <3>1, <3>2
  <2>4. SubsUsed(slots[n]) \in SUBSET SubNbrs
    BY DEF SubsUsed
  <2> QED BY <1>1, <1>3, <2>2, <2>3, <2>4, PulledView
<1> QED BY <1>2, <1>3 DEF PullModule, NullOwner

\* A diagnosis changes nothing of what the controller believes here.
LEMMA DiagnoseView ==
    ASSUME ViewInv, NEW n \in SlotNbrs, NEW b \in SubNbrs, NEW f \in BOOLEAN, Diagnose(n, b, f)
    PROVE  ViewInv'
<1>1. PlugInv' /\ PlugInv
  BY DiagnoseInv DEF ViewInv
<1>2. slots \in [SlotNbrs -> SlotType] /\ UNCHANGED <<ar, view>>
  BY <1>1 DEF PlugInv, PlugTypes, Diagnose
<1>3. slots'[n] = [slots[n] EXCEPT !.subs =
                     [slots[n].subs EXCEPT ![b] = [slots[n].subs[b] EXCEPT !.fault = f]]]
      /\ \A k \in SlotNbrs : k # n => slots'[k] = slots[k]
  BY <1>2 DEF Diagnose, SlotType, SubType
<1>4. slots[n] \in SlotType /\ slots[n].subs[b] \in SubType
  BY <1>2 DEF SlotType
<1>5. /\ slots'[n].in_use = slots[n].in_use /\ slots'[n].ident = slots[n].ident
      /\ slots'[n].subs = [slots[n].subs EXCEPT ![b] = [slots[n].subs[b] EXCEPT !.fault = f]]
  BY <1>3, <1>4 DEF SlotType
<1>6. \A c \in SubNbrs : /\ slots'[n].subs[c].in_use = slots[n].subs[c].in_use
                         /\ slots'[n].subs[c].ident = slots[n].subs[c].ident
  BY <1>4, <1>5 DEF SlotType, SubType
<1>7. \A k \in SlotNbrs : \A x : x.sub \in SubNbrs => SlotSays(slots'[k], x) = SlotSays(slots[k], x)
  <2> TAKE k \in SlotNbrs
  <2> TAKE x
  <2>1. CASE k # n
    BY <1>3, <2>1
  <2>2. CASE k = n
    BY <1>5, <1>6, <2>2 DEF SlotSays
  <2> QED BY <2>1, <2>2
<1>8. ASSUME NEW k \in 1 .. Len(ar.exp), NEW j \in 1 .. Len(ar.exp[k].subs), Up
      PROVE  SlotSays(slots'[ar.exp[k].slot], ar.exp[k].subs[j]) \in view'[At(ar.exp, k, j)]
  <2>1. ar.exp[k].slot \in SlotNbrs /\ ar.exp[k].subs[j].sub \in SubNbrs
    BY <1>1, <1>8, PlaceOf DEF PlugInv, PlugTypes
  <2>2. SlotSays(slots[ar.exp[k].slot], ar.exp[k].subs[j]) \in view[At(ar.exp, k, j)]
    BY <1>8, ViewNow
  <2> QED BY <1>2, <1>7, <2>1, <2>2
<1> QED BY <1>1, <1>2, <1>8, ViewByPlace DEF ViewInv, Up

LEMMA PhaseView ==
    ASSUME ViewInv, AppReady \/ ReadyConfirmed \/ PrmBegin \/ ReadDiff PROVE ViewInv'
<1>1. PlugInv'
  BY PhaseInv DEF ViewInv
<1>2. /\ UNCHANGED <<slots, view>> /\ Up /\ ar'.exp = ar.exp
  BY DEF ViewInv, PlugInv, PlugTypes, AppReady, ReadyConfirmed, PrmBegin, ReadDiff, Up
<1> QED BY <1>1, <1>2 DEF ViewInv, ViewTrue

LEMMA AbortedView == ASSUME ViewInv, Aborted \/ EventAbort PROVE ViewInv'
<1>1. PlugInv'
  BY AbortedInv DEF ViewInv
<1>2. ~Up' /\ view' = Ignorant
  BY DEF Aborted, EventAbort, Up, NoAr
<1> QED BY <1>1, <1>2 DEF ViewInv, ViewTrue, Ignorant

LEMMA ViewStep == ViewInv /\ [PlugNext]_pvars => ViewInv'
<1> SUFFICES ASSUME ViewInv, [PlugNext]_pvars PROVE ViewInv'
  OBVIOUS
<1>1. CASE Connect
  BY <1>1, AcceptedView, RefusedView DEF Connect
<1>2. CASE AppReady \/ ReadyConfirmed \/ PrmBegin \/ ReadDiff
  BY <1>2, PhaseView
<1>3. CASE Aborted \/ EventAbort
  BY <1>3, AbortedView
<1>4. CASE Application
  BY <1>4, PlugModuleView, PlugSubmoduleView, PullSubmoduleView, PullModuleView, DiagnoseView
     DEF Application
<1>5. CASE UNCHANGED pvars
  <2>1. PlugInv'
    BY <1>5, PlugStepInv DEF ViewInv
  <2> QED BY <1>5, <2>1 DEF pvars, ViewInv, ViewTrue, Up
<1> QED BY <1>1, <1>2, <1>3, <1>4, <1>5 DEF PlugNext

\* The difference block of the Connect response and the alarms are enough for
\* the controller to follow what is plugged, for any requests, any number of
\* slots and subslots and in every order of plugging and pulling: it errs only
\* about a submodule whose alarm was refused (pf_cmdev_generate_submodule_diff,
\* pf_cmdev_plug_submodule, pf_cmdev_pull_submodule).
THEOREM ControllerFollows == PlugSpec => []ViewTrue
<1>1. PlugInit => ViewInv
  <2> SUFFICES ASSUME PlugInit PROVE ViewInv
    OBVIOUS
  <2>1. ~Up /\ view = Ignorant
    BY DEF PlugInit, Up, NoAr
  <2> QED BY <2>1, PlugInitInv DEF ViewInv, ViewTrue, Ignorant
<1>2. ViewInv => ViewTrue
  BY DEF ViewInv
<1> QED BY <1>1, <1>2, ViewStep, PTL DEF PlugSpec

\* The block of a Connect response tells of every expected submodule whether it
\* is there, of another ident number, and has a diagnosis, although an entry is
\* written over what the module before it has left there
\* (pf_cmdev_generate_submodule_diff).
THEOREM ConnectReportsTrue == PlugSpec => ReportTrue
<1>1. PlugInv /\ [PlugNext]_pvars => [~Up /\ Up' => Agrees(slots', ar.diff', ar.exp')]_pvars
  <2> SUFFICES ASSUME PlugInv, PlugNext, ~Up, Up' PROVE Agrees(slots', ar.diff', ar.exp')
    OBVIOUS
  <2>1. Application => UNCHANGED ar
    <3>1. \A n, m : PlugModule(n, m) => UNCHANGED ar
      BY DEF PlugModule
    <3>2. \A n, b, m, i, room : PlugSubmodule(n, b, m, i, room) => UNCHANGED ar
      BY DEF PlugSubmodule
    <3>3. \A n, b, heard : PullSubmodule(n, b, heard) => UNCHANGED ar
      BY DEF PullSubmodule, NullOwner
    <3>4. \A n, heard : PullModule(n, heard) => UNCHANGED ar
      BY DEF PullModule, NullOwner
    <3>5. \A n, b, f : Diagnose(n, b, f) => UNCHANGED ar
      BY DEF Diagnose
    <3> QED BY <3>1, <3>2, <3>3, <3>4, <3>5 DEF Application
  <2>2. AppReady \/ ReadyConfirmed \/ PrmBegin \/ ReadDiff \/ Aborted \/ EventAbort => Up
    BY DEF AppReady, ReadyConfirmed, PrmBegin, ReadDiff, Aborted, EventAbort, Up
  <2>3. Connect
    BY <2>1, <2>2 DEF PlugNext, Up
  <2>4. \A r \in Requests, app \in Answers, subs \in SubAnswers, k \in Nat : \A took :
           ~ConnectRefused(r, k, took, app, subs)
    BY DEF ConnectRefused, Up
  <2>5. PICK r \in Requests, app \in Answers, subs \in SubAnswers : ConnectAccepted(r, app, subs)
    BY <2>3, <2>4 DEF Connect
  <2> QED BY <2>5, AcceptedAgrees
<1>2. PlugInv /\ [PlugNext]_pvars => PlugInv'
  BY PlugStepInv
<1> QED BY <1>1, <1>2, PlugInitInv, PTL DEF PlugSpec, ReportTrue

(***************************************************************************)
(* Diagnosis.                                                              *)
(***************************************************************************)
Links == Items \cup {Null}
Linking(it) == \A x \in Items : it[x].next \in Links
ClosedFor(it, S) == \A y \in S : it[y].next \in S \cup {Null}

\* A list has its first item, what its links lead to, and nothing else.
LEMMA ListedIs ==
    ASSUME NEW it, NEW x, NEW y
    PROVE  y \in Listed(it, x) <=>
              y \in Items /\ \A S \in SUBSET Items :
                 x \in S \cup {Null} /\ ClosedFor(it, S) => y \in S
BY DEF Listed, ClosedFor

LEMMA ListedFirst == \A it : \A x \in Items : x \in Listed(it, x)
<1> TAKE it
<1> TAKE x \in Items
<1>1. x # Null
  BY DiagnosisAssumption DEF Items, Null
<1> QED BY <1>1, ListedIs

LEMMA ListedItems == \A it : \A x : Listed(it, x) \subseteq Items
BY ListedIs

LEMMA ListedLeast ==
    ASSUME NEW it, NEW x, NEW S \in SUBSET Items, x \in S \cup {Null}, ClosedFor(it, S)
    PROVE  Listed(it, x) \subseteq S
BY ListedIs

LEMMA ListedClosed ==
    ASSUME NEW it, Linking(it), NEW x PROVE ClosedFor(it, Listed(it, x))
<1> SUFFICES ASSUME NEW y \in Listed(it, x), it[y].next # Null
             PROVE  it[y].next \in Listed(it, x)
  BY DEF ClosedFor
<1>1. y \in Items /\ it[y].next \in Items
  BY ListedIs DEF Linking, Links
<1>2. ASSUME NEW S \in SUBSET Items, x \in S \cup {Null}, ClosedFor(it, S)
      PROVE  it[y].next \in S
  BY <1>2, ListedIs DEF ClosedFor
<1> QED BY <1>1, <1>2, ListedIs

LEMMA ListedNull == \A it : Listed(it, Null) = {}
<1> TAKE it
<1>1. ClosedFor(it, {})
  BY DEF ClosedFor
<1> QED BY <1>1, ListedLeast

\* What is listed from a listed item is listed.
LEMMA ListedOf ==
    ASSUME NEW it, Linking(it), NEW x, NEW y \in Listed(it, x)
    PROVE  Listed(it, y) \subseteq Listed(it, x)
BY ListedClosed, ListedLeast, ListedItems

LEMMA ListedStep ==
    ASSUME NEW it, Linking(it), NEW x \in Items
    PROVE  Listed(it, x) = {x} \cup Listed(it, it[x].next)
<1> DEFINE S == {x} \cup Listed(it, it[x].next)
<1>1. Listed(it, x) \subseteq S
  <2>1. S \in SUBSET Items
    BY ListedItems
  <2>2. ClosedFor(it, S)
    <3>1. it[x].next \in Listed(it, it[x].next) \cup {Null}
      BY ListedFirst DEF Linking, Links
    <3> QED BY <3>1, ListedClosed DEF ClosedFor
  <2> HIDE DEF S
  <2>3. x \in S
    BY DEF S
  <2> QED BY <2>1, <2>2, <2>3, ListedLeast
<1>2. Listed(it, it[x].next) \subseteq Listed(it, x)
  <2>1. x \in Listed(it, x)
    BY ListedFirst
  <2>2. CASE it[x].next = Null
    BY <2>2, ListedNull
  <2>3. CASE it[x].next # Null
    <3>1. it[x].next \in Listed(it, x)
      BY <2>1, <2>3, ListedClosed DEF ClosedFor
    <3> QED BY <3>1, ListedOf
  <2> QED BY <2>2, <2>3
<1>3. x \in Listed(it, x)
  BY ListedFirst
<1> QED BY <1>1, <1>2, <1>3

\* A list stays if the links of its items do.
LEMMA ListedSame ==
    ASSUME NEW it, Linking(it), NEW jt, Linking(jt), NEW x \in Links,
           \A y \in Listed(it, x) : jt[y].next = it[y].next
    PROVE  Listed(jt, x) = Listed(it, x)
<1>0. x \in Listed(it, x) \cup {Null} /\ x \in Listed(jt, x) \cup {Null}
  BY ListedFirst DEF Links
<1>1. Listed(jt, x) \subseteq Listed(it, x)
  <2>1. ClosedFor(jt, Listed(it, x))
    BY ListedClosed DEF ClosedFor
  <2> QED BY <1>0, <2>1, ListedLeast, ListedItems
<1>2. Listed(it, x) \subseteq Listed(jt, x)
  <2>1. ClosedFor(it, Listed(jt, x))
    BY <1>1, ListedClosed DEF ClosedFor
  <2> QED BY <1>0, <2>1, ListedLeast, ListedItems
<1> QED BY <1>1, <1>2

\* Of a list that ends, every rest ends.
LEMMA EndsNext ==
    ASSUME NEW it, Linking(it), NEW x \in Items, Ends(it, x)
    PROVE  Ends(it, it[x].next)
<1>1. x # Null
  BY DiagnosisAssumption DEF Items, Null
<1>2. PICK y \in Listed(it, x) : it[y].next = Null
  BY <1>1 DEF Ends
<1> QED BY <1>2, ListedStep DEF Ends

LEMMA EndsAll ==
    ASSUME NEW it, Linking(it), NEW x \in Links, Ends(it, x), NEW y \in Listed(it, x)
    PROVE  Ends(it, y)
<1> DEFINE S == {z \in Items : Ends(it, z)}
<1>1. ClosedFor(it, S)
  BY EndsNext DEF ClosedFor, Linking, Links
<1>2. x \in S \cup {Null}
  BY DEF Links
<1> HIDE DEF S
<1>3. Listed(it, x) \subseteq S
  BY <1>1, <1>2, ListedLeast DEF S
<1> QED BY <1>3 DEF S

\* No item of a list that ends is listed twice.
LEMMA NoCycle ==
    ASSUME NEW it, Linking(it), NEW x \in Items, Ends(it, x)
    PROVE  x \notin Listed(it, it[x].next)
<1> SUFFICES ASSUME x \in Listed(it, it[x].next) PROVE FALSE
  OBVIOUS
<1> DEFINE S == {y \in Items : x \in Listed(it, y)}
<1>1. ASSUME NEW y \in S PROVE it[y].next \in S
  <2>1. x \in Listed(it, it[y].next)
    BY ListedStep
  <2>2. it[y].next # Null
    BY <2>1, ListedNull
  <2> QED BY <2>1, <2>2 DEF Linking, Links
<1>2. ClosedFor(it, S) /\ x \in S
  BY <1>1, ListedFirst DEF ClosedFor
<1>3. x # Null /\ Null \notin S
  BY DiagnosisAssumption DEF Items, Null
<1> HIDE DEF S
<1>4. Listed(it, x) \subseteq S
  BY <1>2, ListedLeast DEF S
<1> QED BY <1>1, <1>3, <1>4 DEF Ends

LEMMA NoCycleIn ==
    ASSUME NEW it, Linking(it), NEW h \in Links, Ends(it, h), NEW x \in Listed(it, h)
    PROVE  x \notin Listed(it, it[x].next)
BY NoCycle, EndsAll, ListedItems

\* Of two items of a list one is listed from the other.
LEMMA OneAfterOther ==
    ASSUME NEW it, Linking(it), NEW x \in Links, NEW y \in Listed(it, x), NEW z \in Listed(it, x)
    PROVE  z \in Listed(it, y) \/ y \in Listed(it, z)
<1> DEFINE S == {v \in Listed(it, x) : v \in Listed(it, y) \/ y \in Listed(it, v)}
<1>1. ASSUME NEW v \in S, it[v].next # Null PROVE it[v].next \in S
  <2>1. v \in Items /\ it[v].next \in Listed(it, x)
    BY <1>1, ListedItems, ListedClosed DEF ClosedFor
  <2>2. CASE v \in Listed(it, y)
    BY <1>1, <2>1, <2>2, ListedClosed DEF ClosedFor
  <2>3. CASE y \in Listed(it, v)
    <3>1. y = v \/ y \in Listed(it, it[v].next)
      BY <2>1, <2>3, ListedStep
    <3>2. CASE y = v
      <4>1. it[v].next \in Listed(it, v)
        BY <1>1, <2>1, ListedFirst, ListedClosed DEF ClosedFor
      <4> QED BY <2>1, <3>2, <4>1
    <3> QED BY <2>1, <3>1, <3>2
  <2> QED BY <2>2, <2>3
<1>2. ClosedFor(it, S) /\ S \in SUBSET Items
  BY <1>1, ListedItems DEF ClosedFor
<1>3. x \in S \cup {Null}
  BY ListedFirst DEF Links
<1> HIDE DEF S
<1>4. Listed(it, x) \subseteq S
  BY <1>2, <1>3, ListedLeast
<1> QED BY <1>4 DEF S

\* Two items of a list that ends do not come after each other.
LEMMA NotBoth ==
    ASSUME NEW it, Linking(it), NEW x \in Links, Ends(it, x), NEW y \in Listed(it, x),
           NEW z \in Listed(it, y), y \in Listed(it, z)
    PROVE  y = z
<1> SUFFICES ASSUME y # z PROVE FALSE
  OBVIOUS
<1>1. y \in Items /\ z \in Items /\ it[y].next \in Links
  BY ListedItems DEF Linking
<1>2. z \in Listed(it, it[y].next)
  BY <1>1, ListedStep
<1>3. y \in Listed(it, it[y].next)
  BY <1>2, ListedOf
<1> QED BY <1>3, NoCycleIn

\* Every item but the first is the next of one item of the list.
LEMMA OneBefore ==
    ASSUME NEW it, Linking(it), NEW x \in Links, NEW y \in Listed(it, x), y # x
    PROVE  \E p \in Listed(it, x) : it[p].next = y
<1> SUFFICES ASSUME \A p \in Listed(it, x) : it[p].next # y PROVE FALSE
  OBVIOUS
<1> DEFINE S == Listed(it, x) \ {y}
<1>1. ClosedFor(it, S) /\ S \in SUBSET Items
  BY ListedClosed, ListedItems DEF ClosedFor
<1>2. x \in S \cup {Null}
  BY ListedFirst DEF Links
<1> HIDE DEF S
<1>3. Listed(it, x) \subseteq S
  BY <1>1, <1>2, ListedLeast
<1> QED BY <1>3 DEF S

LEMMA OnlyOneBefore ==
    ASSUME NEW it, Linking(it), NEW x \in Links, Ends(it, x), NEW p \in Listed(it, x),
           NEW q \in Listed(it, x), it[p].next = it[q].next, it[p].next # Null
    PROVE  p = q
<1>1. p \in Items /\ q \in Items
  BY ListedItems
<1>2. CASE q \in Listed(it, p)
  <2>1. p = q \/ q \in Listed(it, it[p].next)
    BY <1>1, <1>2, ListedStep
  <2> QED BY <2>1, NoCycleIn
<1>3. CASE p \in Listed(it, q)
  <2>1. p = q \/ p \in Listed(it, it[q].next)
    BY <1>1, <1>3, ListedStep
  <2> QED BY <2>1, NoCycleIn
<1> QED BY <1>2, <1>3, OneAfterOther

\* An item is taken out of a list: its predecessor is given its link.
LEMMA TakenOut ==
    ASSUME NEW it, Linking(it), NEW h \in Links, Ends(it, h),
           NEW p \in Listed(it, h), NEW x \in Listed(it, h), it[p].next = x,
           NEW jt, Linking(jt), jt[p].next = it[x].next,
           \A y \in Items \ {p} : jt[y].next = it[y].next
    PROVE  Listed(jt, h) = Listed(it, h) \ {x} /\ Ends(jt, h)
<1>0. p \in Items /\ x \in Items /\ x # Null /\ p # Null
  BY ListedItems, DiagnosisAssumption DEF Items, Null
<1>1. x # h
  <2>1. ASSUME h = x PROVE FALSE
    <3>1. p \in Listed(it, it[p].next)
      BY <2>1
    <3> QED BY <3>1, NoCycleIn
  <2> QED BY <2>1
<1>2. x # p /\ it[x].next # x
  BY <1>0, NoCycleIn, ListedFirst
<1>3. h \in Listed(it, h) \cup {Null}
  BY ListedFirst DEF Links
<1>4. Listed(jt, h) \subseteq Listed(it, h) \ {x}
  <2> DEFINE S == Listed(it, h) \ {x}
  <2>1. ASSUME NEW y \in S PROVE jt[y].next \in S \cup {Null}
    <3>1. CASE y = p
      BY <1>2, <3>1, ListedClosed DEF ClosedFor
    <3>2. CASE y # p
      <4>1. it[y].next # x
        BY <1>0, <3>2, OnlyOneBefore
      <4>2. jt[y].next = it[y].next
        BY <3>2, ListedItems
      <4> QED BY <4>1, <4>2, ListedClosed DEF ClosedFor
    <3> QED BY <3>1, <3>2
  <2>2. ClosedFor(jt, S) /\ h \in S \cup {Null} /\ S \in SUBSET Items
    BY <1>1, <1>3, <2>1, ListedItems DEF ClosedFor
  <2> HIDE DEF S
  <2>3. Listed(jt, h) \subseteq S
    BY <2>2, ListedLeast
  <2> QED BY <2>3 DEF S
<1>5. p \in Listed(jt, h)
  <2> SUFFICES ASSUME p \notin Listed(jt, h) PROVE FALSE
    OBVIOUS
  <2>1. \A y \in Listed(jt, h) : it[y].next = jt[y].next
    BY ListedItems
  <2>2. Listed(it, h) = Listed(jt, h)
    BY <2>1, ListedSame
  <2> QED BY <2>2
<1>6. Listed(it, h) \subseteq Listed(jt, h) \cup {x}
  <2> DEFINE S == Listed(jt, h) \cup {x}
  <2>1. ASSUME NEW y \in S PROVE it[y].next \in S \cup {Null}
    <3>1. CASE y = x
      BY <1>5, <3>1, ListedClosed DEF ClosedFor
    <3>2. CASE y = p
      BY <3>2
    <3>3. CASE y # x /\ y # p
      <4>1. jt[y].next = it[y].next /\ y \in Listed(jt, h)
        BY <3>3, ListedItems
      <4> QED BY <4>1, ListedClosed DEF ClosedFor
    <3> QED BY <3>1, <3>2, <3>3
  <2>2. h \in S \cup {Null}
    BY ListedFirst DEF Links
  <2>3. ClosedFor(it, S) /\ S \in SUBSET Items
    BY <1>0, <2>1, ListedItems DEF ClosedFor
  <2> HIDE DEF S
  <2>4. Listed(it, h) \subseteq S
    BY <2>2, <2>3, ListedLeast
  <2> QED BY <2>4 DEF S
<1>7. Ends(jt, h)
  <2>1. CASE it[x].next = Null
    BY <1>5, <2>1 DEF Ends
  <2>2. CASE it[x].next # Null
    <3>1. CASE h = Null
      BY <3>1 DEF Ends
    <3>2. PICK y \in Listed(it, h) : h # Null => it[y].next = Null
      BY <1>5 DEF Ends
    <3>3. CASE h # Null
      <4>1. y # x /\ y # p
        BY <1>0, <2>2, <3>2, <3>3
      <4>2. y \in Listed(jt, h) /\ jt[y].next = Null
        BY <1>6, <3>2, <3>3, <4>1, ListedItems
      <4> QED BY <4>2 DEF Ends
    <3> QED BY <3>1, <3>3
  <2> QED BY <2>1, <2>2
<1> QED BY <1>4, <1>5, <1>6, <1>7

\* An item is put before a list.
LEMMA PutBefore ==
    ASSUME NEW it, Linking(it), NEW h \in Links, Ends(it, h), NEW x \in Items \ Listed(it, h),
           NEW jt, Linking(jt), jt[x].next = h,
           \A y \in Listed(it, h) : jt[y].next = it[y].next
    PROVE  Listed(jt, x) = {x} \cup Listed(it, h) /\ Ends(jt, x)
<1>1. Listed(jt, h) = Listed(it, h)
  BY ListedSame
<1>2. Listed(jt, x) = {x} \cup Listed(jt, h)
  BY ListedStep
<1> QED BY <1>1, <1>2 DEF Ends

LEMMA EndsSame ==
    ASSUME NEW it, Linking(it), NEW jt, Linking(jt), NEW x \in Links, Ends(it, x),
           \A y \in Listed(it, x) : jt[y].next = it[y].next
    PROVE  Listed(jt, x) = Listed(it, x) /\ Ends(jt, x)
BY ListedSame DEF Ends

AnyKey == Keys \cup {CHOOSE k \in Keys : TRUE}
DiagItems == [used : BOOLEAN, next : Links, key : AnyKey, sev : AllSeverities]
Removals == [at : {"idle"}]
            \cup [at : {"unlinked", "freeing"}, s : Places, x : Items]
            \cup [at : {"read"}, s : Places, x : Items, flags : SUBSET AllSeverities]
DiagTypes ==
    /\ item \in [Items -> DiagItems] /\ spare \in Links /\ head \in [Places -> Links]
    /\ flags \in [Places -> SUBSET AllSeverities]
    /\ lost \in SUBSET Items /\ hand \in [Agents -> Removals]

\* The lists end and share no item; each holds a key once, the free list what
\* is unused.
Sound ==
    /\ Ends(item, spare) /\ \A s \in Places : Ends(item, head[s])
    /\ \A s, p \in Places : s # p => Listed(item, head[s]) \cap Listed(item, head[p]) = {}
    /\ \A x \in Listed(item, spare) : ~item[x].used /\ x \notin lost
    /\ \A s \in Places : \A x \in Listed(item, head[s]) : item[x].used /\ x \notin lost
    /\ \A s \in Places : \A x, y \in Listed(item, head[s]) : item[x].key = item[y].key => x = y
\* No item is missing.
Somewhere ==
    \A x \in Items : \/ x \in lost \/ x \in Listed(item, spare)
                     \/ \E t \in Agents : hand[t].at # "idle" /\ hand[t].x = x
                     \/ \E s \in Places : x \in Listed(item, head[s])
\* An item that is being removed is nowhere else; when it is about to be freed
\* it leads to the free list.
OutOfLists ==
    \A t \in Agents : hand[t].at # "idle" =>
        /\ hand[t].x \notin lost \cup Listed(item, spare)
        /\ \A s \in Places : hand[t].x \notin Listed(item, head[s])
        /\ \A u \in Agents : hand[u].at # "idle" /\ hand[u].x = hand[t].x => u = t
        /\ hand[t].at = "freeing" => item[hand[t].x].next = spare /\ ~item[hand[t].x].used
\* The flags that a removal has read are those of the list; a submodule has
\* those of its list, except from an unlinking to the giving of the flags.
Told ==
    /\ \A t \in Agents : hand[t].at = "read" => hand[t].flags = Flags(item, head[hand[t].s])
    /\ \A s \in Places :
          (\A t \in Agents : hand[t].at \in {"unlinked", "read"} => hand[t].s # s)
             => flags[s] = Flags(item, head[s])

KeptInv == Sound /\ Somewhere /\ OutOfLists /\ Told
DiagInv == ~clashed => DiagTypes /\ KeptInv

LEMMA ItemsLink == \A it \in [Items -> DiagItems] : Linking(it)
BY DEF DiagItems, Linking

LEMMA BlankItem ==
    /\ [Blank EXCEPT !.used = TRUE] \in DiagItems
    /\ \A y \in Links : /\ [Blank EXCEPT !.next = y] \in DiagItems
                        /\ [Blank EXCEPT !.next = y].next = y
                        /\ ~[Blank EXCEPT !.next = y].used
BY DEF Blank, DiagItems, AnyKey, AllSeverities, Links, Null

LEMMA HandFacts ==
    ASSUME DiagTypes, NEW t \in Agents
    PROVE  /\ hand[t].at \in {"idle", "unlinked", "read", "freeing"}
           /\ hand[t].at # "idle" => hand[t].x \in Items /\ hand[t].s \in Places
           /\ hand[t] = Free <=> hand[t].at = "idle"
           /\ hand[t].at = "read" => hand[t].flags \in SUBSET AllSeverities
<1>1. hand[t] \in Removals
  BY DEF DiagTypes
<1>2. hand[t].at = "idle" => hand[t] = [at |-> "idle"]
  BY <1>1 DEF Removals
<1> QED BY <1>1, <1>2 DEF Removals, Free

\* A list whose items do not change.
LEMMA SameList ==
    ASSUME NEW it \in [Items -> DiagItems], NEW jt \in [Items -> DiagItems],
           NEW h \in Links, Ends(it, h), \A y \in Listed(it, h) : jt[y] = it[y]
    PROVE  Listed(jt, h) = Listed(it, h) /\ Ends(jt, h) /\ Flags(jt, h) = Flags(it, h)
<1>1. Linking(it) /\ Linking(jt)
  BY ItemsLink
<1>2. Listed(jt, h) = Listed(it, h) /\ Ends(jt, h)
  BY <1>1, EndsSame
<1>3. {y \in Listed(jt, h) : jt[y].used} = {y \in Listed(it, h) : it[y].used}
  BY <1>2
<1> QED BY <1>2, <1>3 DEF Flags

LEMMA FlagsType ==
    ASSUME NEW it \in [Items -> DiagItems], NEW h PROVE Flags(it, h) \in SUBSET AllSeverities
BY ListedItems DEF Flags, Flag, DiagItems, AllSeverities

\* An item is unlinked from the list of its subslot.
LEMMA UnlinkedFacts ==
    ASSUME DiagTypes, Sound, NEW s \in Places, NEW x \in Listed(item, head[s]),
           NEW u, u = Unlinked(s, x)
    PROVE  /\ u.spare = spare /\ u.list \in Links
           /\ u.item \in [Items -> DiagItems]
           /\ Listed(u.item, u.list) = Listed(item, head[s]) \ {x}
           /\ Ends(u.item, u.list)
           /\ \A y \in Items : /\ u.item[y].used = item[y].used
                               /\ u.item[y].key = item[y].key
                               /\ u.item[y].sev = item[y].sev
           /\ \A y \in Items \ Listed(item, head[s]) : u.item[y] = item[y]
<1>1. item \in [Items -> DiagItems] /\ head[s] \in Links /\ spare \in Links
      /\ Linking(item) /\ Ends(item, head[s])
  BY ItemsLink DEF DiagTypes, Sound
<1>2. x \in Items /\ item[x].next \in Links
  BY <1>1, ListedItems DEF Linking
<1>3. CASE head[s] = x
  <2>1. u.spare = spare /\ u.item = item /\ u.list = item[x].next
    BY <1>3 DEF Unlinked, Mem
  <2>2. Listed(item, x) = {x} \cup Listed(item, item[x].next)
    BY <1>1, <1>2, ListedStep
  <2>3. x \notin Listed(item, item[x].next)
    BY <1>1, NoCycleIn
  <2>4. Ends(item, item[x].next)
    BY <1>1, <1>2, <1>3, EndsNext
  <2> QED BY <1>1, <1>2, <1>3, <2>1, <2>2, <2>3, <2>4
<1>4. CASE head[s] # x
  <2> DEFINE prev == CHOOSE y \in Listed(item, head[s]) : item[y].next = x
  <2>1. prev \in Listed(item, head[s]) /\ item[prev].next = x
    BY <1>1, <1>4, OneBefore
  <2>2. u = [Mem EXCEPT !.item[prev].next = item[x].next, !.list = head[s]]
    BY <1>4 DEF Unlinked
  <2> HIDE DEF prev
  <2>3. prev \in Items
    BY <2>1, ListedItems
  <2>4. /\ u.spare = spare /\ u.list = head[s]
        /\ u.item = [item EXCEPT ![prev].next = item[x].next]
    BY <2>2 DEF Mem
  <2>5. u.item \in [Items -> DiagItems]
    BY <1>1, <1>2, <2>3, <2>4 DEF DiagItems
  <2>6. /\ u.item[prev].next = item[x].next
        /\ \A y \in Items \ {prev} : u.item[y] = item[y]
        /\ \A y \in Items : /\ u.item[y].used = item[y].used
                            /\ u.item[y].key = item[y].key
                            /\ u.item[y].sev = item[y].sev
    BY <1>1, <2>3, <2>4 DEF DiagItems
  <2>7. Linking(u.item)
    BY <2>5, ItemsLink
  <2>8. Listed(u.item, head[s]) = Listed(item, head[s]) \ {x} /\ Ends(u.item, head[s])
    BY <1>1, <2>1, <2>6, <2>7, TakenOut
  <2> QED BY <1>1, <2>1, <2>4, <2>5, <2>6, <2>8
<1> QED BY <1>3, <1>4

\* A key is found at the one item of the list that has it.
LEMMA FoundFacts ==
    ASSUME DiagTypes, Sound, NEW s \in Places, NEW k, WithKey(s, k) # {}
    PROVE  /\ Found(s, k) \in Listed(item, head[s])
           /\ item[Found(s, k)].key = k
           /\ \A y \in Listed(item, head[s]) : item[y].key = k => y = Found(s, k)
<1>1. PICK x \in WithKey(s, k) : TRUE
  OBVIOUS
<1>2. \A y \in WithKey(s, k) : y = x
  BY DEF WithKey, Sound
<1>3. x \in Listed(item, x)
  BY ListedFirst, ListedItems DEF WithKey
<1>4. \E y \in WithKey(s, k) : WithKey(s, k) \subseteq Listed(item, y)
  BY <1>2, <1>3
<1>5. Found(s, k) \in WithKey(s, k)
  BY <1>4 DEF Found
<1> QED BY <1>2, <1>5 DEF WithKey

\* What is asked of the memory m for its list to become that of subslot s, and
\* its free list the free list.
Ready(m, s) ==
    /\ m.item \in [Items -> DiagItems] /\ m.list \in Links /\ m.spare \in Links
    /\ Ends(m.item, m.list) /\ Ends(m.item, m.spare)
    /\ Listed(m.item, m.list) \cup Listed(m.item, m.spare)
          = Listed(item, head[s]) \cup Listed(item, spare)
    /\ Listed(m.item, m.spare) \subseteq Listed(item, spare)
    /\ \A y \in Listed(m.item, m.spare) : ~m.item[y].used
    /\ \A y \in Listed(m.item, m.list) : m.item[y].used
    /\ \A y, z \in Listed(m.item, m.list) : m.item[y].key = m.item[z].key => y = z
    /\ \A y \in Items \ (Listed(item, head[s]) \cup Listed(item, spare)) : m.item[y] = item[y]

\* An item that was in the list becomes its first.
LEMMA RelinkedReady ==
    ASSUME DiagTypes, Sound, NEW s \in Places, NEW k \in Keys, WithKey(s, k) # {},
           NEW v \in AllSeverities,
           NEW m, m = Linked(Unlinked(s, Found(s, k)), Found(s, k), k, v)
    PROVE  Ready(m, s) /\ m.spare = spare
<1> DEFINE x == Found(s, k)
           u == Unlinked(s, x)
<1>1. /\ x \in Listed(item, head[s]) /\ x \in Items
      /\ \A y \in Listed(item, head[s]) : item[y].key = k => y = x
  BY FoundFacts, ListedItems
<1> HIDE DEF x
<1>2. /\ u.spare = spare /\ u.list \in Links
      /\ u.item \in [Items -> DiagItems]
      /\ Listed(u.item, u.list) = Listed(item, head[s]) \ {x}
      /\ Ends(u.item, u.list)
      /\ \A y \in Items : /\ u.item[y].used = item[y].used
                          /\ u.item[y].key = item[y].key
                          /\ u.item[y].sev = item[y].sev
      /\ \A y \in Items \ Listed(item, head[s]) : u.item[y] = item[y]
  BY <1>1, UnlinkedFacts
<1>3. m = [u EXCEPT !.item[x] = [used |-> TRUE, next |-> u.list, key |-> k, sev |-> v],
                    !.list = x]
  BY DEF Linked, x
<1>4. u = [item |-> u.item, spare |-> u.spare, list |-> u.list]
  BY DEF Unlinked, Mem
<1> HIDE DEF u
<1> DEFINE new == [used |-> TRUE, next |-> u.list, key |-> k, sev |-> v]
<1>5. /\ m.item = [u.item EXCEPT ![x] = new]
      /\ m.spare = spare /\ m.list = x
  BY <1>2, <1>3, <1>4
<1>6. new \in DiagItems /\ new.next = u.list /\ new.used /\ new.key = k
  BY <1>2 DEF DiagItems, AnyKey
<1> HIDE DEF new
<1>7. /\ m.item \in [Items -> DiagItems] /\ m.item[x] = new
      /\ \A y \in Items \ {x} : m.item[y] = u.item[y]
  BY <1>1, <1>2, <1>5, <1>6
<1>8. Linking(u.item) /\ Linking(m.item) /\ x \in Links /\ spare \in Links
  BY <1>1, <1>2, <1>7, ItemsLink DEF Links, DiagTypes
<1>9. Listed(m.item, x) = Listed(item, head[s]) /\ Ends(m.item, x)
  <2>1. \A y \in Listed(u.item, u.list) : m.item[y].next = u.item[y].next
    BY <1>2, <1>7, ListedItems
  <2>2. Listed(m.item, x) = {x} \cup Listed(u.item, u.list) /\ Ends(m.item, x)
    BY <1>1, <1>2, <1>6, <1>7, <1>8, <2>1, PutBefore
  <2> QED BY <1>1, <1>2, <2>2
<1>10. \A y \in Listed(item, spare) : y \notin Listed(item, head[s])
  BY DEF Sound
<1>11. Listed(m.item, spare) = Listed(item, spare) /\ Ends(m.item, spare)
  <2>1. \A y \in Listed(item, spare) : m.item[y] = item[y]
    BY <1>1, <1>2, <1>7, <1>10, ListedItems
  <2> QED BY <1>7, <1>8, <2>1, SameList DEF DiagTypes, Sound
<1>12. \A y \in Listed(item, spare) : ~m.item[y].used
  BY <1>1, <1>2, <1>7, <1>10, ListedItems DEF Sound
<1>13. \A y \in Listed(item, head[s]) : m.item[y].used
  BY <1>2, <1>6, <1>7, ListedItems DEF Sound
<1>14. \A y, z \in Listed(item, head[s]) : m.item[y].key = m.item[z].key => y = z
  <2>1. \A y \in Listed(item, head[s]) \ {x} : m.item[y].key = item[y].key /\ item[y].key # k
    BY <1>1, <1>2, <1>7, ListedItems
  <2> QED BY <1>6, <1>7, <2>1 DEF Sound
<1>15. \A y \in Items \ (Listed(item, head[s]) \cup Listed(item, spare)) : m.item[y] = item[y]
  BY <1>1, <1>2, <1>7
<1> QED BY <1>5, <1>7, <1>8, <1>9, <1>11, <1>12, <1>13, <1>14, <1>15 DEF Ready

\* The first of the free items becomes the first of the list.
LEMMA AllocatedReady ==
    ASSUME DiagTypes, Sound, NEW s \in Places, NEW k \in Keys, WithKey(s, k) = {},
           spare # Null, NEW v \in AllSeverities,
           NEW m, m = Linked(Allocated(s), spare, k, v)
    PROVE  Ready(m, s)
<1> DEFINE new == [used |-> TRUE, next |-> head[s], key |-> k, sev |-> v]
<1>1. /\ item \in [Items -> DiagItems] /\ spare \in Items /\ head[s] \in Links
      /\ Linking(item) /\ Ends(item, spare) /\ Ends(item, head[s])
  BY ItemsLink DEF DiagTypes, Sound, Links
<1>2. m = [Allocated(s) EXCEPT !.item[spare] = [used |-> TRUE, next |-> Allocated(s).list,
                                                key |-> k, sev |-> v], !.list = spare]
  BY DEF Linked
<1>3. Allocated(s) = [item |-> item, spare |-> item[spare].next, list |-> head[s]]
  <2> DEFINE r == [Mem EXCEPT !.spare = item[spare].next]
  <2>1. r = [item |-> item, spare |-> item[spare].next, list |-> Null]
    BY DEF Mem
  <2>2. Allocated(s) = [r EXCEPT !.list = head[s]]
    BY DEF Allocated
  <2> HIDE DEF r
  <2> QED BY <2>1, <2>2
<1>4. /\ m.item = [item EXCEPT ![spare] = new]
      /\ m.spare = item[spare].next /\ m.list = spare
  BY <1>2, <1>3
<1>5. new \in DiagItems /\ new.next = head[s] /\ new.used /\ new.key = k
  BY <1>1 DEF DiagItems, AnyKey
<1> HIDE DEF new
<1>6. /\ m.item \in [Items -> DiagItems] /\ m.item[spare] = new
      /\ \A y \in Items \ {spare} : m.item[y] = item[y]
      /\ item[spare].next \in Links /\ spare \in Links
  BY <1>1, <1>4, <1>5 DEF Linking, Links
<1>7. Linking(m.item)
  BY <1>6, ItemsLink
<1>8. /\ Listed(item, spare) = {spare} \cup Listed(item, item[spare].next)
      /\ spare \notin Listed(item, item[spare].next) /\ Ends(item, item[spare].next)
  BY <1>1, ListedStep, NoCycle, EndsNext
<1>9. spare \notin Listed(item, head[s])
  BY <1>8 DEF Sound
<1>10. Listed(m.item, spare) = {spare} \cup Listed(item, head[s]) /\ Ends(m.item, spare)
  <2>1. \A y \in Listed(item, head[s]) : m.item[y].next = item[y].next
    BY <1>6, <1>9, ListedItems
  <2> QED BY <1>1, <1>5, <1>6, <1>7, <1>9, <2>1, PutBefore
<1>11. /\ Listed(m.item, item[spare].next) = Listed(item, item[spare].next)
       /\ Ends(m.item, item[spare].next)
  <2>1. \A y \in Listed(item, item[spare].next) : m.item[y] = item[y]
    BY <1>6, <1>8, ListedItems
  <2> QED BY <1>1, <1>6, <1>8, <2>1, SameList
<1>12. \A y \in Listed(item, item[spare].next) : ~m.item[y].used
  BY <1>6, <1>8, ListedItems DEF Sound
<1>13. \A y \in Listed(item, head[s]) : m.item[y].used /\ m.item[y].key = item[y].key
  BY <1>6, <1>9, ListedItems DEF Sound
<1>14. \A y \in Listed(item, head[s]) : item[y].key # k
  BY DEF WithKey
<1>15. \A y, z \in {spare} \cup Listed(item, head[s]) : m.item[y].key = m.item[z].key => y = z
  BY <1>5, <1>6, <1>13, <1>14 DEF Sound
<1>16. \A y \in {spare} \cup Listed(item, head[s]) : m.item[y].used
  BY <1>5, <1>6, <1>13
<1>17. \A y \in Items \ (Listed(item, head[s]) \cup Listed(item, spare)) : m.item[y] = item[y]
  BY <1>6, <1>8
<1>18. Listed(item, item[spare].next) \subseteq Listed(item, spare)
  BY <1>8
<1>19. ({spare} \cup Listed(item, head[s])) \cup Listed(item, item[spare].next)
          = Listed(item, head[s]) \cup Listed(item, spare)
  BY <1>8
<1>20. Ends(m.item, m.list) /\ Ends(m.item, m.spare) /\ m.list \in Links /\ m.spare \in Links
  BY <1>4, <1>6, <1>10, <1>11
<1>21. Listed(m.item, m.list) = {spare} \cup Listed(item, head[s])
  BY <1>4, <1>10
<1>22. Listed(m.item, m.spare) = Listed(item, item[spare].next)
  BY <1>4, <1>11
<1> QED BY <1>6, <1>12, <1>15, <1>16, <1>17, <1>18, <1>19, <1>20, <1>21, <1>22 DEF Ready

\* The list of a subslot and the free list become those of m.
LEMMA PlacedInv ==
    ASSUME DiagTypes, KeptInv, NEW s \in Places, NEW m, Ready(m, s), Placed(s, m),
           UNCHANGED <<lost, hand>>,
           \A t \in Agents : /\ ~(hand[t].at = "read" /\ hand[t].s = s)
                             /\ hand[t].at = "freeing" => m.spare = spare
    PROVE  DiagTypes' /\ KeptInv'
<1> DEFINE L(p) == Listed(item, head[p])
           F == Listed(item, spare)
<1>1. /\ item' = m.item /\ spare' = m.spare /\ head' = [head EXCEPT ![s] = m.list]
      /\ flags' = [flags EXCEPT ![s] = Flags(m.item, m.list)]
      /\ lost' = lost /\ hand' = hand
  BY DEF Placed, Keep, Judged
<1>2. DiagTypes'
  BY <1>1, FlagsType DEF DiagTypes, Ready
<1>3. head'[s] = m.list /\ \A p \in Places \ {s} : head'[p] = head[p]
  BY <1>1 DEF DiagTypes
<1>4. ASSUME NEW p \in Places \ {s}
      PROVE  /\ Listed(item', head'[p]) = L(p) /\ Ends(item', head'[p])
             /\ Flags(item', head'[p]) = Flags(item, head[p])
             /\ \A y \in L(p) : item'[y] = item[y]
  <2>1. \A y \in L(p) : y \in Items /\ y \notin L(s) /\ y \notin F
    BY ListedItems DEF KeptInv, Sound
  <2>2. \A y \in L(p) : item'[y] = item[y]
    BY <1>1, <2>1 DEF Ready
  <2>3. /\ item \in [Items -> DiagItems] /\ item' \in [Items -> DiagItems]
        /\ head[p] \in Links /\ Ends(item, head[p])
    BY <1>2 DEF DiagTypes, KeptInv, Sound
  <2> QED BY <1>3, <2>2, <2>3, SameList
<1> DEFINE M == Listed(m.item, m.list)
           G == Listed(m.item, m.spare)
<1>5. /\ Listed(item', head'[s]) = M /\ Listed(item', spare') = G
      /\ Ends(item', head'[s]) /\ Ends(item', spare')
      /\ M \cup G = L(s) \cup F /\ G \subseteq F
      /\ \A y \in G : ~item'[y].used
      /\ \A y \in M : item'[y].used
      /\ \A y, z \in M : item'[y].key = item'[z].key => y = z
  BY <1>1, <1>3 DEF Ready
<1>6. /\ \A p, q \in Places : p # q => L(p) \cap L(q) = {}
      /\ \A y \in F : ~item[y].used /\ y \notin lost
      /\ \A p \in Places : \A y \in L(p) : item[y].used /\ y \notin lost
      /\ \A p \in Places : \A y, z \in L(p) : item[y].key = item[z].key => y = z
  BY DEF KeptInv, Sound
<1> DEFINE N(p) == Listed(item', head'[p])
<1>7. N(s) = M /\ \A p \in Places \ {s} : N(p) = L(p)
  BY <1>4, <1>5
<1>8. Sound'
  <2>1. Ends(item', spare') /\ \A p \in Places : Ends(item', head'[p])
    BY <1>4, <1>5
  <2>2. \A p \in Places \ {s} : M \cap L(p) = {}
    BY <1>5, <1>6
  <2>3. \A p, q \in Places : p # q => N(p) \cap N(q) = {}
    BY <1>6, <1>7, <2>2
  <2>4. \A y \in G : ~item'[y].used /\ y \notin lost'
    BY <1>1, <1>5, <1>6
  <2>5. \A p \in Places : \A y \in N(p) : item'[y].used /\ y \notin lost'
    BY <1>1, <1>4, <1>5, <1>6, <1>7
  <2>6. \A p \in Places : \A y, z \in N(p) : item'[y].key = item'[z].key => y = z
    BY <1>4, <1>5, <1>6, <1>7
  <2> QED BY <1>5, <2>1, <2>3, <2>4, <2>5, <2>6 DEF Sound
<1>9. Somewhere'
  <2> SUFFICES ASSUME NEW y \in Items
               PROVE  \/ y \in lost \/ y \in G
                      \/ \E t \in Agents : hand[t].at # "idle" /\ hand[t].x = y
                      \/ \E p \in Places : y \in N(p)
    BY <1>1, <1>5 DEF Somewhere
  <2>1. CASE y \in F
    BY <1>5, <1>7, <2>1
  <2>2. CASE \E p \in Places : y \in L(p)
    BY <1>5, <1>7, <2>2
  <2> HIDE DEF F, L, N, G
  <2> QED BY <2>1, <2>2 DEF KeptInv, Somewhere, F, L
<1>10. OutOfLists'
  <2> SUFFICES ASSUME NEW t \in Agents, hand[t].at # "idle"
               PROVE  /\ hand[t].x \notin lost \cup G
                      /\ \A p \in Places : hand[t].x \notin N(p)
                      /\ \A u \in Agents : hand[u].at # "idle" /\ hand[u].x = hand[t].x => u = t
                      /\ hand[t].at = "freeing" =>
                            item'[hand[t].x].next = spare' /\ ~item'[hand[t].x].used
    BY <1>1, <1>5 DEF OutOfLists
  <2>1. /\ hand[t].x \notin lost \cup F
        /\ \A p \in Places : hand[t].x \notin L(p)
        /\ \A u \in Agents : hand[u].at # "idle" /\ hand[u].x = hand[t].x => u = t
        /\ hand[t].at = "freeing" => item[hand[t].x].next = spare /\ ~item[hand[t].x].used
    BY DEF KeptInv, OutOfLists
  <2>2. hand[t].x \in Items
    BY HandFacts
  <2>3. item'[hand[t].x] = item[hand[t].x]
    BY <1>1, <2>1, <2>2 DEF Ready
  <2>4. hand[t].x \notin G /\ \A p \in Places : hand[t].x \notin N(p)
    BY <1>5, <1>7, <2>1
  <2> QED BY <1>1, <2>1, <2>3, <2>4
<1>11. Told'
  <2>1. ASSUME NEW t \in Agents, hand[t].at = "read"
        PROVE  hand[t].flags = Flags(item', head'[hand[t].s])
    <3>1. hand[t].s \in Places \ {s}
      BY <2>1, HandFacts
    <3> QED BY <1>4, <2>1, <3>1 DEF KeptInv, Told
  <2>2. ASSUME NEW p \in Places,
               \A t \in Agents : hand[t].at \in {"unlinked", "read"} => hand[t].s # p
        PROVE  flags'[p] = Flags(item', head'[p])
    <3>1. CASE p = s
      BY <1>1, <1>3, <3>1 DEF DiagTypes
    <3>2. CASE p # s
      <4>1. flags[p] = Flags(item, head[p])
        BY <2>2 DEF KeptInv, Told
      <4>2. flags'[p] = flags[p]
        BY <1>1, <3>2 DEF DiagTypes
      <4> QED BY <1>4, <3>2, <4>1, <4>2
    <3> QED BY <3>1, <3>2
  <2> QED BY <1>1, <2>1, <2>2 DEF Told
<1> QED BY <1>2, <1>8, <1>9, <1>10, <1>11 DEF KeptInv

\* What holds of the other thread when there was no clash.
LEMMA NoClash ==
    ASSUME NEW t, NEW s, NEW frees, ~Clash(t, s, frees), NEW u \in Agents, u # t
    PROVE  /\ ~(hand[u].at = "read" /\ hand[u].s = s)
           /\ frees => hand[u].at # "freeing"
BY DEF Clash

LEMMA MainFree ==
    ASSUME MainIdle PROVE Main \in Agents /\ hand[Main].at = "idle"
BY DEF MainIdle, Free, Agents

LEMMA AddDiagInv ==
    ASSUME DiagTypes, KeptInv, NEW s \in Places, NEW k \in Keys, NEW v \in Severities,
           AddDiag(s, k, v), ~clashed'
    PROVE  DiagTypes' /\ KeptInv'
<1>1. v \in AllSeverities
  BY DiagnosisAssumption
<1>2. UNCHANGED <<lost, hand>> /\ MainIdle /\ ~Clash(Main, s, WithKey(s, k) = {})
  BY DEF AddDiag
<1>3. \A t \in Agents : /\ ~(hand[t].at = "read" /\ hand[t].s = s)
                        /\ WithKey(s, k) = {} => hand[t].at # "freeing"
  BY <1>2, NoClash, MainFree
<1>4. CASE WithKey(s, k) # {}
  <2> DEFINE m == Linked(Unlinked(s, Found(s, k)), Found(s, k), k, v)
  <2>1. Placed(s, m)
    BY <1>4 DEF AddDiag
  <2>2. Ready(m, s) /\ m.spare = spare
    BY <1>1, <1>4, RelinkedReady DEF KeptInv
  <2> HIDE DEF m
  <2> QED BY <1>2, <1>3, <2>1, <2>2, PlacedInv
<1>5. CASE WithKey(s, k) = {}
  <2> DEFINE m == Linked(Allocated(s), spare, k, v)
  <2>1. Placed(s, m) /\ spare # Null
    BY <1>5 DEF AddDiag
  <2>2. Ready(m, s)
    BY <1>1, <1>5, <2>1, AllocatedReady DEF KeptInv
  <2> HIDE DEF m
  <2> QED BY <1>2, <1>3, <1>5, <2>1, <2>2, PlacedInv
<1> QED BY <1>4, <1>5

LEMMA UpdateDiagInv ==
    ASSUME DiagTypes, KeptInv, NEW s \in Places, NEW k \in Keys, UpdateDiag(s, k), ~clashed'
    PROVE  DiagTypes' /\ KeptInv'
<1> DEFINE x == Found(s, k)
           m == Linked(Unlinked(s, x), x, k, item[x].sev)
<1>1. UNCHANGED <<lost, hand>> /\ MainIdle /\ ~Clash(Main, s, FALSE) /\ WithKey(s, k) # {}
      /\ Placed(s, m)
  BY DEF UpdateDiag
<1>2. \A t \in Agents : ~(hand[t].at = "read" /\ hand[t].s = s)
  BY <1>1, NoClash, MainFree
<1>3. x \in Items
  BY <1>1, FoundFacts, ListedItems DEF KeptInv
<1>4. item[x].sev \in AllSeverities
  BY <1>3 DEF DiagTypes, DiagItems
<1>5. Ready(m, s) /\ m.spare = spare
  BY <1>1, <1>4, RelinkedReady DEF KeptInv
<1>6. \A t \in Agents : hand[t].at = "freeing" => m.spare = spare
  BY <1>5
<1> HIDE DEF m
<1> QED BY <1>1, <1>2, <1>5, <1>6, PlacedInv

LEMMA RemoveDiagInv ==
    ASSUME DiagTypes, KeptInv, NEW t \in Agents, NEW s \in Places, NEW k \in Keys,
           RemoveDiag(t, s, k), ~clashed'
    PROVE  DiagTypes' /\ KeptInv'
<1> DEFINE x == Found(s, k)
           u == Unlinked(s, x)
           new == [Blank EXCEPT !.used = TRUE]
           mine == [at |-> "unlinked", s |-> s, x |-> x]
           L(p) == Listed(item, head[p])
           F == Listed(item, spare)
           N(p) == Listed(item', head'[p])
<1>1. /\ item' = [u.item EXCEPT ![x] = new]
      /\ head' = [head EXCEPT ![s] = u.list]
      /\ hand' = [hand EXCEPT ![t] = mine]
      /\ hand[t] = Free /\ WithKey(s, k) # {}
      /\ ~Clash(t, s, FALSE)
      /\ UNCHANGED <<spare, flags, lost>>
  BY DEF RemoveDiag
<1>2. x \in L(s) /\ x \in Items
  BY <1>1, FoundFacts, ListedItems DEF KeptInv
<1>3. /\ u.spare = spare /\ u.list \in Links
      /\ u.item \in [Items -> DiagItems]
      /\ Listed(u.item, u.list) = L(s) \ {x}
      /\ Ends(u.item, u.list)
      /\ \A y \in Items : /\ u.item[y].used = item[y].used
                          /\ u.item[y].key = item[y].key
                          /\ u.item[y].sev = item[y].sev
      /\ \A y \in Items \ L(s) : u.item[y] = item[y]
  BY <1>2, UnlinkedFacts DEF KeptInv
<1>4. new \in DiagItems
  BY BlankItem
<1>5. mine \in Removals /\ mine.at = "unlinked" /\ mine.s = s /\ mine.x = x
  BY <1>2 DEF Removals
<1>6. hand[t].at = "idle"
  BY <1>1 DEF Free
<1> HIDE DEF x, u, new, mine
<1>7. DiagTypes'
  BY <1>1, <1>2, <1>3, <1>4, <1>5 DEF DiagTypes
<1>8. /\ head'[s] = u.list /\ \A p \in Places \ {s} : head'[p] = head[p]
      /\ hand'[t] = mine /\ \A v \in Agents \ {t} : hand'[v] = hand[v]
      /\ \A y \in Items \ {x} : item'[y] = u.item[y]
  BY <1>1, <1>2, <1>3 DEF DiagTypes
<1>9. N(s) = L(s) \ {x} /\ Ends(item', head'[s])
  <2>1. \A y \in Listed(u.item, u.list) : item'[y] = u.item[y]
    BY <1>3, <1>8, ListedItems
  <2>2. item' \in [Items -> DiagItems]
    BY <1>7 DEF DiagTypes
  <2> QED BY <1>3, <1>8, <2>1, <2>2, SameList
<1>10. /\ \A p, q \in Places : p # q => L(p) \cap L(q) = {}
       /\ \A y \in F : ~item[y].used /\ y \notin lost
       /\ \A p \in Places : \A y \in L(p) : item[y].used /\ y \notin lost
       /\ \A p \in Places : \A y, z \in L(p) : item[y].key = item[z].key => y = z
       /\ Ends(item, spare) /\ \A p \in Places : Ends(item, head[p])
  BY DEF KeptInv, Sound
<1>11. \A y \in Items \ L(s) : item'[y] = item[y]
  BY <1>2, <1>3, <1>8
<1>12. ASSUME NEW h \in Links, Ends(item, h), \A y \in Listed(item, h) : y \notin L(s)
       PROVE  /\ Listed(item', h) = Listed(item, h) /\ Ends(item', h)
              /\ Flags(item', h) = Flags(item, h)
  <2>1. \A y \in Listed(item, h) : item'[y] = item[y]
    BY <1>11, <1>12, ListedItems
  <2> QED BY <1>7, <1>12, <2>1, SameList DEF DiagTypes
<1>13. ASSUME NEW p \in Places \ {s}
       PROVE  /\ N(p) = L(p) /\ Ends(item', head'[p])
              /\ Flags(item', head'[p]) = Flags(item, head[p])
  <2>1. \A y \in L(p) : y \notin L(s)
    BY <1>10
  <2> QED BY <1>8, <1>10, <1>12, <2>1 DEF DiagTypes
<1>14. Listed(item', spare') = F /\ Ends(item', spare')
  <2>1. \A y \in F : y \notin L(s)
    BY <1>10
  <2> QED BY <1>1, <1>10, <1>12, <2>1 DEF DiagTypes
<1>15. \A p \in Places : N(p) \subseteq L(p) /\ x \notin N(p)
  BY <1>2, <1>9, <1>10, <1>13
<1>16. \A p \in Places : \A y \in N(p) :
          y \in Items /\ item'[y].used = item[y].used /\ item'[y].key = item[y].key
  <2> SUFFICES ASSUME NEW p \in Places, NEW y \in N(p)
               PROVE  /\ y \in Items /\ item'[y].used = item[y].used
                      /\ item'[y].key = item[y].key
    OBVIOUS
  <2>1. y \in Items /\ y # x
    BY <1>15, ListedItems
  <2> QED BY <1>3, <1>8, <2>1
<1>17. Sound'
  <2>1. \A p, q \in Places : p # q => N(p) \cap N(q) = {}
    BY <1>10, <1>15
  <2>2. \A y \in F : ~item'[y].used /\ y \notin lost'
    BY <1>1, <1>10, <1>11, ListedItems
  <2>3. \A p \in Places : \A y \in N(p) : item'[y].used /\ y \notin lost'
    BY <1>1, <1>10, <1>15, <1>16
  <2>4. \A p \in Places : \A y, z \in N(p) : item'[y].key = item'[z].key => y = z
    BY <1>10, <1>15, <1>16
  <2>5. \A p \in Places : Ends(item', head'[p])
    BY <1>9, <1>13
  <2> QED BY <1>14, <2>1, <2>2, <2>3, <2>4, <2>5 DEF Sound
<1>18. Somewhere'
  <2> SUFFICES ASSUME NEW y \in Items
               PROVE  \/ y \in lost \/ y \in F
                      \/ \E v \in Agents : hand'[v].at # "idle" /\ hand'[v].x = y
                      \/ \E p \in Places : y \in N(p)
    BY <1>1, <1>14 DEF Somewhere
  <2>1. CASE y = x
    BY <1>5, <1>8, <2>1
  <2>2. CASE \E v \in Agents : hand[v].at # "idle" /\ hand[v].x = y
    BY <1>6, <1>8, <2>2
  <2>3. CASE y # x /\ \E p \in Places : y \in L(p)
    BY <1>9, <1>13, <2>3
  <2> HIDE DEF F, L, N
  <2> QED BY <2>1, <2>2, <2>3 DEF KeptInv, Somewhere, F, L
<1>19. OutOfLists'
  <2>1. \A v \in Agents : hand[v].at # "idle" =>
           /\ hand[v].x \notin lost \cup F
           /\ \A p \in Places : hand[v].x \notin L(p)
           /\ \A w \in Agents : hand[w].at # "idle" /\ hand[w].x = hand[v].x => w = v
           /\ hand[v].at = "freeing" => item[hand[v].x].next = spare /\ ~item[hand[v].x].used
    BY DEF KeptInv, OutOfLists
  <2>2. \A v \in Agents \ {t} : hand'[v].at # "idle" =>
           hand'[v].x \in Items /\ hand'[v].x # x /\ item'[hand'[v].x] = item[hand'[v].x]
    BY <1>2, <1>8, <1>11, <2>1, HandFacts
  <2>3. x \notin lost \cup F
    BY <1>2, <1>10
  <2> SUFFICES ASSUME NEW v \in Agents, hand'[v].at # "idle"
               PROVE  /\ hand'[v].x \notin lost \cup F
                      /\ \A p \in Places : hand'[v].x \notin N(p)
                      /\ \A w \in Agents : hand'[w].at # "idle" /\ hand'[w].x = hand'[v].x => w = v
                      /\ hand'[v].at = "freeing" =>
                            item'[hand'[v].x].next = spare /\ ~item'[hand'[v].x].used
    BY <1>1, <1>14 DEF OutOfLists
  <2>4. CASE v = t
    BY <1>5, <1>8, <1>15, <2>2, <2>3, <2>4
  <2>5. CASE v # t
    <3>1. hand'[v] = hand[v]
      BY <1>8, <2>5
    <3>2. \A w \in Agents : hand'[w].at # "idle" /\ hand'[w].x = hand'[v].x => w = v
      BY <1>5, <1>8, <2>1, <2>2, <2>5
    <3>3. \A p \in Places : hand'[v].x \notin N(p)
      BY <1>15, <2>1, <3>1
    <3> HIDE DEF F, L, N
    <3> QED BY <2>1, <2>2, <2>5, <3>1, <3>2, <3>3
  <2> QED BY <2>4, <2>5
<1>20. Told'
  <2>1. ASSUME NEW v \in Agents, hand'[v].at = "read"
        PROVE  hand'[v].flags = Flags(item', head'[hand'[v].s])
    <3>1. v # t /\ hand'[v] = hand[v]
      BY <1>5, <1>8, <2>1
    <3>2. hand[v].s \in Places \ {s}
      <4>1. hand[v].at = "read"
        BY <2>1, <3>1
      <4>2. hand[v].s # s
        BY <1>1, <3>1, <4>1, NoClash
      <4> QED BY <4>1, <4>2, HandFacts
    <3> QED BY <1>13, <2>1, <3>1, <3>2 DEF KeptInv, Told
  <2>2. ASSUME NEW p \in Places,
               \A v \in Agents : hand'[v].at \in {"unlinked", "read"} => hand'[v].s # p
        PROVE  flags'[p] = Flags(item', head'[p])
    <3>1. p # s
      BY <1>5, <1>8, <2>2
    <3>2. \A v \in Agents : hand[v].at \in {"unlinked", "read"} => hand[v].s # p
      BY <1>6, <1>8, <2>2
    <3> QED BY <1>1, <1>13, <3>1, <3>2 DEF KeptInv, Told
  <2> QED BY <2>1, <2>2 DEF Told
<1> QED BY <1>7, <1>17, <1>18, <1>19, <1>20 DEF KeptInv

LEMMA ReadFlagsInv ==
    ASSUME DiagTypes, KeptInv, NEW t \in Agents, ReadFlags(t)
    PROVE  DiagTypes' /\ KeptInv'
<1> DEFINE mine == [at |-> "read", s |-> hand[t].s, x |-> hand[t].x,
                    flags |-> Flags(item, head[hand[t].s])]
<1>1. /\ hand[t].at = "unlinked" /\ hand' = [hand EXCEPT ![t] = mine]
      /\ UNCHANGED <<item, spare, head, flags, lost>>
  BY DEF ReadFlags
<1>2. hand[t].x \in Items /\ hand[t].s \in Places
  BY <1>1, HandFacts
<1>3. mine \in Removals
  BY <1>2, FlagsType DEF DiagTypes, Removals
<1>4. mine.at = "read" /\ mine.s = hand[t].s /\ mine.x = hand[t].x
      /\ mine.flags = Flags(item, head[hand[t].s])
  OBVIOUS
<1> HIDE DEF mine
<1>5. DiagTypes'
  BY <1>1, <1>3 DEF DiagTypes
<1>6. hand'[t] = mine /\ \A u \in Agents \ {t} : hand'[u] = hand[u]
  BY <1>1 DEF DiagTypes
<1>7. \A u \in Agents : /\ hand'[u].at # "idle" <=> hand[u].at # "idle"
                        /\ hand[u].at # "idle" => hand'[u].x = hand[u].x
                        /\ hand'[u].at = "freeing" => hand[u].at = "freeing"
                        /\ hand'[u].at \in {"unlinked", "read"}
                              <=> hand[u].at \in {"unlinked", "read"}
                        /\ hand[u].at # "idle" => hand'[u].s = hand[u].s
  BY <1>1, <1>4, <1>6
<1>8. Sound'
  BY <1>1 DEF KeptInv, Sound
<1>9. Somewhere'
  BY <1>1, <1>7 DEF KeptInv, Somewhere
<1>10. OutOfLists'
  BY <1>1, <1>7 DEF KeptInv, OutOfLists
<1>11. Told'
  BY <1>1, <1>4, <1>6, <1>7 DEF KeptInv, Told
<1> QED BY <1>5, <1>8, <1>9, <1>10, <1>11 DEF KeptInv

LEMMA GiveFlagsInv ==
    ASSUME DiagTypes, KeptInv, NEW t \in Agents, GiveFlags(t), ~clashed'
    PROVE  DiagTypes' /\ KeptInv'
<1> DEFINE s == hand[t].s
           x == hand[t].x
           new == [Blank EXCEPT !.next = spare]
           mine == [at |-> "freeing", s |-> s, x |-> x]
           L(p) == Listed(item, head[p])
           F == Listed(item, spare)
<1>1. /\ hand[t].at = "read"
      /\ flags' = [flags EXCEPT ![s] = hand[t].flags]
      /\ item' = [item EXCEPT ![x] = new]
      /\ hand' = [hand EXCEPT ![t] = mine]
      /\ ~Clash(t, s, FALSE)
      /\ UNCHANGED <<spare, head, lost>>
  BY DEF GiveFlags
<1>2. x \in Items /\ s \in Places /\ hand[t].flags \in SUBSET AllSeverities
  BY <1>1, HandFacts
<1>3. new \in DiagItems /\ new.next = spare /\ ~new.used
  BY BlankItem DEF DiagTypes
<1>4. mine \in Removals /\ mine.at = "freeing" /\ mine.s = s /\ mine.x = x
  BY <1>2 DEF Removals
<1>5. /\ x \notin lost \cup F /\ \A p \in Places : x \notin L(p)
      /\ \A u \in Agents : hand[u].at # "idle" /\ hand[u].x = x => u = t
      /\ hand[t].flags = Flags(item, head[s])
  BY <1>1 DEF KeptInv, OutOfLists, Told
<1> HIDE DEF s, x, new, mine
<1>6. DiagTypes'
  BY <1>1, <1>2, <1>3, <1>4 DEF DiagTypes
<1>7. /\ hand'[t] = mine /\ \A u \in Agents \ {t} : hand'[u] = hand[u]
      /\ item'[x] = new /\ \A y \in Items \ {x} : item'[y] = item[y]
  BY <1>1, <1>2 DEF DiagTypes
<1>8. ASSUME NEW h \in Links, Ends(item, h), x \notin Listed(item, h)
      PROVE  /\ Listed(item', h) = Listed(item, h) /\ Ends(item', h)
             /\ Flags(item', h) = Flags(item, h)
             /\ \A y \in Listed(item, h) : item'[y] = item[y]
  <2>1. \A y \in Listed(item, h) : item'[y] = item[y]
    BY <1>7, <1>8, ListedItems
  <2> QED BY <1>6, <1>8, <2>1, SameList DEF DiagTypes
<1>9. \A p \in Places : /\ Listed(item', head'[p]) = L(p) /\ Ends(item', head'[p])
                        /\ Flags(item', head'[p]) = Flags(item, head[p])
                        /\ \A y \in L(p) : item'[y] = item[y]
  BY <1>1, <1>5, <1>8 DEF DiagTypes, KeptInv, Sound
<1>10. /\ Listed(item', spare') = F /\ Ends(item', spare')
       /\ \A y \in F : item'[y] = item[y]
  BY <1>1, <1>5, <1>8 DEF DiagTypes, KeptInv, Sound
<1>11. Sound'
  <2>1. /\ \A p, q \in Places : p # q => L(p) \cap L(q) = {}
        /\ \A y \in F : ~item[y].used /\ y \notin lost
        /\ \A p \in Places : \A y \in L(p) : item[y].used /\ y \notin lost
        /\ \A p \in Places : \A y, z \in L(p) : item[y].key = item[z].key => y = z
    BY DEF KeptInv, Sound
  <2>2. \A y \in F : ~item'[y].used /\ y \notin lost'
    BY <1>1, <1>10, <2>1
  <2>3. \A p \in Places : \A y \in L(p) : item'[y].used /\ y \notin lost'
    BY <1>1, <1>9, <2>1
  <2>4. \A p \in Places : \A y, z \in L(p) : item'[y].key = item'[z].key => y = z
    BY <1>9, <2>1
  <2> HIDE DEF F
  <2> QED BY <1>9, <1>10, <2>1, <2>2, <2>3, <2>4 DEF Sound
<1>12. \A u \in Agents : /\ hand'[u].at # "idle" <=> hand[u].at # "idle"
                         /\ hand[u].at # "idle" => hand'[u].x = hand[u].x
  BY <1>1, <1>4, <1>7 DEF s, x
<1>13. Somewhere'
  BY <1>1, <1>9, <1>10, <1>12 DEF KeptInv, Somewhere
<1>14. OutOfLists'
  <2>1. ASSUME NEW u \in Agents, hand'[u].at # "idle"
        PROVE  /\ hand'[u].x \notin lost \cup F
               /\ \A p \in Places : hand'[u].x \notin L(p)
               /\ \A w \in Agents : hand'[w].at # "idle" /\ hand'[w].x = hand'[u].x => w = u
    BY <1>12, <2>1 DEF KeptInv, OutOfLists
  <2>2. ASSUME NEW u \in Agents, hand'[u].at = "freeing"
        PROVE  item'[hand'[u].x].next = spare /\ ~item'[hand'[u].x].used
    <3>1. CASE u = t
      BY <1>3, <1>4, <1>7, <3>1
    <3>2. CASE u # t
      <4>1. hand[u].at = "freeing" /\ hand'[u] = hand[u]
        BY <1>7, <2>2, <3>2
      <4>2. hand[u].x \in Items \ {x}
        BY <1>5, <3>2, <4>1, HandFacts
      <4> QED BY <1>7, <4>1, <4>2 DEF KeptInv, OutOfLists
    <3> QED BY <3>1, <3>2
  <2> QED BY <1>1, <1>9, <1>10, <2>1, <2>2 DEF OutOfLists
<1>15. Told'
  <2>1. ASSUME NEW u \in Agents, hand'[u].at = "read"
        PROVE  hand'[u].flags = Flags(item', head'[hand'[u].s])
    <3>1. u # t /\ hand'[u] = hand[u]
      BY <1>4, <1>7, <2>1
    <3>2. hand[u].s \in Places
      BY <2>1, <3>1, HandFacts
    <3> QED BY <1>9, <2>1, <3>1, <3>2 DEF KeptInv, Told
  <2>2. ASSUME NEW p \in Places,
               \A u \in Agents : hand'[u].at \in {"unlinked", "read"} => hand'[u].s # p
        PROVE  flags'[p] = Flags(item', head'[p])
    <3>1. CASE p = s
      BY <1>1, <1>2, <1>5, <1>9, <3>1 DEF DiagTypes
    <3>2. CASE p # s
      <4>1. \A u \in Agents : hand[u].at \in {"unlinked", "read"} => hand[u].s # p
        BY <1>7, <2>2, <3>2 DEF s
      <4>2. flags[p] = Flags(item, head[p])
        BY <4>1 DEF KeptInv, Told
      <4>3. flags'[p] = flags[p]
        BY <1>1, <3>2 DEF DiagTypes
      <4> QED BY <1>9, <4>2, <4>3
    <3> QED BY <3>1, <3>2
  <2> QED BY <2>1, <2>2 DEF Told
<1> QED BY <1>6, <1>11, <1>13, <1>14, <1>15 DEF KeptInv

LEMMA FreeItemInv ==
    ASSUME DiagTypes, KeptInv, NEW t \in Agents, FreeItem(t), ~clashed'
    PROVE  DiagTypes' /\ KeptInv'
<1> DEFINE x == hand[t].x
           L(p) == Listed(item, head[p])
           F == Listed(item, spare)
<1>1. /\ hand[t].at = "freeing" /\ spare' = x
      /\ hand' = [hand EXCEPT ![t] = Free]
      /\ ~Clash(t, hand[t].s, TRUE)
      /\ UNCHANGED <<item, head, flags, lost>>
  BY DEF FreeItem
<1>2. x \in Items
  BY <1>1, HandFacts
<1>3. /\ x \notin lost \cup F /\ \A p \in Places : x \notin L(p)
      /\ \A u \in Agents : hand[u].at # "idle" /\ hand[u].x = x => u = t
      /\ item[x].next = spare /\ ~item[x].used
  BY <1>1 DEF KeptInv, OutOfLists
<1> HIDE DEF x
<1>4. Free \in Removals /\ Free.at = "idle"
  BY DEF Free, Removals
<1>5. DiagTypes'
  BY <1>1, <1>2, <1>4 DEF DiagTypes, Links
<1>6. hand'[t] = Free /\ \A u \in Agents \ {t} : hand'[u] = hand[u]
  BY <1>1 DEF DiagTypes
<1>7. Listed(item', spare') = {x} \cup F /\ Ends(item', spare')
  <2>1. Linking(item) /\ spare \in Links /\ Ends(item, spare)
    BY ItemsLink DEF DiagTypes, KeptInv, Sound
  <2> QED BY <1>1, <1>2, <1>3, <2>1, PutBefore
<1>8. \A u \in Agents : hand'[u].at # "idle" => u # t /\ hand'[u] = hand[u]
  BY <1>4, <1>6
<1>9. \A u \in Agents : hand'[u].at # "freeing"
  BY <1>1, <1>4, <1>6, NoClash
<1>10. Sound'
  BY <1>1, <1>3, <1>7 DEF KeptInv, Sound
<1>11. Somewhere'
  <2> SUFFICES ASSUME NEW y \in Items
               PROVE  \/ y \in lost \/ y \in {x} \cup F
                      \/ \E u \in Agents : hand'[u].at # "idle" /\ hand'[u].x = y
                      \/ \E p \in Places : y \in L(p)
    BY <1>1, <1>7 DEF Somewhere
  <2>1. \/ y \in lost \/ y \in F
        \/ \E u \in Agents : hand[u].at # "idle" /\ hand[u].x = y
        \/ \E p \in Places : y \in L(p)
    BY DEF KeptInv, Somewhere
  <2>2. CASE \E u \in Agents \ {t} : hand[u].at # "idle" /\ hand[u].x = y
    BY <1>6, <2>2
  <2>3. hand[t].x = x
    BY DEF x
  <2> QED BY <2>1, <2>2, <2>3
<1>12. OutOfLists'
  <2> SUFFICES ASSUME NEW u \in Agents, hand'[u].at # "idle"
               PROVE  /\ hand'[u].x \notin lost \cup ({x} \cup F)
                      /\ \A p \in Places : hand'[u].x \notin L(p)
                      /\ \A w \in Agents : hand'[w].at # "idle" /\ hand'[w].x = hand'[u].x => w = u
    BY <1>1, <1>7, <1>9 DEF OutOfLists
  <2> QED BY <1>3, <1>8 DEF KeptInv, OutOfLists
<1>13. Told'
  <2>1. \A u \in Agents : hand[u].at \in {"unlinked", "read"} =>
                             hand'[u] = hand[u]
    BY <1>1, <1>6
  <2> QED BY <1>1, <1>8, <2>1 DEF KeptInv, Told
<1> QED BY <1>5, <1>10, <1>11, <1>12, <1>13 DEF KeptInv

LEMMA ReplugInv ==
    ASSUME DiagTypes, KeptInv, NEW s \in Places, Replug(s), ~clashed'
    PROVE  DiagTypes' /\ KeptInv'
<1> DEFINE new == [Blank EXCEPT !.used = TRUE]
           L(p) == Listed(item, head[p])
           F == Listed(item, spare)
           N(p) == Listed(item', head'[p])
<1>1. /\ MainIdle /\ ~Clash(Main, s, FALSE)
      /\ lost' = lost \cup L(s)
      /\ item' = [x \in Items |-> IF x \in L(s) THEN new ELSE item[x]]
      /\ head' = [head EXCEPT ![s] = Null]
      /\ flags' = [flags EXCEPT ![s] = {}]
      /\ UNCHANGED <<spare, hand>>
  BY DEF Replug
<1>2. new \in DiagItems
  BY BlankItem
<1> HIDE DEF new
<1>3. DiagTypes'
  BY <1>1, <1>2, ListedItems DEF DiagTypes, Links
<1>4. \A t \in Agents : ~(hand[t].at = "read" /\ hand[t].s = s)
  BY <1>1, NoClash, MainFree
<1>5. head'[s] = Null /\ \A p \in Places \ {s} : head'[p] = head[p]
  BY <1>1 DEF DiagTypes
<1>6. N(s) = {} /\ Ends(item', head'[s]) /\ Flags(item', head'[s]) = {}
  BY <1>5, ListedNull DEF Ends, Flags
<1>7. ASSUME NEW h \in Links, Ends(item, h), \A y \in Listed(item, h) : y \notin L(s)
      PROVE  /\ Listed(item', h) = Listed(item, h) /\ Ends(item', h)
             /\ Flags(item', h) = Flags(item, h)
             /\ \A y \in Listed(item, h) : item'[y] = item[y]
  <2>1. \A y \in Listed(item, h) : item'[y] = item[y]
    BY <1>1, <1>7, ListedItems
  <2> QED BY <1>3, <1>7, <2>1, SameList DEF DiagTypes
<1>8. /\ \A p, q \in Places : p # q => L(p) \cap L(q) = {}
      /\ \A y \in F : ~item[y].used /\ y \notin lost
      /\ \A p \in Places : \A y \in L(p) : item[y].used /\ y \notin lost
      /\ \A p \in Places : \A y, z \in L(p) : item[y].key = item[z].key => y = z
      /\ Ends(item, spare) /\ \A p \in Places : Ends(item, head[p])
  BY DEF KeptInv, Sound
<1>9. ASSUME NEW p \in Places \ {s}
      PROVE  /\ N(p) = L(p) /\ Ends(item', head'[p])
             /\ Flags(item', head'[p]) = Flags(item, head[p])
             /\ \A y \in L(p) : item'[y] = item[y]
  <2>1. \A y \in L(p) : y \notin L(s)
    BY <1>8
  <2> QED BY <1>5, <1>7, <1>8, <2>1 DEF DiagTypes
<1>10. Listed(item', spare') = F /\ Ends(item', spare') /\ \A y \in F : item'[y] = item[y]
  <2>1. \A y \in F : y \notin L(s)
    BY <1>8
  <2> QED BY <1>1, <1>7, <1>8, <2>1 DEF DiagTypes
<1>11. Sound'
  <2>1. \A p, q \in Places : p # q => N(p) \cap N(q) = {}
    BY <1>6, <1>8, <1>9
  <2>2. \A y \in F : ~item'[y].used /\ y \notin lost'
    BY <1>1, <1>8, <1>10
  <2>3. \A p \in Places : \A y \in N(p) : item'[y].used /\ y \notin lost'
    BY <1>1, <1>6, <1>8, <1>9
  <2>4. \A p \in Places : \A y, z \in N(p) : item'[y].key = item'[z].key => y = z
    BY <1>6, <1>8, <1>9
  <2>5. \A p \in Places : Ends(item', head'[p])
    BY <1>6, <1>9
  <2> QED BY <1>10, <2>1, <2>2, <2>3, <2>4, <2>5 DEF Sound
<1>12. Somewhere'
  <2> SUFFICES ASSUME NEW y \in Items
               PROVE  \/ y \in lost' \/ y \in F
                      \/ \E t \in Agents : hand[t].at # "idle" /\ hand[t].x = y
                      \/ \E p \in Places : y \in N(p)
    BY <1>1, <1>10 DEF Somewhere
  <2>1. CASE \E p \in Places : y \in L(p)
    BY <1>1, <1>9, <2>1
  <2> HIDE DEF F, L, N
  <2> QED BY <1>1, <2>1 DEF KeptInv, Somewhere, F, L
<1>13. OutOfLists'
  <2> SUFFICES ASSUME NEW t \in Agents, hand[t].at # "idle"
               PROVE  /\ hand[t].x \notin lost' \cup F
                      /\ \A p \in Places : hand[t].x \notin N(p)
                      /\ \A u \in Agents : hand[u].at # "idle" /\ hand[u].x = hand[t].x => u = t
                      /\ hand[t].at = "freeing" =>
                            item'[hand[t].x].next = spare /\ ~item'[hand[t].x].used
    BY <1>1, <1>10 DEF OutOfLists
  <2>1. /\ hand[t].x \notin lost \cup F
        /\ \A p \in Places : hand[t].x \notin L(p)
        /\ \A u \in Agents : hand[u].at # "idle" /\ hand[u].x = hand[t].x => u = t
        /\ hand[t].at = "freeing" => item[hand[t].x].next = spare /\ ~item[hand[t].x].used
    BY DEF KeptInv, OutOfLists
  <2>2. hand[t].x \in Items
    BY HandFacts
  <2>3. item'[hand[t].x] = item[hand[t].x]
    BY <1>1, <2>1, <2>2
  <2>4. hand[t].x \notin lost' \cup F /\ \A p \in Places : hand[t].x \notin N(p)
    BY <1>1, <1>6, <1>9, <2>1
  <2> QED BY <2>1, <2>3, <2>4
<1>14. Told'
  <2>1. ASSUME NEW t \in Agents, hand[t].at = "read"
        PROVE  hand[t].flags = Flags(item', head'[hand[t].s])
    <3>1. hand[t].s \in Places \ {s}
      BY <1>4, <2>1, HandFacts
    <3> QED BY <1>9, <2>1, <3>1 DEF KeptInv, Told
  <2>2. ASSUME NEW p \in Places,
               \A t \in Agents : hand[t].at \in {"unlinked", "read"} => hand[t].s # p
        PROVE  flags'[p] = Flags(item', head'[p])
    <3>1. CASE p = s
      BY <1>1, <1>6, <3>1 DEF DiagTypes
    <3>2. CASE p # s
      <4>1. flags[p] = Flags(item, head[p])
        BY <2>2 DEF KeptInv, Told
      <4>2. flags'[p] = flags[p]
        BY <1>1, <3>2 DEF DiagTypes
      <4> QED BY <1>9, <3>2, <4>1, <4>2
    <3> QED BY <3>1, <3>2
  <2> QED BY <1>1, <2>1, <2>2 DEF Told
<1> QED BY <1>3, <1>11, <1>12, <1>13, <1>14 DEF KeptInv

LEMMA DiagInit ==
    ASSUME DiagnosisInit PROVE DiagInv
<1> DEFINE S == Listed(item, 1)
<1>1. /\ item = [x \in Items |-> [Blank EXCEPT !.next = IF x < NItems THEN x + 1 ELSE Null]]
      /\ spare = 1 /\ head = [s \in Places |-> Null] /\ flags = [s \in Places |-> {}]
      /\ lost = {} /\ hand = [t \in Agents |-> Free]
  BY DEF DiagnosisInit
<1>2. \A x \in Items : (IF x < NItems THEN x + 1 ELSE Null) \in Links
  BY DiagnosisAssumption DEF Items, Links
<1>3. item \in [Items -> DiagItems]
  BY <1>1, <1>2, BlankItem
<1>4. \A x \in Items : ~item[x].used /\ item[x].next = IF x < NItems THEN x + 1 ELSE Null
  BY <1>1, <1>2, BlankItem
<1>5. 1 \in Items /\ NItems \in Items
  BY DiagnosisAssumption DEF Items
<1>6. Free \in Removals /\ Free.at = "idle"
  BY DEF Free, Removals
<1>7. DiagTypes
  BY <1>1, <1>3, <1>5, <1>6 DEF DiagTypes, Links
<1>8. S = Items
  <2> DEFINE T == {n \in Nat : n + 1 \in Items => n + 1 \in S}
  <2>1. 0 \in T
    BY <1>5, ListedFirst
  <2>2. ASSUME NEW n \in Nat, n \in T PROVE n + 1 \in T
    <3> SUFFICES ASSUME n + 1 + 1 \in Items PROVE n + 1 + 1 \in S
      OBVIOUS
    <3>1. n + 1 \in Items /\ n + 1 < NItems /\ n + 1 + 1 # Null
      BY DiagnosisAssumption DEF Items, Null
    <3>2. n + 1 \in S
      BY <2>2, <3>1
    <3>3. item[n + 1].next = n + 1 + 1
      BY <1>4, <3>1
    <3>4. ClosedFor(item, S)
      BY <1>3, ItemsLink, ListedClosed
    <3> QED BY <3>1, <3>2, <3>3, <3>4 DEF ClosedFor
  <2> HIDE DEF T
  <2>3. Nat \subseteq T
    BY <2>1, <2>2, UpFromZero
  <2>4. ASSUME NEW x \in Items PROVE x \in S
    <3>1. x - 1 \in Nat /\ (x - 1) + 1 = x
      BY DiagnosisAssumption DEF Items
    <3>2. x - 1 \in T
      BY <2>3, <3>1
    <3> QED BY <3>1, <3>2 DEF T
  <2> QED BY <2>4, ListedItems
<1>9. Ends(item, 1)
  <2>1. item[NItems].next = Null
    BY <1>4, <1>5, DiagnosisAssumption
  <2> QED BY <1>5, <1>8, <2>1 DEF Ends
<1> HIDE DEF S
<1>10. \A s \in Places : /\ Listed(item, head[s]) = {} /\ Ends(item, head[s])
                         /\ Flags(item, head[s]) = {}
  BY <1>1, ListedNull DEF Ends, Flags
<1>11. \A t \in Agents : hand[t].at = "idle"
  BY <1>1, <1>6
<1>12. Sound
  BY <1>1, <1>4, <1>9, <1>10, ListedItems DEF Sound
<1>13. Somewhere
  BY <1>1, <1>8 DEF Somewhere, S
<1>14. OutOfLists /\ Told
  BY <1>1, <1>10, <1>11 DEF OutOfLists, Told
<1> QED BY <1>7, <1>12, <1>13, <1>14 DEF DiagInv, KeptInv

\* Steps that leave the lists, the flags and the removals alone.
LEMMA AroundInv ==
    ASSUME DiagTypes, KeptInv, UNCHANGED <<item, spare, head, flags, lost, hand>>
    PROVE  DiagTypes' /\ KeptInv'
BY DEF DiagTypes, KeptInv, Sound, Somewhere, OutOfLists, Told

LEMMA DiagStep ==
    ASSUME DiagTypes, KeptInv, DiagnosisNext, ~clashed' PROVE DiagTypes' /\ KeptInv'
<1>1. CASE \E s \in Places, k \in Keys, v \in Severities : AddDiag(s, k, v)
  BY <1>1, AddDiagInv
<1>2. CASE \E s \in Places, k \in Keys : UpdateDiag(s, k)
  BY <1>2, UpdateDiagInv
<1>3. CASE \E t \in Agents, s \in Places, k \in Keys : RemoveDiag(t, s, k)
  BY <1>3, RemoveDiagInv
<1>4. CASE \E t \in Agents : ReadFlags(t)
  BY <1>4, ReadFlagsInv
<1>5. CASE \E t \in Agents : GiveFlags(t)
  BY <1>5, GiveFlagsInv
<1>6. CASE \E t \in Agents : FreeItem(t)
  BY <1>6, FreeItemInv
<1>7. CASE \E s \in Places : Replug(s)
  BY <1>7, ReplugInv
<1>8. CASE (\E s \in Places : Unplug(s)) \/ Online \/ Offline
  <2>1. UNCHANGED <<item, spare, head, flags, lost, hand>>
    BY <1>8 DEF Unplug, Online, Offline
  <2> QED BY <2>1, AroundInv
<1>9. Main \in Agents /\ Ethernet \in Agents /\ Ports \subseteq Places
  BY DiagnosisAssumption DEF Agents
<1> QED BY <1>1, <1>2, <1>3, <1>4, <1>5, <1>6, <1>7, <1>8, <1>9 DEF DiagnosisNext

LEMMA DiagNext ==
    ASSUME DiagInv, [DiagnosisNext]_dvars PROVE DiagInv'
<1> SUFFICES ASSUME ~clashed' PROVE DiagTypes' /\ KeptInv'
  BY DEF DiagInv
<1>1. CASE UNCHANGED dvars
  <2>1. UNCHANGED <<item, spare, head, flags, lost, hand, clashed>>
    BY <1>1 DEF dvars
  <2> QED BY <2>1, AroundInv DEF DiagInv
<1>2. CASE DiagnosisNext
  <2>1. DiagTypes /\ KeptInv
    BY <1>2 DEF DiagInv, DiagnosisNext
  <2> QED BY <1>2, <2>1, DiagStep
<1> QED BY <1>1, <1>2

LEMMA InvKept ==
    ASSUME DiagInv PROVE ItemsKept
<1> SUFFICES ASSUME ~clashed PROVE
        /\ \A x \in Lists : Ends(item, x)
        /\ \A x, y \in Lists : x # y => Listed(item, x) \cap Listed(item, y) = {}
        /\ \A s, t \in Places : s # t /\ head[s] = head[t] => head[s] = Null
        /\ Items = lost \cup InHand \cup UNION {Listed(item, x) : x \in Lists}
        /\ \A x \in Listed(item, spare) : ~item[x].used
        /\ \A s \in Places : \A x \in Listed(item, head[s]) :
              item[x].used /\ x \notin lost \cup InHand
  BY DEF ItemsKept
<1>1. DiagTypes /\ Sound /\ Somewhere /\ OutOfLists
  BY DEF DiagInv, KeptInv
<1>2. \A t \in Agents : hand[t] # Free <=> hand[t].at # "idle"
  BY <1>1, HandFacts
<1>3. \A x : x \in InHand <=> \E t \in Agents : hand[t].at # "idle" /\ hand[t].x = x
  BY <1>2 DEF InHand
<1>4. \A x : x \in Lists <=> x = spare \/ \E s \in Places : x = head[s]
  BY DEF Lists
<1>5. \A x \in Lists : Ends(item, x)
  BY <1>1, <1>4 DEF Sound
<1>6. ASSUME NEW x \in Lists, NEW y \in Lists, x # y
      PROVE  Listed(item, x) \cap Listed(item, y) = {}
  <2>1. \A s \in Places : Listed(item, spare) \cap Listed(item, head[s]) = {}
    BY <1>1 DEF Sound
  <2> QED BY <1>1, <1>4, <1>6, <2>1 DEF Sound
<1>7. ASSUME NEW s \in Places, NEW t \in Places, s # t, head[s] = head[t], head[s] # Null
      PROVE  FALSE
  <2>1. head[s] \in Items
    BY <1>1, <1>7 DEF DiagTypes, Links
  <2>2. head[s] \in Listed(item, head[s])
    BY <2>1, ListedFirst
  <2> QED BY <1>1, <1>7, <2>2 DEF Sound
<1>8. Items = lost \cup InHand \cup UNION {Listed(item, x) : x \in Lists}
  <2>1. \A x \in InHand : x \in Items
    BY <1>1, <1>3, HandFacts
  <2>2. \A x \in Lists : Listed(item, x) \subseteq Items
    BY ListedItems
  <2>3. ASSUME NEW x \in Items
        PROVE  x \in lost \cup InHand \cup UNION {Listed(item, y) : y \in Lists}
    <3>1. spare \in Lists /\ \A s \in Places : head[s] \in Lists
      BY <1>4
    <3> QED BY <1>1, <1>3, <3>1 DEF Somewhere
  <2>4. lost \subseteq Items
    BY <1>1 DEF DiagTypes
  <2> QED BY <2>1, <2>2, <2>3, <2>4
<1>9. \A s \in Places : \A x \in Listed(item, head[s]) : item[x].used /\ x \notin lost \cup InHand
  BY <1>1, <1>3 DEF Sound, OutOfLists
<1>10. \A x \in Listed(item, spare) : ~item[x].used
  BY <1>1 DEF Sound
<1> QED BY <1>5, <1>6, <1>7, <1>8, <1>9, <1>10

LEMMA InvTells ==
    ASSUME DiagInv PROVE FlagsTrue
<1> SUFFICES ASSUME NEW s \in Places, ~clashed PROVE
        /\ (\A t \in Agents : hand[t].at \in {"idle", "freeing"}) =>
              \A f \in {"fault", "demanded", "required"} :
                 f \in flags[s] <=> \E x \in Listed(item, head[s]) :
                                       item[x].sev = f \/ (f = "fault" /\ item[x].sev = "qualified")
        /\ \A x, y \in Listed(item, head[s]) : item[x].key = item[y].key => x = y
  BY DEF FlagsTrue
<1>1. DiagTypes /\ Sound /\ Told
  BY DEF DiagInv, KeptInv
<1>2. ASSUME \A t \in Agents : hand[t].at \in {"idle", "freeing"},
             NEW f \in {"fault", "demanded", "required"}
      PROVE  f \in flags[s] <=> \E x \in Listed(item, head[s]) :
                                   item[x].sev = f \/ (f = "fault" /\ item[x].sev = "qualified")
  <2>1. flags[s] = Flags(item, head[s])
    BY <1>1, <1>2 DEF Told
  <2>2. \A x \in Listed(item, head[s]) : item[x].used
    BY <1>1 DEF Sound
  <2>3. f \in flags[s] <=> \E x \in Listed(item, head[s]) : f = Flag(item[x].sev)
    BY <2>1, <2>2 DEF Flags
  <2>4. \A v : f = Flag(v) <=> v = f \/ (f = "fault" /\ v = "qualified")
    BY DEF Flag
  <2> QED BY <2>3, <2>4
<1> QED BY <1>1, <1>2 DEF Sound

\* What pf_diag.c keeps: there is no item that is in two lists or in none,
\* and every list ends, through any interleaving of adding, updating and the
\* steps of removing, plugging and pulling; for any number of items, any
\* subslots and any diagnoses, until the threads clash.
THEOREM ListsKept == DiagnosisSpec => []ItemsKept
<1>1. DiagnosisInit => DiagInv
  BY DiagInit
<1>2. DiagInv /\ [DiagnosisNext]_dvars => DiagInv'
  BY DiagNext
<1>3. DiagInv => ItemsKept
  BY InvKept
<1> QED BY <1>1, <1>2, <1>3, PTL DEF DiagnosisSpec

\* What a plugged submodule shows of its diagnoses (the flags that
\* pf_diag_update_submodule_state gives) is what its list holds, and the list
\* holds no diagnosis twice; for any items, subslots and diagnoses, unless a
\* removal is under way or the threads clashed.
THEOREM FlagsTell == DiagnosisSpec => []FlagsTrue
<1>1. DiagnosisInit => DiagInv
  BY DiagInit
<1>2. DiagInv /\ [DiagnosisNext]_dvars => DiagInv'
  BY DiagNext
<1>3. DiagInv => FlagsTrue
  BY InvTells
<1> QED BY <1>1, <1>2, <1>3, PTL DEF DiagnosisSpec

(***************************************************************************)
(* Peers.                                                                  *)
(***************************************************************************)
CheckNames == {"no peer", "port", "station"}
LastTwo == <<"port", "station">>
LastOne == <<"station">>
Todos == {Checks, LastTwo, LastOne, <<>>}

\* The checks that are not done.
LeftOf(t) == IF t = Checks THEN CheckNames
             ELSE IF t = LastTwo THEN {"port", "station"}
             ELSE IF t = LastOne THEN {"station"} ELSE {}
Left == LeftOf(main.todo)

PeersTypeOK ==
    /\ check \in Wanted \cup {NoCheck} /\ file \in Wanted \cup {NoCheck}
    /\ updated \in BOOLEAN /\ crossed \in BOOLEAN
    /\ info \in Infos \cup {NoInfo}
    /\ rx \in [known : {"none", "boot", "live", "stale"}, strays : Nat]
    /\ \/ eth \in [at : {"idle", "stored", "reset"}]
       \/ eth \in [at : {"frame"}, info : Infos]
    /\ main \in [at : {"idle", "fired", "lost", "tell", "check", "look", "judge", "reset"},
                 todo : Todos, saw : Infos \cup {NoInfo}]
    /\ main.at \in {"look", "judge"} <=> main.todo # <<>>

\* The result c of a check is what it should be.
Right(c) ==
    CASE c = "no peer" -> (c \in diag <=> ~Received)
      [] c = "port" -> (Received => (c \in diag <=> ~RightPort(info, check)))
      [] OTHER -> (Received /\ info.station # Nameless
                     => (c \in diag <=> ~RightStation(info, check)))

\* Something will start a check: a frame that changes what is known of the
\* peer, the flag, the timer, a lost link, or the main thread that is about to.
Due ==
    \/ updated \/ rx.known = "boot"
    \/ eth.at = "stored" \/ (eth.at = "frame" /\ eth.info # info)
    \/ main.at \in {"fired", "lost", "tell", "check"}

\* While the timer of the restart is the known one, no frame has come.
Fresh == rx.known = "boot" => info = NoInfo /\ eth.at # "frame"

NothingChecked ==
    /\ eth.at = "reset" \/ main.at = "reset" => check = NoCheck
    /\ check = NoCheck => /\ main.todo = <<>>
                          /\ diag = {} \/ main.at = "reset" \/ eth.at = "reset"

\* Unless a check will be started anew, what was checked holds for the peer as
\* it is known now, and what is being checked is that.
PeerJudged ==
    check # NoCheck /\ ~Due =>
        /\ \A c \in CheckNames \ Left : Right(c)
        /\ main.at = "judge" => main.saw = info

PeersInv == PeersTypeOK /\ Fresh /\ (~crossed => NothingChecked /\ PeerJudged)
-----------------------------------------------------------------------------
\* The checks are taken one after the other.
LEMMA TodoFacts ==
    /\ Len(Checks) = 3 /\ Len(LastTwo) = 2 /\ Len(LastOne) = 1 /\ Len(<<>>) = 0
    /\ Head(Checks) = "no peer" /\ Head(LastTwo) = "port" /\ Head(LastOne) = "station"
    /\ Tail(Checks) = LastTwo /\ Tail(LastTwo) = LastOne /\ Tail(LastOne) = <<>>
    /\ Checks # LastTwo /\ Checks # LastOne /\ LastTwo # LastOne
    /\ <<>> \notin {Checks, LastTwo, LastOne}
    /\ Len(Checks) # 1 /\ Len(LastTwo) # 1
<1>1. Len(Checks) = 3 /\ Len(LastTwo) = 2 /\ Len(LastOne) = 1 /\ Len(<<>>) = 0
  BY DEF Checks, LastTwo, LastOne
<1>2. Head(Checks) = "no peer" /\ Head(LastTwo) = "port" /\ Head(LastOne) = "station"
  BY DEF Checks, LastTwo, LastOne
<1>3. Tail(Checks) = LastTwo
  BY DEF Checks, LastTwo
<1>4. Tail(LastTwo) = LastOne
  BY DEF LastTwo, LastOne
<1>5. Tail(LastOne) = <<>>
  BY DEF LastOne
<1>6. Checks # LastTwo /\ Checks # LastOne /\ LastTwo # LastOne
  BY <1>1
<1>7. \A t \in {Checks, LastTwo, LastOne} : t # <<>>
  BY <1>1
<1>8. Len(Checks) # 1 /\ Len(LastTwo) # 1
  BY DEF Checks, LastTwo
<1> QED BY <1>1, <1>2, <1>3, <1>4, <1>5, <1>6, <1>7, <1>8

\* Each is left until it is done.
LEMMA LeftFacts ==
    /\ LeftOf(<<>>) = {} /\ LeftOf(Checks) = CheckNames
    /\ \A t \in Todos \ {<<>>} : /\ Head(t) \in CheckNames /\ Tail(t) \in Todos
                                 /\ Len(t) = 1 <=> Tail(t) = <<>>
                                 /\ LeftOf(Tail(t)) = LeftOf(t) \ {Head(t)}
                                 /\ Head(t) \in LeftOf(t)
<1>1. LeftOf(<<>>) = {} /\ LeftOf(Checks) = CheckNames
  BY TodoFacts DEF LeftOf
<1>2. LeftOf(LastOne) = {"station"} /\ LeftOf(LastTwo) = {"port", "station"}
  BY TodoFacts DEF LeftOf
<1>3. CheckNames = {"no peer", "port", "station"}
  BY DEF CheckNames
<1>4. ASSUME NEW t \in Todos \ {<<>>}
      PROVE  /\ Head(t) \in CheckNames /\ Tail(t) \in Todos
             /\ Len(t) = 1 <=> Tail(t) = <<>>
             /\ LeftOf(Tail(t)) = LeftOf(t) \ {Head(t)}
             /\ Head(t) \in LeftOf(t)
  <2>1. CASE t = Checks
    <3>1. Head(t) = "no peer" /\ Tail(t) = LastTwo /\ Len(t) # 1
      BY <2>1, TodoFacts
    <3>2. Len(t) # 1 /\ Tail(t) # <<>>
      BY <3>1, TodoFacts
    <3>3. {"port", "station"} = {"no peer", "port", "station"} \ {"no peer"}
      OBVIOUS
    <3>4. LeftOf(Tail(t)) = LeftOf(t) \ {Head(t)}
      BY <1>1, <1>2, <1>3, <2>1, <3>1, <3>3
    <3>5. Head(t) \in CheckNames /\ Head(t) \in LeftOf(t)
      BY <1>1, <1>3, <2>1, <3>1
    <3>6. Tail(t) \in Todos
      BY <3>1 DEF Todos
    <3> QED BY <3>2, <3>4, <3>5, <3>6
  <2>2. CASE t = LastTwo
    <3>1. Head(t) = "port" /\ Tail(t) = LastOne /\ LastOne # <<>> /\ Len(t) # 1
      BY <2>2, TodoFacts
    <3>2. {"station"} = {"port", "station"} \ {"port"}
      OBVIOUS
    <3>3. LeftOf(Tail(t)) = LeftOf(t) \ {Head(t)}
      BY <1>2, <2>2, <3>1, <3>2
    <3>4. Head(t) \in CheckNames /\ Head(t) \in LeftOf(t)
      BY <1>2, <1>3, <2>2, <3>1
    <3>5. Tail(t) \in Todos
      BY <3>1 DEF Todos
    <3>6. Len(t) # 1 /\ Tail(t) # <<>>
      BY <3>1
    <3> QED BY <3>3, <3>4, <3>5, <3>6
  <2>3. CASE t = LastOne
    <3>1. Head(t) = "station" /\ Tail(t) = <<>> /\ Len(t) = 1
      BY <2>3, TodoFacts
    <3>2. {} = {"station"} \ {"station"}
      OBVIOUS
    <3>3. LeftOf(Tail(t)) = LeftOf(t) \ {Head(t)}
      BY <1>1, <1>2, <2>3, <3>1, <3>2
    <3>4. Head(t) \in CheckNames /\ Head(t) \in LeftOf(t)
      BY <1>2, <1>3, <2>3, <3>1
    <3>5. Tail(t) \in Todos
      BY <3>1 DEF Todos
    <3> QED BY <3>1, <3>3, <3>4, <3>5
  <2> QED BY <2>1, <2>2, <2>3 DEF Todos
<1> QED BY <1>1, <1>4

\* A frame tells something of the peer.
LEMMA InfosTell == \A i \in Infos : i # NoInfo
<1>1. NoInfo.port = Nameless
  BY DEF NoInfo
<1> QED BY <1>1, PeersAssumption


\* A check that looks at what is known of the peer gives the right result, and
\* leaves the others alone.
LEMMA VerdictRight ==
    ASSUME PeersInv, check # NoCheck, NEW c \in CheckNames, diag' = Verdict(c, info, check),
           UNCHANGED <<info, check>>
    PROVE  /\ Right(c)'
           /\ \A d \in CheckNames \ {c} : Right(d) => Right(d)'
<1>1. info # NoInfo => info \in Infos /\ info.port # Nameless
  BY PeersAssumption DEF PeersInv, PeersTypeOK
<1>2. NoInfo.station = Nameless /\ NoInfo.port = Nameless
  BY DEF NoInfo
<1>3. CASE c = "no peer"
  BY <1>1, <1>3 DEF Verdict, Right, Received, CheckNames
<1>4. CASE c = "port"
  BY <1>1, <1>2, <1>4 DEF Verdict, Right, Received, CheckNames
<1>5. CASE c = "station"
  BY <1>1, <1>2, <1>5 DEF Verdict, Right, Received, CheckNames
<1> QED BY <1>3, <1>4, <1>5 DEF CheckNames

\* What is left alone stays right.
LEMMA SameRight ==
    ASSUME UNCHANGED <<check, info, diag>>, NEW c \in CheckNames
    PROVE  Right(c)' <=> Right(c)
BY DEF Right, Received

LEMMA SameLeft == UNCHANGED main.todo => Left' = Left
BY DEF Left


LEMMA PowerCycleInv == ASSUME PeersInv, PowerCycle PROVE PeersInv'
<1> USE DEF PowerCycle, BootTimer, AtRest, MainAtRest
<1>1. PeersTypeOK'
  BY TodoFacts DEF PeersInv, PeersTypeOK, Todos
<1>2. Fresh'
  BY DEF PeersInv, PeersTypeOK, Fresh
<1>3. ~crossed' => NothingChecked'
  BY PeersAssumption DEF PeersInv, PeersTypeOK, NothingChecked
<1>4. ~crossed' => PeerJudged'
  BY SameRight, SameLeft DEF PeersInv, PeersTypeOK, Fresh, NothingChecked, PeerJudged, Due
<1> QED BY <1>1, <1>2, <1>3, <1>4 DEF PeersInv

LEMMA SaveInv == ASSUME PeersInv, Save PROVE PeersInv'
<1> USE DEF Save
<1>1. PeersTypeOK'
  BY DEF PeersInv, PeersTypeOK
<1>2. Fresh'
  BY DEF PeersInv, PeersTypeOK, Fresh
<1>3. ~crossed' => NothingChecked'
  BY PeersAssumption DEF PeersInv, PeersTypeOK, NothingChecked
<1>4. ~crossed' => PeerJudged'
  BY SameRight, SameLeft DEF PeersInv, PeersTypeOK, Fresh, NothingChecked, PeerJudged, Due
<1> QED BY <1>1, <1>2, <1>3, <1>4 DEF PeersInv

LEMMA FrameInv == ASSUME PeersInv, NEW i \in Infos, Frame(i) PROVE PeersInv'
<1> USE DEF Frame, Restarted
<1>1. PeersTypeOK'
  BY DEF PeersInv, PeersTypeOK
<1>2. Fresh'
  BY DEF PeersInv, PeersTypeOK, Fresh
<1>3. ~crossed' => NothingChecked'
  BY PeersAssumption DEF PeersInv, PeersTypeOK, NothingChecked
<1>4. ~crossed' => PeerJudged'
  BY InfosTell, SameRight, SameLeft DEF PeersInv, PeersTypeOK, Fresh, NothingChecked, PeerJudged, Due
<1> QED BY <1>1, <1>2, <1>3, <1>4 DEF PeersInv

LEMMA StoreInv == ASSUME PeersInv, Store PROVE PeersInv'
<1> USE DEF Store, AtRest
<1>1. PeersTypeOK'
  BY DEF PeersInv, PeersTypeOK
<1>2. Fresh'
  BY DEF PeersInv, PeersTypeOK, Fresh
<1>3. ~crossed' => NothingChecked'
  BY PeersAssumption DEF PeersInv, PeersTypeOK, NothingChecked
<1>4. ~crossed' => PeerJudged'
  BY SameRight, SameLeft DEF PeersInv, PeersTypeOK, Fresh, NothingChecked, PeerJudged, Due
<1> QED BY <1>1, <1>2, <1>3, <1>4 DEF PeersInv

LEMMA IndicateInv == ASSUME PeersInv, Indicate PROVE PeersInv'
<1> USE DEF Indicate, AtRest
<1>1. PeersTypeOK'
  BY DEF PeersInv, PeersTypeOK
<1>2. Fresh'
  BY DEF PeersInv, PeersTypeOK, Fresh
<1>3. ~crossed' => NothingChecked'
  BY PeersAssumption DEF PeersInv, PeersTypeOK, NothingChecked
<1>4. ~crossed' => PeerJudged'
  BY SameRight, SameLeft DEF PeersInv, PeersTypeOK, Fresh, NothingChecked, PeerJudged, Due
<1> QED BY <1>1, <1>2, <1>3, <1>4 DEF PeersInv

LEMMA DcpResetInv == ASSUME PeersInv, DcpReset PROVE PeersInv'
<1> USE DEF DcpReset, Met
<1>1. PeersTypeOK'
  BY DEF PeersInv, PeersTypeOK
<1>2. Fresh'
  BY DEF PeersInv, PeersTypeOK, Fresh
<1>3. ~crossed' => NothingChecked'
  BY PeersAssumption DEF PeersInv, PeersTypeOK, NothingChecked
<1>4. ~crossed' => PeerJudged'
  BY SameRight, SameLeft DEF PeersInv, PeersTypeOK, Fresh, NothingChecked, PeerJudged, Due
<1> QED BY <1>1, <1>2, <1>3, <1>4 DEF PeersInv

LEMMA DcpRemoveDiagInv == ASSUME PeersInv, DcpRemoveDiag PROVE PeersInv'
<1> USE DEF DcpRemoveDiag, Met, AtRest
<1>1. PeersTypeOK'
  BY DEF PeersInv, PeersTypeOK
<1>2. Fresh'
  BY DEF PeersInv, PeersTypeOK, Fresh
<1>3. ~crossed' => NothingChecked'
  BY PeersAssumption DEF PeersInv, PeersTypeOK, NothingChecked
<1>4. ~crossed' => PeerJudged'
  BY SameRight, SameLeft DEF PeersInv, PeersTypeOK, Fresh, NothingChecked, PeerJudged, Due
<1> QED BY <1>1, <1>2, <1>3, <1>4 DEF PeersInv

LEMMA FireInv == ASSUME PeersInv, Fire PROVE PeersInv'
<1> USE DEF Fire, Idle
<1>1. PeersTypeOK'
  BY DEF PeersInv, PeersTypeOK
<1>2. Fresh'
  BY DEF PeersInv, PeersTypeOK, Fresh
<1>3. ~crossed' => NothingChecked'
  BY PeersAssumption DEF PeersInv, PeersTypeOK, NothingChecked
<1>4. ~crossed' => PeerJudged'
  BY SameRight, SameLeft DEF PeersInv, PeersTypeOK, Fresh, NothingChecked, PeerJudged, Due
<1> QED BY <1>1, <1>2, <1>3, <1>4 DEF PeersInv

LEMMA ResetHandleInv == ASSUME PeersInv, ResetHandle PROVE PeersInv'
<1> USE DEF ResetHandle
<1>1. PeersTypeOK'
  BY DEF PeersInv, PeersTypeOK
<1>2. Fresh'
  BY DEF PeersInv, PeersTypeOK, Fresh
<1>3. ~crossed' => NothingChecked'
  BY PeersAssumption DEF PeersInv, PeersTypeOK, NothingChecked
<1>4. ~crossed' => PeerJudged'
  BY SameRight, SameLeft DEF PeersInv, PeersTypeOK, Fresh, NothingChecked, PeerJudged, Due
<1> QED BY <1>1, <1>2, <1>3, <1>4 DEF PeersInv

LEMMA LinkDownInv == ASSUME PeersInv, LinkDown PROVE PeersInv'
<1> USE DEF LinkDown, Idle
<1>1. PeersTypeOK'
  BY DEF PeersInv, PeersTypeOK
<1>2. Fresh'
  BY DEF PeersInv, PeersTypeOK, Fresh
<1>3. ~crossed' => NothingChecked'
  BY PeersAssumption DEF PeersInv, PeersTypeOK, NothingChecked
<1>4. ~crossed' => PeerJudged'
  BY SameRight, SameLeft DEF PeersInv, PeersTypeOK, Fresh, NothingChecked, PeerJudged, Due
<1> QED BY <1>1, <1>2, <1>3, <1>4 DEF PeersInv

LEMMA LinkUpInv == ASSUME PeersInv, LinkUp PROVE PeersInv'
<1> USE DEF LinkUp, Idle
<1>1. PeersTypeOK'
  BY DEF PeersInv, PeersTypeOK
<1>2. Fresh'
  BY DEF PeersInv, PeersTypeOK, Fresh
<1>3. ~crossed' => NothingChecked'
  BY PeersAssumption DEF PeersInv, PeersTypeOK, NothingChecked
<1>4. ~crossed' => PeerJudged'
  BY SameRight, SameLeft DEF PeersInv, PeersTypeOK, Fresh, NothingChecked, PeerJudged, Due
<1> QED BY <1>1, <1>2, <1>3, <1>4 DEF PeersInv

LEMMA InvalidateInv == ASSUME PeersInv, Invalidate PROVE PeersInv'
<1> USE DEF Invalidate
<1>1. PeersTypeOK'
  BY DEF PeersInv, PeersTypeOK
<1>2. Fresh'
  BY DEF PeersInv, PeersTypeOK, Fresh
<1>3. ~crossed' => NothingChecked'
  BY PeersAssumption DEF PeersInv, PeersTypeOK, NothingChecked
<1>4. ~crossed' => PeerJudged'
  BY SameRight, SameLeft DEF PeersInv, PeersTypeOK, Fresh, NothingChecked, PeerJudged, Due
<1> QED BY <1>1, <1>2, <1>3, <1>4 DEF PeersInv

LEMMA TellInv == ASSUME PeersInv, Tell PROVE PeersInv'
<1> USE DEF Tell, MainAtRest
<1>1. PeersTypeOK'
  BY TodoFacts DEF PeersInv, PeersTypeOK, Todos
<1>2. Fresh'
  BY DEF PeersInv, PeersTypeOK, Fresh
<1>3. ~crossed' => NothingChecked'
  BY PeersAssumption DEF PeersInv, PeersTypeOK, NothingChecked
<1>4. ~crossed' => PeerJudged'
  BY SameRight, SameLeft DEF PeersInv, PeersTypeOK, Fresh, NothingChecked, PeerJudged, Due
<1> QED BY <1>1, <1>2, <1>3, <1>4 DEF PeersInv

LEMMA PeriodicInv == ASSUME PeersInv, Periodic PROVE PeersInv'
<1> USE DEF Periodic, Idle
<1>1. PeersTypeOK'
  BY DEF PeersInv, PeersTypeOK
<1>2. Fresh'
  BY DEF PeersInv, PeersTypeOK, Fresh
<1>3. ~crossed' => NothingChecked'
  BY PeersAssumption DEF PeersInv, PeersTypeOK, NothingChecked
<1>4. ~crossed' => PeerJudged'
  BY SameRight, SameLeft DEF PeersInv, PeersTypeOK, Fresh, NothingChecked, PeerJudged, Due
<1> QED BY <1>1, <1>2, <1>3, <1>4 DEF PeersInv

LEMMA RunCheckInv == ASSUME PeersInv, RunCheck PROVE PeersInv'
<1> USE DEF RunCheck
<1>1. PeersTypeOK'
  <2>1. <<>> \in Todos /\ Checks \in Todos /\ Checks # <<>>
    BY TodoFacts DEF Todos
  <2>2. /\ main' \in [at : {"idle", "fired", "lost", "tell", "check", "look", "judge", "reset"},
                     todo : Todos, saw : Infos \cup {NoInfo}]
        /\ main'.at \in {"look", "judge"} <=> main'.todo # <<>>
    <3>1. CASE check = NoCheck
      BY <2>1, <3>1 DEF PeersInv, PeersTypeOK
    <3>2. CASE check # NoCheck
      BY <2>1, <3>2 DEF PeersInv, PeersTypeOK
    <3> QED BY <3>1, <3>2
  <2> QED BY <2>2 DEF PeersInv, PeersTypeOK
<1>2. Fresh'
  BY DEF PeersInv, PeersTypeOK, Fresh
<1>3. ~crossed' => NothingChecked'
  BY PeersAssumption DEF PeersInv, PeersTypeOK, NothingChecked
<1>4. ~crossed' => PeerJudged'
  BY LeftFacts DEF PeersInv, PeersTypeOK, NothingChecked, PeerJudged, Left
<1> QED BY <1>1, <1>2, <1>3, <1>4 DEF PeersInv

LEMMA LookInv == ASSUME PeersInv, Look PROVE PeersInv'
<1> USE DEF Look
<1>1. PeersTypeOK'
  BY DEF PeersInv, PeersTypeOK
<1>2. Fresh'
  BY DEF PeersInv, PeersTypeOK, Fresh
<1>3. ~crossed' => NothingChecked'
  BY PeersAssumption DEF PeersInv, PeersTypeOK, NothingChecked
<1>4. ~crossed' => PeerJudged'
  BY SameRight, SameLeft DEF PeersInv, PeersTypeOK, Fresh, NothingChecked, PeerJudged, Due
<1> QED BY <1>1, <1>2, <1>3, <1>4 DEF PeersInv

LEMMA JudgeInv == ASSUME PeersInv, Judge PROVE PeersInv'
<1>1. main.todo \in Todos \ {<<>>} /\ main.at = "judge"
  BY DEF PeersInv, PeersTypeOK, Judge
<1> PICK c \in CheckNames : c = Head(main.todo) /\ c \in Left
  BY <1>1, LeftFacts DEF Left
<1>2. main'.todo = Tail(main.todo)
  BY <1>1, LeftFacts DEF PeersInv, PeersTypeOK, Judge, MainAtRest
<1>3. Left' = Left \ {c}
  BY <1>1, <1>2, LeftFacts DEF Left
<1>4. /\ UNCHANGED <<check, updated, info, rx, eth, link, file, crossed>>
      /\ diag' = Verdict(c, main.saw, check)
  BY DEF Judge
<1>5. /\ main'.todo = <<>> => main' = MainAtRest
      /\ main'.todo # <<>> => main' = [main EXCEPT !.at = "look", !.todo = Tail(@)]
  BY <1>1, <1>2, LeftFacts DEF Judge
<1>6. /\ main' \in [at : {"idle", "fired", "lost", "tell", "check", "look", "judge", "reset"},
                   todo : Todos, saw : Infos \cup {NoInfo}]
      /\ main'.at \in {"look", "judge"} <=> main'.todo # <<>>
      /\ main'.at \in {"idle", "look"}
  <2>1. CASE main'.todo = <<>>
    <3>1. main' = MainAtRest
      BY <1>5, <2>1
    <3>2. <<>> \in Todos
      BY DEF Todos
    <3> QED BY <3>1, <3>2 DEF MainAtRest
  <2>2. CASE main'.todo # <<>>
    <3>1. main' = [main EXCEPT !.at = "look", !.todo = Tail(@)]
      BY <1>5, <2>2
    <3>2. Tail(main.todo) \in Todos
      BY <1>1, LeftFacts
    <3>3. main \in [at : {"idle", "fired", "lost", "tell", "check", "look", "judge", "reset"},
                    todo : Todos, saw : Infos \cup {NoInfo}]
      BY DEF PeersInv, PeersTypeOK
    <3> QED BY <2>2, <3>1, <3>2, <3>3
  <2> QED BY <2>1, <2>2
<1>7. PeersTypeOK'
  BY <1>4, <1>6 DEF PeersInv, PeersTypeOK
<1>8. Fresh'
  BY <1>4 DEF PeersInv, Fresh
<1>9. ASSUME ~crossed' PROVE NothingChecked'
  <2>1. check # NoCheck
    BY <1>1, <1>4, <1>9 DEF PeersInv, NothingChecked
  <2> QED BY <1>4, <1>6, <1>9, <2>1 DEF PeersInv, NothingChecked
<1>10. ASSUME ~crossed', check # NoCheck, ~Due'
       PROVE  \A d \in CheckNames \ Left' : Right(d)'
  <2>1. ~Due
    BY <1>1, <1>4, <1>10 DEF Due
  <2>2. main.saw = info /\ \A d \in CheckNames \ Left : Right(d)
    BY <1>1, <1>4, <1>10, <2>1 DEF PeersInv, PeerJudged
  <2>3. diag' = Verdict(c, info, check)
    BY <1>4, <2>2
  <2>4. PeersInv /\ c \in CheckNames /\ UNCHANGED <<info, check>>
    BY <1>1, <1>4
  <2>5. Right(c)' /\ \A d \in CheckNames \ {c} : Right(d) => Right(d)'
    BY <1>10, <2>3, <2>4, VerdictRight
  <2>6. TAKE d \in CheckNames \ Left'
  <2>7. CASE d = c
    BY <2>5, <2>7
  <2>8. CASE d # c
    <3>1. d \in CheckNames \ {c} /\ d \notin Left
      BY <1>3, <2>8
    <3> QED BY <2>2, <2>5, <3>1
  <2> QED BY <2>7, <2>8
<1>11. ~crossed' => PeerJudged'
  BY <1>4, <1>6, <1>10 DEF PeerJudged
<1> QED BY <1>7, <1>8, <1>9, <1>11 DEF PeersInv


LEMMA WriteCheckInv == ASSUME PeersInv, NEW w \in Wanted, WriteCheck(w) PROVE PeersInv'
<1> USE DEF WriteCheck, Idle
<1>1. PeersTypeOK'
  BY DEF PeersInv, PeersTypeOK
<1>2. Fresh'
  BY DEF PeersInv, PeersTypeOK, Fresh
<1>3. ~crossed' => NothingChecked'
  BY PeersAssumption DEF PeersInv, PeersTypeOK, NothingChecked
<1>4. ~crossed' => PeerJudged'
  BY SameRight, SameLeft DEF PeersInv, PeersTypeOK, Fresh, NothingChecked, PeerJudged, Due
<1> QED BY <1>1, <1>2, <1>3, <1>4 DEF PeersInv

LEMMA ConnectResetInv == ASSUME PeersInv, ConnectReset PROVE PeersInv'
<1> USE DEF ConnectReset, Idle
<1>1. PeersTypeOK'
  BY DEF PeersInv, PeersTypeOK
<1>2. Fresh'
  BY DEF PeersInv, PeersTypeOK, Fresh
<1>3. ~crossed' => NothingChecked'
  BY PeersAssumption DEF PeersInv, PeersTypeOK, NothingChecked
<1>4. ~crossed' => PeerJudged'
  BY SameRight, SameLeft DEF PeersInv, PeersTypeOK, Fresh, NothingChecked, PeerJudged, Due
<1> QED BY <1>1, <1>2, <1>3, <1>4 DEF PeersInv

LEMMA ConnectRemoveDiagInv == ASSUME PeersInv, ConnectRemoveDiag PROVE PeersInv'
<1> USE DEF ConnectRemoveDiag, MainAtRest
<1>1. PeersTypeOK'
  BY TodoFacts DEF PeersInv, PeersTypeOK, Todos
<1>2. Fresh'
  BY DEF PeersInv, PeersTypeOK, Fresh
<1>3. ~crossed' => NothingChecked'
  BY PeersAssumption DEF PeersInv, PeersTypeOK, NothingChecked
<1>4. ~crossed' => PeerJudged'
  BY SameRight, SameLeft DEF PeersInv, PeersTypeOK, Fresh, NothingChecked, PeerJudged, Due
<1> QED BY <1>1, <1>2, <1>3, <1>4 DEF PeersInv

LEMMA PeersInitInv == PeersInit => PeersInv
<1> SUFFICES ASSUME PeersInit PROVE PeersInv
  OBVIOUS
<1>1. main = [at |-> "idle", todo |-> <<>>, saw |-> NoInfo] /\ eth.at = "idle"
  BY DEF PeersInit, MainAtRest, AtRest
<1>2. rx = [known |-> "none", strays |-> 0]
  BY DEF PeersInit, BootTimer
<1>3. <<>> \in Todos
  BY DEF Todos
<1>4. PeersTypeOK
  <2>1. main \in [at : {"idle", "fired", "lost", "tell", "check", "look", "judge", "reset"},
                  todo : Todos, saw : Infos \cup {NoInfo}]
    BY <1>1, <1>3
  <2>2. main.at \in {"look", "judge"} <=> main.todo # <<>>
    BY <1>1
  <2>3. eth \in [at : {"idle", "stored", "reset"}]
    BY DEF PeersInit, AtRest
  <2>4. rx \in [known : {"none", "boot", "live", "stale"}, strays : Nat]
    BY <1>2
  <2> QED BY <2>1, <2>2, <2>3, <2>4 DEF PeersInit, PeersTypeOK
<1>5. Fresh
  BY <1>2 DEF Fresh
<1>6. NothingChecked
  BY <1>1 DEF PeersInit, NothingChecked
<1>7. PeerJudged
  BY DEF PeersInit, PeerJudged
<1> QED BY <1>4, <1>5, <1>6, <1>7 DEF PeersInv

LEMMA StutterInv == ASSUME PeersInv, UNCHANGED peervars PROVE PeersInv'
BY SameRight, SameLeft DEF peervars, PeersInv, PeersTypeOK, Fresh, NothingChecked, PeerJudged, Due

LEMMA PeersStepInv == PeersInv /\ [PeersNext]_peervars => PeersInv'
BY PowerCycleInv, SaveInv, FrameInv, StoreInv, IndicateInv, DcpResetInv, DcpRemoveDiagInv, FireInv,
   ResetHandleInv, LinkDownInv, LinkUpInv, InvalidateInv, TellInv, PeriodicInv, RunCheckInv,
   LookInv, JudgeInv, WriteCheckInv, ConnectResetInv, ConnectRemoveDiagInv, StutterInv
   DEF PeersNext

\* When nothing is left to do, the diagnosis of the port is right, however
\* frames, timeouts, link changes, checks and restarts met, unless a DCP reset
\* came between (pf_pdport_periodic clears its flag before it checks).
THEOREM AlwaysDiagnosed == PeersSpec => []PeerDiagnosed
<1>1. PeersInv => PeerDiagnosed
  <2> SUFFICES ASSUME PeersInv, Quiet, ~crossed
               PROVE  IF check = NoCheck THEN diag = {}
                      ELSE /\ "no peer" \in diag <=> ~Received
                           /\ Received => ("port" \in diag <=> ~RightPort(info, check))
                           /\ Received /\ info.station # Nameless
                                 => ("station" \in diag <=> ~RightStation(info, check))
    BY DEF PeerDiagnosed
  <2>1. main.todo = <<>> /\ ~Due /\ eth.at # "reset"
    BY DEF PeersInv, PeersTypeOK, Quiet, Idle, Due
  <2>2. Left = {}
    BY <2>1, LeftFacts DEF Left
  <2>3. CASE check = NoCheck
    BY <2>1, <2>3 DEF PeersInv, NothingChecked, Quiet, Idle
  <2>4. CASE check # NoCheck
    <3>1. \A c \in CheckNames : Right(c)
      BY <2>1, <2>2, <2>4 DEF PeersInv, PeerJudged
    <3> QED BY <2>4, <3>1 DEF Right, CheckNames
  <2> QED BY <2>3, <2>4
<1> QED BY <1>1, PeersInitInv, PeersStepInv, PTL DEF PeersSpec
=============================================================================
