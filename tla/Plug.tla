------------------------------- MODULE Plug --------------------------------
(***************************************************************************)
(* The modules and submodules of a device (pf_cmdev.c): what the           *)
(* application has plugged, which of it the connection owns, and what the  *)
(* controller is told about it - the ModuleDiffBlock of the Connect        *)
(* response and of the application-ready request, and the plug and pull    *)
(* alarms.                                                                 *)
(*                                                                         *)
(* There is one API (PNET_MAX_API is 1) and one AR record that is ever     *)
(* connected (pf_cmrpc_rm_connect_ind refuses AREP 2), so a pointer to the *)
(* owner is a Boolean.  plug_state, which is only shown, and the data      *)
(* lengths are left out; of ident_info the diagnosis needs nothing more    *)
(* than in_use.  What a pulled entry still holds is never read before it   *)
(* is cleared for reuse: it is NoSlot or NoSub.                            *)
(***************************************************************************)
EXTENDS Integers, FiniteSets, SequencesExt

CONSTANTS
    SlotNbrs,    \* slot numbers
    SubNbrs,     \* subslot numbers
    Idents,      \* module and submodule ident numbers
    MaxSlots,    \* PNET_MAX_SLOTS
    MaxSubs,     \* PNET_MAX_SUBSLOTS
    Requests,    \* the expected modules of the Connect requests, in order
    Faulty,      \* bound: the positions that may have a diagnosis
    MaxReads,    \* bound: how often a connection reads the diff as a record
    None         \* no ident number

\* A module of a request: its slot, its ident number and its submodules.
Modules == [slot : SlotNbrs, ident : Idents, subs : Seq([sub : SubNbrs, ident : Idents])]
SubNames(m) == {m.subs[j].sub : j \in 1 .. Len(m.subs)}

\* The requests that name no slot twice, and no subslot of a slot twice; the
\* others are refused (pf_cmdev.c:3906 and 3566), as ConnectRefused does.
ASSUME PlugAssumption ==
    /\ MaxSlots \in Nat /\ MaxSubs \in Nat
    /\ None \notin Idents
    /\ IsFiniteSet(SlotNbrs) /\ IsFiniteSet(SubNbrs)
    /\ MaxReads \in Nat /\ Faulty \subseteq SlotNbrs \X SubNbrs
    /\ \A r \in Requests :
          /\ r \in Seq(Modules)
          /\ \A i, j \in 1 .. Len(r) : r[i].slot = r[j].slot => i = j
          /\ \A i \in 1 .. Len(r) : \A j, k \in 1 .. Len(r[i].subs) :
                r[i].subs[j].sub = r[i].subs[k].sub => j = k

VARIABLES
    slots,   \* apis[0].slots[], by slot number
    owned,   \* does apis[0].p_ar point to the AR record?
    ar,      \* the AR record: its phase, expected modules, alarms, diffs
    view,    \* what the controller may believe of a submodule
    halted   \* a null pointer was followed

pvars == <<slots, owned, ar, view, halted>>

NoSub == [in_use |-> FALSE, ident |-> None, owned |-> FALSE, fault |-> FALSE]
NoSlot == [in_use |-> FALSE, ident |-> None, owned |-> FALSE,
           subs |-> [b \in SubNbrs |-> NoSub]]

\* api_diffs[0] after memset
Diffs == 1 .. Cardinality(SlotNbrs)
SubDiffs == 1 .. Cardinality(SubNbrs)
NoDiff ==
    [n |-> 0,
     mods |-> [k \in Diffs |->
        [slot |-> 0, state |-> "NO_MODULE", ident |-> None, n |-> 0,
         subs |-> [j \in SubDiffs |->
            [sub |-> 0, ident |-> None, info |-> "OK", fault |-> FALSE]]]]]
NoAr == [phase |-> "none", exp |-> <<>>, alarm |-> FALSE, diff |-> NoDiff, reads |-> 0]
Up == ar.phase # "none"

Positions == SlotNbrs \X SubNbrs

\* What can be said of a submodule.  A controller that has not been told may
\* believe anything.
Absent == [mod |-> None, ident |-> None, wrong |-> FALSE]
Anything == [mod : Idents \cup {None}, ident : Idents \cup {None}, wrong : BOOLEAN]
Ignorant == [p \in Positions |-> Anything]

PlugInit ==
    /\ slots = [n \in SlotNbrs |-> NoSlot]
    /\ owned = FALSE
    /\ ar = NoAr
    /\ view = Ignorant
    /\ halted = FALSE

SlotsUsed(sl) == {n \in SlotNbrs : sl[n].in_use}
SubsUsed(s) == {b \in SubNbrs : s.subs[b].in_use}
Fits(sl) == Cardinality(SlotsUsed(sl)) <= MaxSlots
               /\ \A n \in SlotNbrs : Cardinality(SubsUsed(sl[n])) <= MaxSubs

\* The expected submodules of request r.
Expected(r) == {p \in Positions : \E i \in 1 .. Len(r) :
                   p[1] = r[i].slot /\ p[2] \in SubNames(r[i])}
\* pf_cmdev_get_exp_sub
ExpIdent(r, p) == CHOOSE x \in Idents : \E i \in 1 .. Len(r) : \E j \in 1 .. Len(r[i].subs) :
                     r[i].slot = p[1] /\ r[i].subs[j] = [sub |-> p[2], ident |-> x]

(***************************************************************************)
(* pf_cmdev_generate_submodule_diff: the expected modules and submodules   *)
(* are compared with the plugged ones in the order of the request.  An     *)
(* entry is kept if it differs; otherwise the next one overwrites it, but  *)
(* only the fields it sets.                                                *)
(***************************************************************************)
Mut_SubDiff(s, a, x) ==
    LET b == s.subs[x.sub]
        wrong == b.in_use /\ b.ident # x.ident
        e == [a.subs[a.n + 1] EXCEPT
                !.sub = x.sub,
                !.info = IF ~b.in_use THEN "NO" ELSE IF wrong THEN "WRONG" ELSE @,
                !.ident = IF wrong \/ b.fault THEN b.ident ELSE @,
                !.fault = @ \/ b.fault]
        differs == ~b.in_use \/ wrong
    IN  [n |-> a.n + (IF differs THEN 1 ELSE 0), subs |-> [a.subs EXCEPT ![a.n + 1] = e]]

SubDiff(s, a, x) ==
    LET b == s.subs[x.sub]
        wrong == b.in_use /\ b.ident # x.ident
        e == [a.subs[a.n + 1] EXCEPT
                !.sub = x.sub,
                !.info = IF ~b.in_use THEN "NO" ELSE IF wrong THEN "WRONG" ELSE @,
                !.ident = IF wrong \/ b.fault THEN b.ident ELSE @,
                !.fault = @ \/ b.fault]
        differs == ~b.in_use \/ wrong \/ b.fault
    IN  [n |-> a.n + (IF differs THEN 1 ELSE 0), subs |-> [a.subs EXCEPT ![a.n + 1] = e]]

\* The loop over the submodules of a module, from the entries e.
Within(s, e, xs) == FoldLeft(LAMBDA a, x : SubDiff(s, a, x), e, xs)

ModuleDiff(sl, d, m) ==
    LET s == sl[m.slot]
        k == d.n + 1
        old == [d.mods[k] EXCEPT !.slot = m.slot]
        within == Within(s, [n |-> 0, subs |-> old.subs], m.subs)
        proper == s.in_use /\ s.ident = m.ident
        e == IF ~s.in_use THEN [old EXCEPT !.state = "NO_MODULE"]
             ELSE IF ~proper THEN [old EXCEPT !.state = "WRONG_MODULE", !.ident = s.ident]
             ELSE [old EXCEPT !.state = "PROPER_MODULE", !.ident = s.ident,
                              !.n = within.n, !.subs = within.subs]
    IN  [n |-> d.n + (IF proper /\ within.n = 0 THEN 0 ELSE 1),
         mods |-> [d.mods EXCEPT ![k] = e]]

Generate(sl, d, r) == FoldLeft(LAMBDA a, m : ModuleDiff(sl, a, m), [d EXCEPT !.n = 0], r)

\* What the block says of the submodule x of module m: the set of what it may
\* be, as nothing is said of the submodules of a wrong module.
AsExpected(m, x) == [mod |-> m.ident, ident |-> x.ident, wrong |-> FALSE]

\* pf_put_module_diff, pf_put_submodule_diff
Said(d, m, x) ==
    LET E == {k \in 1 .. d.n : d.mods[k].slot = m.slot}
        e == d.mods[CHOOSE k \in E : TRUE]
        F == {j \in 1 .. e.n : e.subs[j].sub = x.sub}
        f == e.subs[CHOOSE j \in F : TRUE]
    IN  IF E = {} THEN {AsExpected(m, x)}
        ELSE IF e.state = "NO_MODULE" THEN {Absent}
        ELSE IF e.state = "WRONG_MODULE" THEN Anything
        ELSE IF F = {} THEN {AsExpected(m, x)}
        ELSE IF f.info = "NO" THEN {Absent}
        ELSE {[mod |-> e.ident, ident |-> f.ident, wrong |-> f.info = "WRONG"]}
SaidFault(d, m, x) ==
    \E k \in 1 .. d.n : /\ d.mods[k].slot = m.slot /\ d.mods[k].state = "PROPER_MODULE"
                        /\ \E j \in 1 .. d.mods[k].n : /\ d.mods[k].subs[j].sub = x.sub
                                                       /\ d.mods[k].subs[j].fault

\* What is so of the submodule x of module m.
Actual(sl, m, x) ==
    LET s == sl[m.slot]
        b == s.subs[x.sub]
    IN  IF ~s.in_use \/ ~b.in_use THEN Absent
        ELSE [mod |-> s.ident, ident |-> b.ident, wrong |-> b.ident # x.ident]
ActualFault(sl, m, x) ==
    LET s == sl[m.slot]
    IN  s.in_use /\ s.ident = m.ident /\ s.subs[x.sub].in_use /\ s.subs[x.sub].fault

Agrees(sl, d, r) ==
    \A i \in 1 .. Len(r) : \A j \in 1 .. Len(r[i].subs) :
        /\ Actual(sl, r[i], r[i].subs[j]) \in Said(d, r[i], r[i].subs[j])
        /\ SaidFault(d, r[i], r[i].subs[j]) <=> ActualFault(sl, r[i], r[i].subs[j])

\* What the controller knows after a message with the diff d.
Learned(d, r) ==
    [p \in Positions |->
        IF p \notin Expected(r) THEN Anything
        ELSE LET i == CHOOSE i \in 1 .. Len(r) : r[i].slot = p[1] /\ p[2] \in SubNames(r[i])
                 j == CHOOSE j \in 1 .. Len(r[i].subs) : r[i].subs[j].sub = p[2]
             IN  Said(d, r[i], r[i].subs[j])]

(***************************************************************************)
(* Connect: pf_cmdev_exp_apis_configure.  The application is asked to plug *)
(* what is missing; app[n] and sub[n][b] are its answers, None if it plugs *)
(* nothing or there is no room.                                            *)
(***************************************************************************)
NewSub(i, own) == [NoSub EXCEPT !.in_use = TRUE, !.ident = i, !.owned = own]
NewSlot(i, own) == [NoSlot EXCEPT !.in_use = TRUE, !.ident = i, !.owned = own]

\* pf_cmdev_exp_modules_configure: the slot of module m.  Slots and submodules
\* that have no owner get this AR; new ones inherit it.
AskedSlot(s, i) == IF s.in_use \/ i = None THEN s ELSE NewSlot(i, TRUE)

\* pf_cmdev_exp_submodule_configure: every submodule of m is asked for; those
\* in `took' pass the checks that come before they are given to the AR.
Mut_Claimed(s, m, i, subs, took) ==
    LET t == AskedSlot(s, i)
    IN  [t EXCEPT !.owned = TRUE,
                  !.subs = [b \in SubNbrs |->
                     IF b \notin SubNames(m) THEN @[b]
                     ELSE IF @[b].in_use THEN @[b]
                     ELSE IF subs[b] # None THEN NewSub(subs[b], TRUE)
                     ELSE NoSub]]

Claimed(s, m, i, subs, took) ==
    LET t == AskedSlot(s, i)
    IN  [t EXCEPT !.owned = TRUE,
                  !.subs = [b \in SubNbrs |->
                     IF b \notin SubNames(m) THEN t.subs[b]
                     ELSE IF t.subs[b].in_use THEN [t.subs[b] EXCEPT !.owned = @ \/ b \in took]
                     ELSE IF subs[b] # None THEN NewSub(subs[b], TRUE)
                     ELSE NoSub]]

\* The slots after the first k modules of r were configured.
Configured(r, k, app, subs) ==
    [n \in SlotNbrs |->
        IF \E i \in 1 .. k : r[i].slot = n
        THEN LET m == r[CHOOSE i \in 1 .. k : r[i].slot = n]
             IN  Claimed(slots[n], m, app[n], subs[n], SubNames(m))
        ELSE slots[n]]

\* The answers of the application.
Answers == [SlotNbrs -> Idents \cup {None}]
SubAnswers == [SlotNbrs -> [SubNbrs -> Idents \cup {None}]]

ConnectAccepted(r, app, subs) ==
    LET sl == Configured(r, Len(r), app, subs)
        d == Generate(sl, NoDiff, r)
    IN  /\ ~Up
        /\ Fits(sl)
        /\ \A p \in Expected(r) : sl[p[1]].in_use /\ sl[p[1]].subs[p[2]].in_use
        /\ slots' = sl /\ owned' = TRUE
        /\ ar' = [phase |-> "started", exp |-> r, alarm |-> FALSE, diff |-> d, reads |-> 0]
        /\ view' = Learned(d, r)
        /\ UNCHANGED halted

\* A check fails in module k + 1, in or before its submodules, or in a later
\* block of the request: what was claimed until then stays so.  The record
\* is released.
ConnectRefused(r, k, took, app, subs) ==
    LET s == Configured(r, k, app, subs)
        m == r[k + 1]
        sl == IF k = Len(r) THEN s
              ELSE [s EXCEPT ![m.slot] =
                       IF AskedSlot(@, app[m.slot]).in_use
                       THEN Claimed(@, m, app[m.slot], subs[m.slot], took) ELSE @]
    IN  /\ ~Up
        /\ Fits(sl)
        /\ \A i \in 1 .. k : \A b \in SubNames(r[i]) :
              s[r[i].slot].in_use /\ s[r[i].slot].subs[b].in_use
        /\ slots' = sl /\ owned' = TRUE
        /\ UNCHANGED <<ar, view, halted>>

(***************************************************************************)
(* The rest of the connection.                                             *)
(***************************************************************************)
\* pf_cmrpc_rm_ccontrol_req: the application is ready.  The controller is sent
\* the diff of the Connect response again, which tells it nothing it did not
\* know; of what has changed since, it is not told.
AppReady ==
    /\ ar.phase = "started"
    /\ ar' = [ar EXCEPT !.phase = "ready"]
    /\ UNCHANGED <<slots, owned, view, halted>>

\* pf_cmdev_rm_ccontrol_cnf: alarms are enabled.
ReadyConfirmed ==
    /\ ar.phase = "ready"
    /\ ar' = [ar EXCEPT !.phase = "confirmed", !.alarm = TRUE]
    /\ UNCHANGED <<slots, owned, view, halted>>

\* pf_cmpbe_rm_dcontrol_ind: PrmBegin
PrmBegin ==
    /\ ar.phase = "confirmed"
    /\ ar' = [ar EXCEPT !.alarm = FALSE]
    /\ UNCHANGED <<slots, owned, view, halted>>

\* pf_cmrdr_rm_read_ind: the record PF_IDX_AR_MOD_DIFF.  The diff is generated
\* again, over the one before.
ReadDiff ==
    /\ Up /\ ar.reads < MaxReads
    /\ ar' = [ar EXCEPT !.diff = Generate(slots, @, ar.exp), !.reads = @ + 1]
    /\ UNCHANGED <<slots, owned, view, halted>>

\* The AR ends: pf_cmdev_set_state (ABORT) calls pf_device_clear after the
\* state machines have ended; pf_cmdev_state_ind alone does not.
Released(s) == [s EXCEPT !.owned = FALSE,
                         !.subs = [b \in SubNbrs |-> [@[b] EXCEPT !.owned = FALSE]]]
Aborted ==
    /\ Up
    /\ slots' = [n \in SlotNbrs |-> Released(slots[n])]
    /\ owned' = FALSE
    /\ ar' = NoAr /\ view' = Ignorant
    /\ UNCHANGED halted
EventAbort ==
    /\ Up
    /\ ar' = NoAr /\ view' = Ignorant
    /\ UNCHANGED <<slots, owned, halted>>

(***************************************************************************)
(* The application plugs and pulls.                                        *)
(***************************************************************************)
\* pf_alarm_send_alarm to the owner: `room' says whether the queue takes it.
Posted(room) == ar.alarm /\ room

\* pf_cmdev_plug_module.  A module of another ident number is not replaced;
\* no alarm is sent.
ModulePlugged(n, m) ==
    IF slots[n].in_use \/ Cardinality(SlotsUsed(slots)) >= MaxSlots THEN slots[n]
    ELSE NewSlot(m, owned)
PlugModule(n, m) ==
    /\ slots' = [slots EXCEPT ![n] = ModulePlugged(n, m)]
    /\ UNCHANGED <<owned, ar, view, halted>>

\* pf_cmdev_plug_submodule of a submodule i of module m: a missing module is
\* plugged first; a plugged submodule is not replaced.  The application gives
\* the ident number of the module that is plugged.
Mut_PlugSubmodule(n, b, m, i, room) ==
    LET s == ModulePlugged(n, m)
        told == s.owned /\ <<n, b>> \in Expected(ar.exp)
        new == s.in_use /\ ~s.subs[b].in_use /\ Cardinality(SubsUsed(s)) < MaxSubs
    IN  /\ slots[n].in_use => m = slots[n].ident
        /\ slots' = [slots EXCEPT ![n] =
              IF new THEN [s EXCEPT !.subs[b] = NewSub(i, s.owned)] ELSE s]
        /\ view' = [view EXCEPT ![<<n, b>>] =
                       IF ~new \/ ~told THEN @
                       ELSE IF ~Posted(room) THEN Anything
                       ELSE {[mod |-> m, ident |-> i, wrong |-> FALSE]}]
        /\ UNCHANGED <<owned, ar, halted>>

PlugSubmodule(n, b, m, i, room) ==
    LET s == ModulePlugged(n, m)
        told == s.owned /\ <<n, b>> \in Expected(ar.exp)
        new == s.in_use /\ ~s.subs[b].in_use /\ Cardinality(SubsUsed(s)) < MaxSubs
    IN  /\ slots[n].in_use => m = slots[n].ident
        /\ slots' = [slots EXCEPT ![n] =
              IF new THEN [s EXCEPT !.subs[b] = NewSub(i, s.owned)] ELSE s]
        /\ view' = [view EXCEPT ![<<n, b>>] =
                       IF ~new \/ ~told THEN @
                       ELSE IF ~Posted(room) THEN Anything
                       ELSE {[mod |-> m, ident |-> i, wrong |-> i # ExpIdent(ar.exp, <<n, b>>)]}]
        /\ UNCHANGED <<owned, ar, halted>>

\* pf_cmdev_pull_submodule for the submodules B of slot n, which all have an
\* owner; `heard' are those whose alarm is queued.
PullSubs(n, B, heard) ==
    view' = [p \in Positions |->
                IF p[1] # n \/ p[2] \notin B THEN view[p]
                ELSE IF Posted(p[2] \in heard) THEN {Absent} ELSE Anything]

\* A submodule without an owner: pf_alarm_send_pull follows the null pointer.
NullOwner(n, B) ==
    /\ \E b \in B : ~slots[n].subs[b].owned
    /\ halted' = TRUE
    /\ UNCHANGED <<slots, owned, ar, view>>

PullSubmodule(n, b, heard) ==
    /\ slots[n].in_use /\ slots[n].subs[b].in_use
    /\ \/ NullOwner(n, {b})
       \/ /\ slots[n].subs[b].owned
          /\ slots' = [slots EXCEPT ![n].subs[b] = NoSub]
          /\ PullSubs(n, {b}, heard)
          /\ UNCHANGED <<owned, ar, halted>>

\* pf_cmdev_pull_module: its submodules first
PullModule(n, heard) ==
    LET B == SubsUsed(slots[n])
    IN  /\ slots[n].in_use
        /\ \/ NullOwner(n, B)
           \/ /\ \A b \in B : slots[n].subs[b].owned
              /\ slots' = [slots EXCEPT ![n] = NoSlot]
              /\ PullSubs(n, B, heard)
              /\ UNCHANGED <<owned, ar, halted>>

\* pf_diag_update_submodule_state: a diagnosis of a submodule comes or goes.
Diagnose(n, b, f) ==
    /\ <<n, b>> \in Faulty
    /\ slots[n].in_use /\ slots[n].subs[b].in_use
    /\ slots' = [slots EXCEPT ![n].subs[b].fault = f]
    /\ UNCHANGED <<owned, ar, view, halted>>

\* It is only asked for what is missing.
Asked(app, subs) ==
    \A n \in SlotNbrs : /\ slots[n].in_use => app[n] = None
                        /\ \A b \in SubNbrs : slots[n].subs[b].in_use => subs[n][b] = None

Connect ==
    \E r \in Requests, app \in Answers, subs \in SubAnswers :
        /\ Asked(app, subs)
        /\ \/ ConnectAccepted(r, app, subs)
           \/ \E k \in 0 .. Len(r), took \in SUBSET SubNbrs : ConnectRefused(r, k, took, app, subs)

Application ==
    \E n \in SlotNbrs :
        \/ \E m \in Idents : PlugModule(n, m)
        \/ \E b \in SubNbrs, m, i \in Idents, room \in BOOLEAN : PlugSubmodule(n, b, m, i, room)
        \/ \E b \in SubNbrs, heard \in SUBSET SubNbrs : PullSubmodule(n, b, heard)
        \/ \E heard \in SUBSET SubNbrs : PullModule(n, heard)
        \/ \E b \in SubNbrs, f \in BOOLEAN : Diagnose(n, b, f)

PlugNext ==
    /\ ~halted
    /\ \/ Connect
       \/ AppReady \/ ReadyConfirmed \/ PrmBegin \/ ReadDiff
       \/ Aborted \/ EventAbort
       \/ Application

PlugSpec == PlugInit /\ [][PlugNext]_pvars

(***************************************************************************)
(* Properties                                                              *)
(***************************************************************************)
\* An expected submodule that is plugged while the connection is up belongs
\* to it, whatever was pulled and plugged in between and whichever owners a
\* connection before left behind: without its owner it has no cyclic data
\* (pf_cpm_get_ar_iocr_desc, pf_ppm_get_ar_iocr_desc) and its pull alarm goes
\* nowhere.
OwnedByAr ==
    Up => \A p \in Expected(ar.exp) :
             slots[p[1]].in_use /\ slots[p[1]].subs[p[2]].in_use
                => slots[p[1]].owned /\ slots[p[1]].subs[p[2]].owned

\* The ModuleDiffBlock of a Connect response reports every expected submodule
\* as it is: present, absent, of another ident number, with a diagnosis
\* (pf_cmdev_generate_submodule_diff, pf_put_ar_diff).
ReportTrue == [][~Up /\ Up' => Agrees(slots', ar.diff', ar.exp')]_pvars

\* The diff of the Connect response and the plug, plug-wrong and pull alarms
\* are enough for the controller to follow what is plugged: it only errs about
\* a submodule whose alarm was refused, by a full queue or because alarms were
\* not enabled.
ViewTrue ==
    Up =>
        \A i \in 1 .. Len(ar.exp) : \A j \in 1 .. Len(ar.exp[i].subs) :
            Actual(slots, ar.exp[i], ar.exp[i].subs[j])
               \in view[<<ar.exp[i].slot, ar.exp[i].subs[j].sub>>]

\* A submodule can be pulled whether there is a connection or not
\* (pnet_pull_submodule "may be used to unplug a sub-module").
PullIsSafe == ~halted
=============================================================================
