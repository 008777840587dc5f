----------------------------- MODULE Diagnosis -----------------------------
(***************************************************************************)
(* The diagnosis of a device (pf_diag.c): one array of items, of which     *)
(* each subslot has a linked list and the unused ones another.  A          *)
(* diagnosis is identified by its source and its error types (`key'); its  *)
(* severity decides the flags of the submodule and the problem indicator   *)
(* of the cyclic data.  The extended value and the manufacturer's data,    *)
(* and the alarms that carry them, are left out, with the validation of    *)
(* the arguments that comes before any change.                             *)
(*                                                                         *)
(* The main thread adds, updates and removes under a mutex; but a removal  *)
(* only takes its item out of the list under it.  It gives the flags and   *)
(* frees the item afterwards, and a DCP reset removes the diagnoses of the *)
(* ports on the Ethernet thread.                                           *)
(***************************************************************************)
EXTENDS Naturals, FiniteSets

CONSTANTS
    NItems,    \* PNET_MAX_DIAG_ITEMS
    Places,    \* subslots
    Ports,     \* those of the ports
    Keys,      \* what identifies a diagnosis within a subslot
    Severities \* those that occur, of AllSeverities

\* PNET_DIAG_CH_PROP_MAINT_...; "qualified" has the bit of a fault.  Of the
\* manufacturer's format every item is a fault.
AllSeverities == {"fault", "demanded", "required", "qualified"}

ASSUME DiagnosisAssumption == NItems \in Nat \ {0} /\ Severities \subseteq AllSeverities
                                 /\ Ports \subseteq Places

Items == 1 .. NItems
Null == 0        \* PF_DIAG_IX_NULL

VARIABLES
    item,     \* diag_items[]
    spare,    \* diag_items_free
    head,     \* head[s]: diag_list of subslot s
    plugged,  \* plugged[s]: is there a submodule?
    flags,    \* flags[s]: the diagnosis flags of its submodule_state
    online,   \* is an AR in use?
    problem,  \* is the problem indicator given in its cyclic data?
    lost,     \* items that were listed in a subslot when it was plugged again
    hand,     \* hand[t]: the removal thread t is in
    clashed   \* did a thread change what the other had read outside the mutex?

dvars == <<item, spare, head, plugged, flags, online, problem, lost, hand, clashed>>

Main == "main"
Ethernet == "ethernet"
Agents == {Main, Ethernet}
Free == [at |-> "idle"]

Blank == [used |-> FALSE, next |-> Null, key |-> CHOOSE k \in Keys : TRUE, sev |-> "fault"]

DiagnosisInit ==
    /\ item = [x \in Items |-> [Blank EXCEPT !.next = IF x < NItems THEN x + 1 ELSE Null]]
    /\ spare = 1
    /\ head = [s \in Places |-> Null]
    /\ plugged = [s \in Places |-> FALSE]
    /\ flags = [s \in Places |-> {}]
    /\ online = FALSE /\ problem = FALSE
    /\ lost = {}
    /\ hand = [t \in Agents |-> Free] /\ clashed = FALSE

\* The list that starts with x: the items that are in every set which has x and
\* is closed under the links.
Listed(it, x) ==
    LET closed == {S \in SUBSET Items : /\ x \in S \cup {Null}
                                        /\ \A y \in S : it[y].next \in S \cup {Null}}
    IN  {y \in Items : \A S \in closed : y \in S}
Ends(it, x) == x = Null \/ \E y \in Listed(it, x) : it[y].next = Null

\* The memory a function works on.
Mem == [item |-> item, spare |-> spare, list |-> Null]
Keep(s, m, h) ==
    /\ item' = m.item /\ spare' = m.spare
    /\ head' = [head EXCEPT ![s] = h]

(***************************************************************************)
(* pf_diag_find_entry: the first item with the key is unlinked.            *)
(***************************************************************************)
WithKey(s, k) == {x \in Listed(item, head[s]) : item[x].key = k}
Found(s, k) == CHOOSE x \in WithKey(s, k) : WithKey(s, k) \subseteq Listed(item, x)

Mut_Unlinked(s, x) ==
    IF head[s] = x THEN [Mem EXCEPT !.list = item[x].next]
    ELSE [Mem EXCEPT !.list = item[head[s]].next]

\* The lists after x was taken out of that of subslot s.
Unlinked(s, x) ==
    IF head[s] = x THEN [Mem EXCEPT !.list = item[x].next]
    ELSE LET prev == CHOOSE y \in Listed(item, head[s]) : item[y].next = x
         IN  [Mem EXCEPT !.item[prev].next = item[x].next, !.list = head[s]]

\* pf_diag_update_submodule_state, pf_alarm_add_diag_item_to_summary
Mut_Flag(v) == IF v = "qualified" THEN "required" ELSE v
Flag(v) == IF v = "qualified" THEN "fault" ELSE v
Flags(it, x) == {Flag(it[y].sev) : y \in {y \in Listed(it, x) : it[y].used}}

\* pf_diag_update_station_problem_indicator: the items of one subslot
Problem(it, x) == \E y \in Listed(it, x) : it[y].used /\ it[y].sev = "fault"

\* The flags, and with an AR the indicator, after the list of s has become x.
Judged(s, it, x) ==
    /\ flags' = [flags EXCEPT ![s] = Flags(it, x)]
    /\ problem' = IF online THEN Problem(it, x) ELSE problem

(***************************************************************************)
(* pf_diag_add: the old item is used again, or else a spare one; it        *)
(* becomes the first of the list.                                          *)
(***************************************************************************)
Linked(m, x, k, v) ==
    [m EXCEPT !.item[x] = [used |-> TRUE, next |-> m.list, key |-> k, sev |-> v],
              !.list = x]

\* pf_cmdev_new_diag
Allocated(s) == [Mem EXCEPT !.spare = item[spare].next, !.list = head[s]]

Placed(s, m) == Keep(s, m, m.list) /\ Judged(s, m.item, m.list)

\* A thread that changes the flags of s has read the list before another
\* changes it; one that frees has read the free list.
Clash(t, s, frees) ==
    \E u \in Agents \ {t} : \/ hand[u].at = "read" /\ hand[u].s = s
                            \/ hand[u].at = "freeing" /\ frees
MainIdle == hand[Main] = Free

AddDiag(s, k, v) ==
    /\ MainIdle /\ plugged[s]
    /\ clashed' = (clashed \/ Clash(Main, s, WithKey(s, k) = {}))
    /\ IF WithKey(s, k) # {}
       THEN LET x == Found(s, k) IN Placed(s, Linked(Unlinked(s, x), x, k, v))
       ELSE /\ spare # Null
            /\ Placed(s, Linked(Allocated(s), spare, k, v))
    /\ UNCHANGED <<plugged, online, lost, hand>>

\* pf_diag_update: an item that is there becomes the first of the list; its
\* severity stays.
UpdateDiag(s, k) ==
    /\ MainIdle /\ plugged[s] /\ WithKey(s, k) # {}
    /\ LET x == Found(s, k) IN Placed(s, Linked(Unlinked(s, x), x, k, item[x].sev))
    /\ clashed' = (clashed \/ Clash(Main, s, FALSE))
    /\ UNCHANGED <<plugged, online, lost, hand>>

(***************************************************************************)
(* pf_diag_remove, by thread t: the item is unlinked under the mutex, the  *)
(* flags are read off the list that is left and given, and the item is put *)
(* first in the free list (pf_cmdev_free_diag).  What a free item still    *)
(* holds is never read: it is Blank, and so is an item that was lost.      *)
(***************************************************************************)
RemoveDiag(t, s, k) ==
    /\ hand[t] = Free
    /\ plugged[s] /\ WithKey(s, k) # {}
    /\ LET x == Found(s, k)
           u == Unlinked(s, x)
       IN  /\ item' = [u.item EXCEPT ![x] = [Blank EXCEPT !.used = TRUE]]
           /\ head' = [head EXCEPT ![s] = u.list]
           /\ hand' = [hand EXCEPT ![t] = [at |-> "unlinked", s |-> s, x |-> x]]
    /\ clashed' = (clashed \/ Clash(t, s, FALSE))
    /\ UNCHANGED <<spare, plugged, flags, online, problem, lost>>
ReadFlags(t) ==
    /\ hand[t].at = "unlinked"
    /\ hand' = [hand EXCEPT ![t] = [at |-> "read", s |-> @.s, x |-> @.x,
                                    flags |-> Flags(item, head[@.s])]]
    /\ UNCHANGED <<item, spare, head, plugged, flags, online, problem, lost, clashed>>
GiveFlags(t) ==
    /\ hand[t].at = "read"
    /\ flags' = [flags EXCEPT ![hand[t].s] = hand[t].flags]
    /\ item' = [item EXCEPT ![hand[t].x] = [Blank EXCEPT !.next = spare]]
    /\ hand' = [hand EXCEPT ![t] = [at |-> "freeing", s |-> @.s, x |-> @.x]]
    /\ clashed' = (clashed \/ Clash(t, hand[t].s, FALSE))
    /\ UNCHANGED <<spare, head, plugged, online, problem, lost>>
FreeItem(t) ==
    /\ hand[t].at = "freeing"
    /\ spare' = hand[t].x
    /\ problem' = IF online THEN Problem(item, head[hand[t].s]) ELSE problem
    /\ hand' = [hand EXCEPT ![t] = Free]
    /\ clashed' = (clashed \/ Clash(t, hand[t].s, TRUE))
    /\ UNCHANGED <<item, head, plugged, flags, online, lost>>

(***************************************************************************)
(* What happens around it.                                                 *)
(***************************************************************************)
\* pf_cmdev_pull_submodule leaves the list; pf_cmdev_new_subslot clears it.
Unplug(s) ==
    /\ MainIdle /\ plugged[s]
    /\ plugged' = [plugged EXCEPT ![s] = FALSE]
    /\ UNCHANGED <<item, spare, head, flags, online, problem, lost, hand, clashed>>
Replug(s) ==
    /\ MainIdle /\ ~plugged[s]
    /\ plugged' = [plugged EXCEPT ![s] = TRUE]
    /\ lost' = lost \cup Listed(item, head[s])
    /\ item' = [x \in Items |-> IF x \in Listed(item, head[s])
                                THEN [Blank EXCEPT !.used = TRUE] ELSE item[x]]
    /\ head' = [head EXCEPT ![s] = Null]
    /\ flags' = [flags EXCEPT ![s] = {}]
    /\ clashed' = (clashed \/ Clash(Main, s, FALSE))
    /\ UNCHANGED <<spare, online, problem, hand>>

\* A new connection has a provider whose data status says that there is no
\* problem (pf_ppm_activate_req); pf_ar_release ends it.
Online == /\ MainIdle /\ ~online /\ online' = TRUE /\ problem' = FALSE
          /\ UNCHANGED <<item, spare, head, plugged, flags, lost, hand, clashed>>
Offline == /\ MainIdle /\ online /\ online' = FALSE /\ problem' = FALSE
           /\ UNCHANGED <<item, spare, head, plugged, flags, lost, hand, clashed>>

\* After a clash the lists may be anything; a behaviour ends there.
DiagnosisNext ==
    /\ ~clashed
    /\ \/ \E s \in Places :
             \/ \E k \in Keys : \/ \E v \in Severities : AddDiag(s, k, v)
                               \/ UpdateDiag(s, k) \/ RemoveDiag(Main, s, k)
             \/ Unplug(s) \/ Replug(s)
       \/ \E s \in Ports, k \in Keys : RemoveDiag(Ethernet, s, k)
       \/ \E t \in Agents : ReadFlags(t) \/ GiveFlags(t) \/ FreeItem(t)
       \/ Online \/ Offline

DiagnosisSpec == DiagnosisInit /\ [][DiagnosisNext]_dvars

(***************************************************************************)
(* Properties                                                              *)
(***************************************************************************)
\* Through every order of unlinking, relinking and freeing, the lists end,
\* share no item, hold used items and the free list unused ones, and an item
\* is in one of them, about to be freed, or was lost with a pulled submodule;
\* unless the threads clashed (pf_diag_remove, pf_cmdev_free_diag).
Lists == {spare} \cup {head[s] : s \in Places}
InHand == {hand[t].x : t \in {t \in Agents : hand[t] # Free}}
ItemsKept ==
    ~clashed =>
        /\ \A x \in Lists : Ends(item, x)
        /\ \A x, y \in Lists : x # y => Listed(item, x) \cap Listed(item, y) = {}
        /\ \A s, t \in Places : s # t /\ head[s] = head[t] => head[s] = Null
        /\ Items = lost \cup InHand \cup UNION {Listed(item, x) : x \in Lists}
        /\ \A x \in Listed(item, spare) : ~item[x].used
        /\ \A s \in Places : \A x \in Listed(item, head[s]) :
              item[x].used /\ x \notin lost \cup InHand

\* A plugged submodule shows fault, maintenance demanded and maintenance
\* required exactly if its list has a diagnosis of that severity, and its list
\* has no diagnosis twice (pf_diag_find_entry); unless a removal is under way
\* or the threads clashed.
FlagsTrue ==
    \A s \in Places : plugged[s] /\ ~clashed =>
        /\ (\A t \in Agents : hand[t].at \in {"idle", "freeing"}) =>
              \A f \in {"fault", "demanded", "required"} :
                 f \in flags[s] <=> \E x \in Listed(item, head[s]) :
                                       item[x].sev = f \/ (f = "fault" /\ item[x].sev = "qualified")
        /\ \A x, y \in Listed(item, head[s]) : item[x].key = item[y].key => x = y
=============================================================================
