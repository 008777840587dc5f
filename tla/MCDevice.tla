----------------------------- MODULE MCDevice ------------------------------
(***************************************************************************)
(* What a device tells of itself, and how: its modules, two slots with a   *)
(* subslot each of which the controller expects both; the diagnosis lists  *)
(* of two subslots; the check of the peer at a port; the frames of long    *)
(* requests and answers.  A behaviour of this instance moves one of the    *)
(* four while the others are as they were created.                         *)
(***************************************************************************)
EXTENDS Plug, Diagnosis, Peers, Fragments

MCRequests ==
    {<<[slot |-> 1, ident |-> "x", subs |-> <<[sub |-> 1, ident |-> "x"]>>],
       [slot |-> 2, ident |-> "x", subs |-> <<[sub |-> 1, ident |-> "x"]>>]>>}
MCFaulty == {<<1, 1>>}

MCPlaces == {"s", "t"}
MCKeys == {"k", "l"}
MCSeverities == {"fault", "demanded", "qualified"}

\* Two stations, the name of one the beginning of the other's, and one
\* without a name.
MCInfos ==
    {[station |-> "a", port |-> "p", long |-> FALSE],
     [station |-> Nameless, port |-> "p", long |-> FALSE],
     [station |-> "ab", port |-> "q", long |-> TRUE]}
MCWanted == {[station |-> "ab", port |-> "q"], [station |-> "a", port |-> "p"]}
MCBegins == {<<x, x>> : x \in {"a", "ab", "p", "q"}} \cup {<<"a", "ab">>}

\* Requests of one fragment up to more than the buffer takes, answers of one
\* frame and of two, and a Read Implicit.
MCCall(frags, size, once) == [frags |-> frags, size |-> size, once |-> once]
MCCalls == {MCCall(2, 5, FALSE), MCCall(3, 1, FALSE), MCCall(4, 1, FALSE), MCCall(1, 4, TRUE)}

\* Of the sessions a device may have, the one without an AR.
NoMessages == FragmentsInit /\ sess = Nil
DeviceInit == PlugInit /\ DiagnosisInit /\ PeersInit /\ FragmentsInit
DeviceNext ==
    \/ DiagnosisInit /\ PeersInit /\ NoMessages /\ PlugNext /\ UNCHANGED <<dvars, peervars, fvars>>
    \/ PlugInit /\ PeersInit /\ NoMessages /\ DiagnosisNext /\ UNCHANGED <<pvars, peervars, fvars>>
    \/ PlugInit /\ DiagnosisInit /\ NoMessages /\ PeersNext /\ UNCHANGED <<pvars, dvars, fvars>>
    \/ PlugInit /\ DiagnosisInit /\ PeersInit /\ FragmentsNext /\ UNCHANGED <<pvars, dvars, peervars>>
DeviceSpec == DeviceInit /\ [][DeviceNext]_<<pvars, dvars, peervars, fvars>>
=============================================================================
