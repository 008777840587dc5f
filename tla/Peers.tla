------------------------------- MODULE Peers -------------------------------
(***************************************************************************)
(* The neighbour at a port: the LLDP frames of the peer (pf_lldp.c), the   *)
(* timer that notices its silence, and the check of the peer that a        *)
(* controller orders (pf_pdport.c), whose result is a diagnosis.           *)
(*                                                                         *)
(* The Ethernet thread takes LLDP frames and the DCP reset; the main       *)
(* thread has the timers, the link monitor, the periodic check and the     *)
(* records of a controller; the worker saves.  They meet in a flag that    *)
(* says that there is something to check.                                  *)
(*                                                                         *)
(* There is one port.  Its submodule is plugged and diagnosis items are    *)
(* left: Diagnosis models what happens if not.  Sending LLDP is left out.  *)
(***************************************************************************)
EXTENDS Naturals, Sequences

CONSTANTS
    Infos,       \* what LLDP frames say of the peer
    Wanted,      \* the peers a controller expects
    Begins,      \* <<a, b>> \in Begins: name b begins with name a
    Nameless,    \* a peer that does not say its name
    NoCheck,     \* no check is active
    MaxStrays    \* bound: timers that no handle names

\* `long': a time to live for which no timer is started
NoInfo == [station |-> Nameless, port |-> Nameless, long |-> FALSE]

ASSUME PeersAssumption ==
    /\ \A i \in Infos : i.long \in BOOLEAN /\ i.port # Nameless
    /\ \A w \in Wanted : w.station # Nameless /\ w.port # Nameless
    /\ NoCheck \notin Wanted
    /\ MaxStrays \in Nat

VARIABLES
    check,     \* pdport.check: the wanted peer
    updated,   \* pdport.lldp_peer_info_updated
    info,      \* lldp.peer_info
    rx,        \* lldp.rx_timeout and the timers started with it
    eth,       \* where the Ethernet thread is in a frame
    main,      \* where the main thread is
    diag,      \* the peer diagnoses of the port
    link,      \* netif.previous_is_link_up
    file,      \* the saved pdport data
    crossed    \* did a DCP reset meet the main thread in a check?

peervars == <<check, updated, info, rx, eth, main, diag, link, file, crossed>>

Received == info # NoInfo

\* pf_pdport_load: a saved check starts a timer that expires at once.
BootTimer(c) == [known |-> IF c = NoCheck THEN "none" ELSE "boot", strays |-> 0]
AtRest == [at |-> "idle"]
MainAtRest == [at |-> "idle", todo |-> <<>>, saw |-> NoInfo]

PeersInit ==
    /\ check = NoCheck /\ file = NoCheck
    /\ updated = FALSE /\ info = NoInfo
    /\ rx = BootTimer(NoCheck)
    /\ eth = AtRest /\ main = MainAtRest
    /\ diag = {} /\ link = FALSE
    /\ crossed = FALSE

\* Power fails.
PowerCycle ==
    /\ check' = file /\ UNCHANGED file
    /\ updated' = FALSE /\ info' = NoInfo
    /\ rx' = BootTimer(file)
    /\ eth' = AtRest /\ main' = MainAtRest
    /\ diag' = {} /\ link' = FALSE
    /\ crossed' = FALSE

\* pf_pdport_save; how a file is written is Station's matter.
Save ==
    /\ file # check /\ file' = check
    /\ UNCHANGED <<check, updated, info, rx, eth, main, diag, link, crossed>>

(***************************************************************************)
(* The Ethernet thread: pf_lldp_update_peer.                               *)
(***************************************************************************)
\* pf_lldp_restart_peer_timeout
Restarted(long) == [rx EXCEPT !.known = IF long THEN "none" ELSE "live"]

Frame(i) ==
    /\ eth.at = "idle"
    /\ rx.strays < MaxStrays
    /\ rx' = Restarted(i.long)
    /\ eth' = [at |-> "frame", info |-> i]
    /\ UNCHANGED <<check, updated, info, main, diag, link, file, crossed>>
Store ==
    /\ eth.at = "frame"
    /\ IF eth.info = info
       THEN eth' = AtRest /\ UNCHANGED info
       ELSE eth' = [at |-> "stored"] /\ info' = eth.info
    /\ UNCHANGED <<check, updated, rx, main, diag, link, file, crossed>>
\* pf_pdport_peer_indication
Indicate ==
    /\ eth.at = "stored"
    /\ updated' = TRUE /\ eth' = AtRest
    /\ UNCHANGED <<check, info, rx, main, diag, link, file, crossed>>

\* pf_pdport_reset_all, by a DCP reset: the data first, then the diagnoses.
\* Nothing keeps the main thread from checking meanwhile.
Met == main.at = "check" \/ main.todo # <<>>
DcpReset ==
    /\ eth.at = "idle"
    /\ check' = NoCheck /\ updated' = FALSE
    /\ eth' = [at |-> "reset"]
    /\ crossed' = (crossed \/ Met)
    /\ UNCHANGED <<info, rx, main, diag, link, file>>
DcpRemoveDiag ==
    /\ eth.at = "reset"
    /\ diag' = {} /\ eth' = AtRest
    /\ crossed' = (crossed \/ Met)
    /\ UNCHANGED <<check, updated, info, rx, main, link, file>>

(***************************************************************************)
(* The main thread.                                                        *)
(***************************************************************************)
Idle == main.at = "idle"

\* A timer expires (pf_scheduler_tick): the one the handle names, or a stray.
Fire ==
    /\ Idle /\ main' = [main EXCEPT !.at = "fired"]
    /\ \/ rx.known \in {"boot", "live"} /\ rx' = [rx EXCEPT !.known = "stale"]
       \/ rx.strays > 0 /\ rx' = [rx EXCEPT !.strays = @ - 1]
    /\ UNCHANGED <<check, updated, info, eth, diag, link, file, crossed>>
\* pf_lldp_receive_timeout: the handle is reset, even if the Ethernet thread
\* has started another timer.
ResetHandle ==
    /\ main.at = "fired" /\ main' = [main EXCEPT !.at = "lost"]
    /\ rx' = [known |-> "none", strays |-> rx.strays + (IF rx.known = "live" THEN 1 ELSE 0)]
    /\ UNCHANGED <<check, updated, info, eth, diag, link, file, crossed>>

\* pf_pdport_monitor_link
LinkDown ==
    /\ Idle /\ link /\ link' = FALSE
    /\ main' = [main EXCEPT !.at = "lost"]
    /\ rx' = [rx EXCEPT !.known = "none"]
    /\ UNCHANGED <<check, updated, info, eth, diag, file, crossed>>
LinkUp ==
    /\ Idle /\ ~link /\ link' = TRUE
    /\ UNCHANGED <<check, updated, info, rx, eth, main, diag, file, crossed>>

\* Of both: pf_lldp_invalidate_peer_info, pf_pdport_peer_indication
Invalidate ==
    /\ main.at = "lost" /\ main' = [main EXCEPT !.at = "tell"]
    /\ info' = NoInfo
    /\ UNCHANGED <<check, updated, rx, eth, diag, link, file, crossed>>
Tell ==
    /\ main.at = "tell" /\ main' = MainAtRest
    /\ updated' = TRUE
    /\ UNCHANGED <<check, info, rx, eth, diag, link, file, crossed>>

\* pf_pdport_periodic: the flag is cleared before the check.
Periodic ==
    /\ Idle /\ updated /\ updated' = FALSE
    /\ main' = [main EXCEPT !.at = "check"]
    /\ UNCHANGED <<check, info, rx, eth, diag, link, file, crossed>>

\* pf_pdport_run_peer_check
Checks == <<"no peer", "port", "station">>
RunCheck ==
    /\ main.at = "check"
    /\ main' = [main EXCEPT !.at = IF check = NoCheck THEN "idle" ELSE "look",
                            !.todo = IF check = NoCheck THEN <<>> ELSE Checks]
    /\ UNCHANGED <<check, updated, info, rx, eth, diag, link, file, crossed>>
\* Each check takes what is known of the peer under the mutex of LLDP, and
\* sets or removes its diagnosis after that.
Look ==
    /\ main.at = "look"
    /\ main' = [main EXCEPT !.at = "judge", !.saw = info]
    /\ UNCHANGED <<check, updated, info, rx, eth, diag, link, file, crossed>>

\* The names are compared up to the end of one of them: of the peer's for the
\* station, of the wanted one for the port.  A DCP reset has cleared them.
RightStation(i, w) == w # NoCheck /\ <<i.station, w.station>> \in Begins
RightPort(i, w) == w = NoCheck \/ <<w.port, i.port>> \in Begins

Verdict(c, i, w) ==
    CASE c = "no peer" -> (IF i = NoInfo THEN diag \cup {c} ELSE diag \ {c})
      [] c = "port" -> (IF i.port = Nameless THEN diag
                        ELSE IF RightPort(i, w) THEN diag \ {c} ELSE diag \cup {c})
      [] OTHER -> (IF i.station = Nameless THEN diag
                   ELSE IF RightStation(i, w) THEN diag \ {c} ELSE diag \cup {c})
Mut_Judge ==
    /\ main.at = "judge"
    /\ diag' = Verdict(Head(main.todo), main.saw, check)
    /\ IF Len(main.todo) = 1 THEN main' = MainAtRest /\ updated' = FALSE
       ELSE main' = [main EXCEPT !.at = "look", !.todo = Tail(@)] /\ UNCHANGED updated
    /\ UNCHANGED <<check, info, rx, eth, link, file, crossed>>

Judge ==
    /\ main.at = "judge"
    /\ diag' = Verdict(Head(main.todo), main.saw, check)
    /\ main' = IF Len(main.todo) = 1 THEN MainAtRest
               ELSE [main EXCEPT !.at = "look", !.todo = Tail(@)]
    /\ UNCHANGED <<check, updated, info, rx, eth, link, file, crossed>>

\* pf_pdport_write_data_check: a controller orders a check; it is run at once.
WriteCheck(w) ==
    /\ Idle /\ check' = w
    /\ main' = [main EXCEPT !.at = "check"]
    /\ crossed' = (crossed \/ eth.at = "reset")
    /\ UNCHANGED <<updated, info, rx, eth, diag, link, file>>
\* pf_cmdev_reset_observers: a Connect ends the check of the one before.
ConnectReset ==
    /\ Idle /\ check' = NoCheck /\ updated' = FALSE
    /\ main' = [main EXCEPT !.at = "reset"]
    /\ UNCHANGED <<info, rx, eth, diag, link, file, crossed>>
ConnectRemoveDiag ==
    /\ main.at = "reset" /\ main' = MainAtRest
    /\ diag' = {}
    /\ UNCHANGED <<check, updated, info, rx, eth, link, file, crossed>>

PeersNext ==
    \/ PowerCycle \/ Save
    \/ \E i \in Infos : Frame(i)
    \/ Store \/ Indicate \/ DcpReset \/ DcpRemoveDiag
    \/ Fire \/ ResetHandle \/ LinkDown \/ LinkUp \/ Invalidate \/ Tell
    \/ Periodic \/ RunCheck \/ Look \/ Judge
    \/ \E w \in Wanted : WriteCheck(w)
    \/ ConnectReset \/ ConnectRemoveDiag

PeersSpec == PeersInit /\ [][PeersNext]_peervars

(***************************************************************************)
(* Properties                                                              *)
(***************************************************************************)
\* When nothing is left to do.
Quiet == Idle /\ eth.at = "idle" /\ ~updated /\ rx.known # "boot"

\* The diagnosis of the port says what the last frame, or the silence, of the
\* peer means for the check that was ordered last, however frames, timeouts,
\* link changes, checks and restarts meet; unless a DCP reset came between
\* (pf_pdport_periodic, pf_lldp_update_peer, pf_pdport_run_peer_check).
PeerDiagnosed ==
    Quiet /\ ~crossed =>
        IF check = NoCheck THEN diag = {}
        ELSE /\ "no peer" \in diag <=> ~Received
             /\ Received => ("port" \in diag <=> ~RightPort(info, check))
             /\ Received /\ info.station # Nameless
                   => ("station" \in diag <=> ~RightStation(info, check))
=============================================================================
