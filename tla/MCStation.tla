----------------------------- MODULE MCStation -----------------------------
(***************************************************************************)
(* Two names and two addresses, of which one each is the configured one,   *)
(* and one I&M record; one DCP block in a frame, two changes, one power    *)
(* failure and one file that cannot be written.                            *)
(***************************************************************************)
EXTENDS Station

MCNames == {"a", "b"}
MCAddrs == {"x", "y"}
MCImValues == {"v"}
=============================================================================
