---------------------------- MODULE MCConnection ----------------------------
(***************************************************************************)
(* Two controllers, each with an AR and an activity of its own, and a      *)
(* supervisor that reads implicitly on a third activity; or, in the        *)
(* instances that say so, activities used for whatever comes.              *)
(***************************************************************************)
EXTENDS Connection, TLC

CONSTANTS a1, a2, a3, u1, u2, c1, c2, q1, q2

MCUuids == {u1, u2}
MCActivities == {a1, a2, a3}
MCUses == {<<a1, u1>>, <<a2, u2>>}
MCImplicit == {a3}

MCOneUse == {<<a1, u1>>}
MCAnyActivities == {a1, a2}
MCAnyUses == MCAnyActivities \X MCUuids

\* Where every request may come on every activity, neither the activities nor
\* the AR UUIDs can be told apart.
MCSymmetry == Permutations(MCAnyActivities) \cup Permutations(MCUuids)
=============================================================================
