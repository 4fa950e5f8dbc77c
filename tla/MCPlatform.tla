------------------------------ MODULE MCPlatform ------------------------------
(***************************************************************************)
(* Small instances of Platform for TLC: one app, or two apps, each with    *)
(* its creator.                                                            *)
(***************************************************************************)
EXTENDS Platform

CONSTANTS a1, a2, u1, u2

OneApp == {a1}
TwoApps == {a1, a2}
MCCreators == {u1, u2}
SharedOwner == [a \in TwoApps |-> u1]
OneOwner == [a \in OneApp |-> u1]
TwoOwners == [a \in TwoApps |-> IF a = a1 THEN u1 ELSE u2]

=============================================================================
