-------------------------- MODULE MCAdministration --------------------------
(***************************************************************************)
(* Two replicas, three accounts in all, and two requests at a time: one    *)
(* administers, the other changes who may.                                 *)
(***************************************************************************)
EXTENDS Administration, TLC

CONSTANTS c1, c2, v1, v2, i1, i2, i3, ann, bob, india, europe

MCClients == {c1, c2}
MCServers == {v1, v2}
MCIds == {i1, i2, i3}
MCNames == {"admin", ann, bob}
MCRegions == {india, europe}
MCOperations == c1 :> {"hide", "delete", "act"}
             @@ c2 :> {"signup", "onboard", "profile", "promote", "demote", "region", "cli"}

\* What comes after a boot without its index, or after a second owner, is
\* checked one state deep; what comes after a failed bootstrap, until some later
\* boot has made the owner.
Followed == lapses = {} \/ (lapses = {"bootstrap"} /\ Owners = {})

Renaming == Permutations(Servers) \cup Permutations(Ids)
            \cup Permutations({ann, bob}) \cup Permutations(Regions)
=============================================================================
