----------------------------- MODULE MCAccounts -----------------------------
(***************************************************************************)
(* Two requests at a time, two sessions in all.                          *)
(***************************************************************************)
EXTENDS Accounts, TLC

CONSTANTS c1, c2, s1, s2

MCClients == {c1, c2}
OneClient == {c1}
MCSessions == {s1, s2}
OneSession == {s1}

Renaming == Permutations(Clients) \cup Permutations(SessionIds)
==============================================================================
