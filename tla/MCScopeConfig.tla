--------------------------- MODULE MCScopeConfig ---------------------------
(* The constants of ScopeConfig on small instances.                           *)
EXTENDS ScopeConfig

Sig(id, pattern) == [id |-> id, pattern |-> pattern]

MCCommunity == {Sig("k1", "p1")}

\* One of its ids is a bundled one, which it may not replace.
MCPremium == <<Sig("k1", "p2"), Sig("m1", "p1")>>
NoPremium == <<>>

\* Authors use two ids of their own, one of them with two patterns, and one that a
\* premium signature has.
MCSignatures == {Sig("c1", "p1"), Sig("c1", "p2"), Sig("c2", "p1"), Sig("m1", "p3")}

MCBadSignature == Sig("c9", "backtracks")
=============================================================================
