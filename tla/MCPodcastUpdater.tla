-------------------------- MODULE MCPodcastUpdater --------------------------
(***************************************************************************)
(* PodcastUpdater on small instances: a feed with one URL, or with an http *)
(* and an https one and another feed of the same host, and contents of     *)
(* which one has an episode more than the other.                           *)
(***************************************************************************)
EXTENDS PodcastUpdater, TLC

CONSTANTS http, https, other, host, b1, b2, g1, g2

MCSecureUrl == http :> https
MCNoSecureUrl == <<>>
MCHostOf == [u \in Urls |-> host]
MCGuidsOf == b1 :> {g1} @@ b2 :> {g1, g2}

(* Callers are not told apart by any action. *)
Symmetry == Permutations(Callers)
=============================================================================
