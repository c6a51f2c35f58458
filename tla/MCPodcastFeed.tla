--------------------------- MODULE MCPodcastFeed ----------------------------
(***************************************************************************)
(* PodcastFeed, and with it HttpRequester, for TLC: two URLs that redirect *)
(* to each other or to themselves, documents of up to two items.           *)
(***************************************************************************)
EXTENDS PodcastFeed
=============================================================================
