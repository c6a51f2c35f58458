-------------------------- MODULE MCPodcastCrawler --------------------------
(* Two podcasts with up to two contents, pages of two rows, a channel of   *)
(* one, a worker and the control thread on two connections.                *)
EXTENDS PodcastCrawler

MCPodcasts == 1..2
=============================================================================
