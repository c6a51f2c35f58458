------------------------------ MODULE FeedStore ------------------------------
(***************************************************************************)
(* What the tables of feeds promise to their readers, told without         *)
(* transactions, locks and timestamps: podcast, podcast_feed_location,     *)
(* podcast_feed_content, episode and podcast_exception change as if one    *)
(* retrieval happened at a time, each completely or not at all.  Contents  *)
(* are discarded at any time, but never all of a podcast's.                *)
(*                                                                         *)
(* A podcast comes into being with a URL that nobody has, and a URL is one *)
(* podcast's for ever.  What is published last is the newest content, and  *)
(* it overwrites every episode it has.                                     *)
(***************************************************************************)
CONSTANTS
    Podcasts,    \* ids of podcasts
    Urls,        \* feed URLs
    SecureUrl,   \* function from the http URLs to their https twins
    HostOf,      \* function from URLs to their hosts
    Whitelisted, \* hosts that serve https anyway
    Bodies,      \* feed contents
    Guids,       \* guids of episodes
    GuidsOf,     \* function from bodies to the guids of their valid items
    None         \* no body

VARIABLES
    urls,        \* [Podcasts -> set of its URLs]
    title,       \* [Podcasts -> body its row was last written from, or None]
    newest,      \* [Podcasts -> newest of its contents, or None]
    contents,    \* [Podcasts -> set of its contents]
    processed,   \* [Podcasts -> set of bodies ever published]
    episode,     \* [Podcasts -> [Guids -> body it was last written from or None]]
    failed       \* podcasts that have an exception

storeVars == <<urls, title, newest, contents, processed, episode, failed>>

StoreInit ==
    /\ urls = [p \in Podcasts |-> {}]
    /\ title = [p \in Podcasts |-> None]
    /\ newest = [p \in Podcasts |-> None]
    /\ contents = [p \in Podcasts |-> {}]
    /\ processed = [p \in Podcasts |-> {}]
    /\ episode = [p \in Podcasts |-> [g \in Guids |-> None]]
    /\ failed = {}

(* The feed at the URL was read: a podcast's own, or a new one's first. *)
Attach(p, u) ==
    /\ IF title[p] # None THEN u \in urls[p] ELSE \A q \in Podcasts : u \notin urls[q]
    /\ urls' = [urls EXCEPT ![p] = @ \cup {u}]

(* A retrieval of the podcast has read the body, and stores all of it. *)
Publish(p, u, b) ==
    /\ Attach(p, u)
    /\ title' = [title EXCEPT ![p] = b]
    /\ newest' = [newest EXCEPT ![p] = b]
    /\ contents' = [contents EXCEPT ![p] = @ \cup {b}]
    /\ processed' = [processed EXCEPT ![p] = @ \cup {b}]
    /\ episode' = [episode EXCEPT ![p] =
          [g \in Guids |-> IF g \in GuidsOf[b] THEN b ELSE episode[p][g]]]
    /\ failed' = failed \ {p}

(* A retrieval has read a body that was published before.  Its content may *)
(* have been discarded since the retrieval looked.                         *)
Recognize(p, u, b) ==
    /\ title[p] # None
    /\ b \in processed[p]
    /\ Attach(p, u)
    /\ title' = [title EXCEPT ![p] = b]
    /\ UNCHANGED <<newest, contents, processed, episode, failed>>

(* A retrieval of the podcast has failed. *)
RetrieveFails(p) ==
    /\ title[p] # None
    /\ failed' = failed \cup {p}
    /\ UNCHANGED <<urls, title, newest, contents, processed, episode>>

(* Contents are discarded, of any podcasts at once.  The newest stays or,  *)
(* if it goes as well, one of those that are left takes its place.         *)
Discard ==
    /\ contents' \in [Podcasts -> SUBSET Bodies]
    /\ newest' \in [Podcasts -> Bodies \cup {None}]
    /\ \A p \in Podcasts :
          /\ contents'[p] \subseteq contents[p]
          /\ IF newest[p] \in contents'[p] \cup {None} THEN newest'[p] = newest[p]
             ELSE newest'[p] \in contents'[p]
    /\ UNCHANGED <<urls, title, processed, episode, failed>>

(* Every podcast gets the https twins of its URLs on hosts that serve      *)
(* https, unless another podcast has one of them.                          *)
SecureHosts ==
    {HostOf[u] : u \in (UNION {urls[p] : p \in Podcasts}) \ DOMAIN SecureUrl}
Twins(p) ==
    {SecureUrl[u] : u \in {v \in urls[p] \cap DOMAIN SecureUrl :
                              HostOf[v] \in Whitelisted \cup SecureHosts}}

AddTwins ==
    /\ \A p, q \in Podcasts : p # q => Twins(p) \cap urls[q] = {}
    /\ urls' = [p \in Podcasts |-> urls[p] \cup Twins(p)]
    /\ UNCHANGED <<title, newest, contents, processed, episode, failed>>

StoreNext ==
    \/ \E p \in Podcasts, u \in Urls, b \in Bodies : Publish(p, u, b) \/ Recognize(p, u, b)
    \/ \E p \in Podcasts : RetrieveFails(p)
    \/ Discard
    \/ AddTwins

StoreSpec == StoreInit /\ [][StoreNext]_storeVars
=============================================================================
