---------------------------- MODULE PodcastFeed -----------------------------
(***************************************************************************)
(* What podcast_updater.rs makes of the answer of a feed's host:           *)
(* fetch_feed, which uses the requester of HttpRequester, the parser       *)
(* parse_feed, a function per element that reads events until its end, and *)
(* convert_podcast and convert_episodes.                                   *)
(*                                                                         *)
(* The document is whatever the host sends: the elements that are open are *)
(* the reader's, the functions that have been called are the parser's, and *)
(* the two need not agree, as each function takes the next end it sees for *)
(* that of its element.  An element that a function does not know is       *)
(* skipped with all it contains, and so is no event here; one that holds a *)
(* text is read to its end.  Of an item's fields, title stands for         *)
(* media_url as well, which is required like it, and optional fields are   *)
(* left out.  A date is one that parse_date_time can make sense of or not. *)
(***************************************************************************)
EXTENDS HttpRequester, SequencesExt

CONSTANTS
    Guids,
    MaxItems,  \* bound: items of a document
    MaxDepth   \* bound: elements that are open at once

ASSUME BoundsAssumption == MaxItems \in Nat /\ MaxDepth \in Nat
ASSUME NoGuidAssumption == None \notin Guids /\ None \notin {"good", "bad"}

Item == [guid : Guids \cup {None}, published_at : {"good", "bad", None}, title : BOOLEAN]
NewItem == [guid |-> None, published_at |-> None, title |-> FALSE]

VARIABLES
    mode,        \* "idle", "fetch", "parse", "convert", "done" or "failed"
    open,        \* elements of the document that are open
    calls,       \* functions of the parser that have been called
    channel,     \* what parse_rss has got: a channel or not
    title,       \* whether the raw podcast has a title
    item,        \* the raw episode that is being read
    raws,        \* raw episodes of the channel
    episodes,    \* converted episodes
    \* history
    malformed,   \* whether the reader has reported an error
    broken,      \* whether the host or the document is to blame for more
    closed,      \* whether a channel of the document has ended
    doc          \* items of the first channel of the document

documentVars == <<open, malformed, broken, closed, doc>>
parserVars == <<calls, channel, title, item, raws, episodes>>
feedVars == <<mode, documentVars, parserVars>>

NoDocument ==
    /\ open = <<>> /\ doc = <<>>
    /\ malformed = FALSE /\ broken = FALSE /\ closed = FALSE
    /\ calls = <<>> /\ channel = FALSE /\ title = FALSE
    /\ item = NewItem /\ raws = <<>> /\ episodes = <<>>

FeedInit == Init /\ mode = "idle" /\ NoDocument

(* What is left of an earlier feed is forgotten. *)
Forget ==
    /\ open' = <<>> /\ doc' = <<>>
    /\ malformed' = FALSE /\ broken' = FALSE /\ closed' = FALSE
    /\ calls' = <<>> /\ channel' = FALSE /\ title' = FALSE
    /\ item' = NewItem /\ raws' = <<>> /\ episodes' = <<>>

-----------------------------------------------------------------------------
(***************************************************************************)
(* fetch_feed.                                                             *)
(***************************************************************************)
FetchFeed(url) ==
    /\ mode \in {"idle", "done", "failed"}
    /\ mode' = "fetch"
    /\ Execute(url)
    /\ Forget

(* The requester is dropped with its result. *)
RequesterReturns ==
    /\ mode = "fetch"
    /\ phase \in {"done", "failed"}
    /\ phase' = "idle" /\ depth' = 0 /\ frames' = EmptyFrames
    /\ status' = None /\ uri' = None /\ last' = None

FetchSucceeds ==
    /\ RequesterReturns
    /\ phase = "done" /\ status = "ok"
    /\ mode' = "parse"
    /\ calls' = <<"parse_feed">>
    /\ UNCHANGED <<documentVars, channel, title, item, raws, episodes>>

FetchFails ==
    /\ RequesterReturns
    /\ ~(phase = "done" /\ status = "ok")
    /\ mode' = "failed"
    /\ broken' = TRUE
    /\ UNCHANGED <<open, malformed, closed, doc, parserVars>>

-----------------------------------------------------------------------------
(***************************************************************************)
(* The parser.  Running(f): the event goes to function f.                  *)
(***************************************************************************)
Running(f) ==
    /\ mode = "parse"
    /\ Last(calls) = f
    /\ UNCHANGED vars

FeedFails ==
    /\ mode' = "failed"
    /\ UNCHANGED parserVars

Starts(element) ==
    /\ Len(open) < MaxDepth
    /\ open' = Append(open, element)
    /\ UNCHANGED <<malformed, broken, closed, doc>>

StartRss ==
    /\ Running("parse_feed")
    /\ Starts("rss")
    /\ calls' = Append(calls, "parse_rss")
    /\ UNCHANGED <<mode, channel, title, item, raws, episodes>>

(* A second channel is not skipped: its elements come to parse_rss.        *)
TakesChannel_Always == TRUE
TakesChannel == ~channel

StartChannel ==
    /\ Running("parse_rss")
    /\ Starts("channel")
    /\ IF TakesChannel
       THEN /\ calls' = Append(calls, "parse_channel")
            /\ title' = FALSE
            /\ raws' = <<>>
       ELSE UNCHANGED <<calls, title, raws>>
    /\ UNCHANGED <<mode, channel, item, episodes>>

ReadTitle ==
    /\ Running("parse_channel")
    /\ title' = TRUE
    /\ UNCHANGED <<mode, documentVars, calls, channel, item, raws, episodes>>

StartItem ==
    /\ Running("parse_channel")
    /\ Len(raws) < MaxItems
    /\ Starts("item")
    /\ calls' = Append(calls, "parse_item")
    /\ item' = NewItem
    /\ UNCHANGED <<mode, channel, title, raws, episodes>>

ReadField ==
    /\ Running("parse_item")
    /\ \/ \E guid \in Guids : item' = [item EXCEPT !.guid = guid]
       \/ \E date \in {"good", "bad"} : item' = [item EXCEPT !.published_at = date]
       \/ item' = [item EXCEPT !.title = TRUE]
    /\ UNCHANGED <<mode, documentVars, calls, channel, title, raws, episodes>>

(* element_text finds no content, or something it cannot read. *)
ReadFails ==
    /\ Running("parse_channel") \/ Running("parse_item")
    /\ broken' = TRUE
    /\ FeedFails
    /\ UNCHANGED <<open, malformed, closed, doc>>

(* The document as it really is, as long as no error has been reported. *)
Ended(closing) ==
    /\ open' = Front(open)
    /\ closed' = (closed \/ Last(closing) = "channel")
    /\ doc' = IF closing = <<"rss", "channel", "item">> /\ ~closed /\ ~malformed
              THEN Append(doc, item) ELSE doc
    /\ UNCHANGED malformed

EndItem ==
    /\ Running("parse_item")
    /\ open # <<>> /\ Ended(open)
    /\ raws' = Append(raws, item)
    /\ item' = NewItem
    /\ calls' = Front(calls)
    /\ UNCHANGED <<mode, channel, title, episodes, broken>>

EndChannel ==
    /\ Running("parse_channel")
    /\ open # <<>> /\ Ended(open)
    /\ channel' = TRUE
    /\ calls' = Front(calls)
    /\ UNCHANGED <<mode, title, item, raws, episodes, broken>>

(* The end of rss, or of the channel that was not skipped. *)
EndRss ==
    /\ Running("parse_rss")
    /\ open # <<>> /\ Ended(open)
    /\ mode' = IF channel THEN "convert" ELSE "failed"
    /\ broken' = ~channel
    /\ UNCHANGED parserVars

(* The document ends here, and no function takes that for the end of its   *)
(* element.                                                                *)
EofAccepted_AsEnd == Last(calls) # "parse_feed" /\ (channel \/ Last(calls) # "parse_rss")
EofAccepted == FALSE

Eof ==
    /\ mode = "parse"
    /\ mode' = IF EofAccepted THEN "convert" ELSE "failed"
    /\ broken' = TRUE
    /\ UNCHANGED <<vars, open, malformed, closed, doc, parserVars>>

(* The reader reports an error, such as an end that does not match, and    *)
(* may have taken it for the end of an element.  The loops pass over it.   *)
Malformed ==
    /\ mode = "parse"
    /\ malformed' = TRUE
    /\ \/ UNCHANGED <<open, closed>>
       \/ /\ open # <<>>
          /\ open' = Front(open)
          /\ closed' = (closed \/ Last(open) = "channel")
    /\ doc' = <<>>
    /\ UNCHANGED <<vars, mode, broken, parserVars>>

Parse ==
    \/ StartRss \/ StartChannel \/ ReadTitle \/ StartItem \/ ReadField \/ ReadFails
    \/ EndItem \/ EndChannel \/ EndRss \/ Eof \/ Malformed

-----------------------------------------------------------------------------
(***************************************************************************)
(* convert_podcast, validate_episode and convert_episodes.                 *)
(***************************************************************************)
Complete(raw) == raw.guid # None /\ raw.published_at # None /\ raw.title

(* The date is parsed only once nothing is missing. *)
Unparsable_EvenIncomplete(raw) == raw.published_at # "good"
Unparsable(raw) == Complete(raw) /\ raw.published_at = "bad"

GuidsOf(seq) == {raw.guid : raw \in Range(seq)}

(* What has been kept, after raw. *)
KeepFirst_EvenIncomplete(kept, raw) ==
    IF raw.guid \in GuidsOf(kept) THEN kept ELSE Append(kept, raw)
KeepFirst(kept, raw) ==
    IF ~Complete(raw) \/ raw.guid \in GuidsOf(kept) THEN kept ELSE Append(kept, raw)

(* What has been kept of the first n of them. *)
Kept[n \in 0..Len(raws)] == IF n = 0 THEN <<>> ELSE KeepFirst(Kept[n - 1], raws[n])

Convert ==
    /\ mode = "convert"
    /\ IF title /\ \A raw \in Range(raws) : ~Unparsable(raw)
       THEN mode' = "done" /\ episodes' = Kept[Len(raws)]
       ELSE mode' = "failed" /\ UNCHANGED episodes
    /\ UNCHANGED <<vars, documentVars, calls, channel, title, item, raws>>

FeedNext ==
    \/ \E url \in Urls : FetchFeed(url)
    \/ mode = "fetch" /\ Step /\ UNCHANGED feedVars
    \/ FetchSucceeds \/ FetchFails
    \/ Parse
    \/ Convert

(* A call of the requester that has begun goes on. *)
FeedSpec ==
    /\ FeedInit /\ [][FeedNext]_<<vars, feedVars>>
    /\ WF_<<vars, feedVars>>(mode = "fetch" /\ Step /\ UNCHANGED feedVars)

-----------------------------------------------------------------------------
FeedTypeOK ==
    /\ TypeOK
    /\ mode \in {"idle", "fetch", "parse", "convert", "done", "failed"}
    /\ open \in Seq({"rss", "channel", "item"})
    /\ calls \in Seq({"parse_feed", "parse_rss", "parse_channel", "parse_item"})
    /\ {channel, title, malformed, broken, closed} \subseteq BOOLEAN
    /\ item \in Item
    /\ raws \in Seq(Item) /\ episodes \in Seq(Item) /\ doc \in Seq(Item)

(* A document that is cut off before its channel has ended is refused,     *)
(* however its ends match: episodes that were to follow are not missed.    *)
TruncatedRefused == mode \in {"convert", "done"} => closed

(* Of a document that the reader finds nothing wrong with, exactly the     *)
(* items of the first channel are read, each with its own fields.          *)
FirstChannelRead == mode \in {"convert", "done"} /\ ~malformed => raws = doc

(* Every guid of a complete item becomes one episode, the first that has   *)
(* it; an item that lacks a field is passed over, wherever it is.          *)
EpisodesOnce ==
    mode = "done" =>
        /\ \A k, l \in DOMAIN episodes : episodes[k].guid = episodes[l].guid => k = l
        /\ \A i \in DOMAIN raws : Complete(raws[i]) => raws[i].guid \in GuidsOf(episodes)
        /\ \A k \in DOMAIN episodes : \E i \in DOMAIN raws :
              /\ episodes[k] = raws[i] /\ Complete(raws[i])
              /\ \A j \in 1..(i - 1) : Complete(raws[j]) => raws[j].guid # raws[i].guid

(* A feed is refused only for the fault of its host, of the document, for  *)
(* a missing title, or for the date of an item that is complete otherwise. *)
RefusedForCause ==
    mode = "failed" /\ ~malformed /\ ~broken =>
        \/ ~title
        \/ \E raw \in Range(doc) : raw.published_at = "bad" /\ raw.guid # None /\ raw.title
=============================================================================
