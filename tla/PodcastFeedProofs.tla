-------------------------- MODULE PodcastFeedProofs --------------------------
(***************************************************************************)
(* Proofs about PodcastFeed, for any URLs, guids, limit of redirects,      *)
(* number of items and depth of elements.                                  *)
(*                                                                         *)
(* The functions that have been called and the elements that are open      *)
(* agree until the reader reports an error (InStep).  Afterwards they need *)
(* not, and what is left is weaker: while a channel is read the document   *)
(* has one open, or has had it (Reading).                                  *)
(***************************************************************************)
EXTENDS PodcastFeed, HttpRequesterProofs, WellFoundedInduction, SequenceTheorems

Elements == {"rss", "channel", "item"}
Functions == {"parse_feed", "parse_rss", "parse_channel", "parse_item"}

InFeed == <<"parse_feed">>
InRss == Append(InFeed, "parse_rss")
InChannel == Append(InRss, "parse_channel")
InItem == Append(InChannel, "parse_item")

ChannelOpen == open # <<>> /\ Last(open) = "channel"
ItemOpen == open # <<>> /\ Last(open) = "item" /\ Front(open) # <<>> /\ Last(Front(open)) = "channel"

Reading ==
    /\ mode = "parse" =>
        /\ calls \in {InFeed, InRss, InChannel, InItem}
        /\ calls = InChannel => closed \/ ChannelOpen
        /\ calls = InItem => closed \/ ChannelOpen \/ ItemOpen
    /\ channel => closed
    /\ mode \in {"convert", "done"} => channel

InStep ==
    ~malformed =>
        /\ raws = doc
        /\ mode = "parse" /\ ~channel /\ calls \in {InFeed, InRss} => ~closed /\ raws = <<>>
        /\ mode = "parse" /\ calls = InFeed => open = <<>> /\ ~channel
        /\ mode = "parse" /\ calls = InRss /\ ~channel => open = <<"rss">>
        /\ mode = "parse" /\ calls = InChannel => ~closed /\ open = <<"rss", "channel">>
        /\ mode = "parse" /\ calls = InItem => ~closed /\ open = <<"rss", "channel", "item">>

FeedTypes ==
    /\ mode \in {"idle", "fetch", "parse", "convert", "done", "failed"}
    /\ open \in Seq(Elements)
    /\ calls \in Seq(Functions)
    /\ {channel, title, malformed, broken, closed} \subseteq BOOLEAN
    /\ item \in Item
    /\ raws \in Seq(Item) /\ episodes \in Seq(Item) /\ doc \in Seq(Item)

FInv ==
    /\ HInv
    /\ FeedTypes
    /\ mode \in {"idle", "fetch"} => NoDocument
    /\ Reading
    /\ InStep
    /\ RefusedForCause
    /\ EpisodesOnce

-----------------------------------------------------------------------------
(* The ends of a sequence. *)
LEMMA Appended ==
    ASSUME NEW S, NEW s \in Seq(S), NEW e \in S
    PROVE  /\ Append(s, e) \in Seq(S) /\ Append(s, e) # <<>>
           /\ Last(Append(s, e)) = e /\ Front(Append(s, e)) = s
<1>1. /\ Append(s, e) \in Seq(S) /\ Append(s, e) # <<>> /\ Len(Append(s, e)) = Len(s) + 1
      /\ Append(s, e)[Len(s) + 1] = e
      /\ \A i \in 1..Len(s) : Append(s, e)[i] = s[i]
  OBVIOUS
<1>2. Last(Append(s, e)) = e
  BY <1>1 DEF Last
<1>3. Front(Append(s, e)) = SubSeq(Append(s, e), 1, Len(s))
  BY <1>1 DEF Front
<1>4. SubSeq(Append(s, e), 1, Len(s)) = s
  BY <1>1
<1>. QED
  BY <1>1, <1>2, <1>3, <1>4

LEMMA Popped ==
    ASSUME NEW S, NEW s \in Seq(S), s # <<>>
    PROVE  Front(s) \in Seq(S) /\ Last(s) \in S
BY DEF Front, Last

(* The calls of the parser, from one to the next. *)
LEMMA CallsFacts ==
    /\ Last(InFeed) = "parse_feed" /\ Last(InRss) = "parse_rss"
    /\ Last(InChannel) = "parse_channel" /\ Last(InItem) = "parse_item"
    /\ Front(InChannel) = InRss /\ Front(InItem) = InChannel
    /\ {InFeed, InRss, InChannel, InItem} \subseteq Seq(Functions)
<1>1. InFeed \in Seq(Functions) /\ Last(InFeed) = "parse_feed"
  BY DEF InFeed, Functions, Last
<1>2. {"parse_rss", "parse_channel", "parse_item"} \subseteq Functions
  BY DEF Functions
<1>3. InRss \in Seq(Functions) /\ Last(InRss) = "parse_rss"
  BY <1>1, <1>2, Appended DEF InRss
<1>4. InChannel \in Seq(Functions) /\ Last(InChannel) = "parse_channel" /\ Front(InChannel) = InRss
  BY <1>2, <1>3, Appended DEF InChannel
<1>5. InItem \in Seq(Functions) /\ Last(InItem) = "parse_item" /\ Front(InItem) = InChannel
  BY <1>2, <1>4, Appended DEF InItem
<1>. QED
  BY <1>1, <1>3, <1>4, <1>5

(* Short sequences are appended to one by one. *)
LEMMA ShortSequences ==
    ASSUME NEW S, NEW a \in S, NEW b \in S, NEW c \in S
    PROVE  /\ Append(<<>>, a) = <<a>>
           /\ Append(<<a>>, b) = <<a, b>>
           /\ Append(<<a, b>>, c) = <<a, b, c>>
<1>1. /\ <<>> \in Seq(S) /\ <<a>> \in Seq(S) /\ <<a, b>> \in Seq(S) /\ <<a, b, c>> \in Seq(S)
  OBVIOUS
<1>2. Append(<<>>, a) = <<a>>
  OBVIOUS
<1>3. Append(<<a>>, b) = <<a, b>>
  <2>1. Len(Append(<<a>>, b)) = 2 /\ Append(<<a>>, b)[1] = a /\ Append(<<a>>, b)[2] = b
    OBVIOUS
  <2>2. Append(<<a>>, b) \in Seq(S) /\ Len(<<a, b>>) = 2
    OBVIOUS
  <2>3. \A i \in 1..2 : Append(<<a>>, b)[i] = <<a, b>>[i]
    BY <2>1
  <2>. QED
    BY <1>1, <2>1, <2>2, <2>3, SeqEqual
<1>4. Append(<<a, b>>, c) = <<a, b, c>>
  <2>1. /\ Append(<<a, b>>, c) \in Seq(S) /\ Len(Append(<<a, b>>, c)) = 3
        /\ Append(<<a, b>>, c)[1] = a /\ Append(<<a, b>>, c)[2] = b /\ Append(<<a, b>>, c)[3] = c
    <3>1. Len(<<a, b>>) = 2 /\ <<a, b>>[1] = a /\ <<a, b>>[2] = b
      OBVIOUS
    <3>. QED
      BY <1>1, <3>1, AppendProperties
  <2>2. Len(<<a, b, c>>) = 3
    OBVIOUS
  <2>3. \A i \in 1..3 : Append(<<a, b>>, c)[i] = <<a, b, c>>[i]
    BY <2>1
  <2>. QED
    BY <1>1, <2>1, <2>2, <2>3, SeqEqual
<1>. QED
  BY <1>2, <1>3, <1>4

(* Elements of a document that is read in step. *)
LEMMA OpenFacts ==
    /\ Append(<<>>, "rss") = <<"rss">>
    /\ Append(<<"rss">>, "channel") = <<"rss", "channel">>
    /\ Append(<<"rss", "channel">>, "item") = <<"rss", "channel", "item">>
    /\ Front(<<"rss", "channel", "item">>) = <<"rss", "channel">>
    /\ Last(<<"rss", "channel", "item">>) = "item"
    /\ Last(<<"rss", "channel">>) = "channel"
    /\ Last(<<"rss">>) = "rss"
<1>1. {"rss", "channel", "item"} \subseteq Elements
  BY DEF Elements
<1>2. /\ Append(<<>>, "rss") = <<"rss">>
      /\ Append(<<"rss">>, "channel") = <<"rss", "channel">>
      /\ Append(<<"rss", "channel">>, "item") = <<"rss", "channel", "item">>
  BY <1>1, ShortSequences
<1>3. <<>> \in Seq(Elements) /\ <<"rss">> \in Seq(Elements) /\ <<"rss", "channel">> \in Seq(Elements)
  BY <1>1
<1>4. Last(<<"rss">>) = "rss"
  <2>1. Last(Append(<<>>, "rss")) = "rss"
    BY <1>1, <1>3, Appended
  <2>. QED
    BY <1>2, <2>1
<1>5. Last(<<"rss", "channel">>) = "channel"
  <2>1. Last(Append(<<"rss">>, "channel")) = "channel"
    BY <1>1, <1>3, Appended
  <2>. QED
    BY <1>2, <2>1
<1>6. /\ Last(<<"rss", "channel", "item">>) = "item"
      /\ Front(<<"rss", "channel", "item">>) = <<"rss", "channel">>
  <2>1. /\ Last(Append(<<"rss", "channel">>, "item")) = "item"
        /\ Front(Append(<<"rss", "channel">>, "item")) = <<"rss", "channel">>
    BY <1>1, <1>3, Appended
  <2>. QED
    BY <1>2, <2>1
<1>. QED
  BY <1>2, <1>4, <1>5, <1>6

LEMMA CallsDiffer ==
    /\ InFeed # InRss /\ InFeed # InChannel /\ InFeed # InItem
    /\ InRss # InChannel /\ InRss # InItem /\ InChannel # InItem
BY CallsFacts

-----------------------------------------------------------------------------
(***************************************************************************)
(* The steps.                                                              *)
(***************************************************************************)
LEMMA NewItemType == NewItem \in Item
BY NoGuidAssumption DEF NewItem, Item

LEMMA Empty == <<>> \in Seq(Elements) /\ <<>> \in Seq(Functions) /\ <<>> \in Seq(Item)
OBVIOUS

LEMMA FeedInitFInv == FeedInit => FInv
<1>. SUFFICES ASSUME FeedInit PROVE FInv
  OBVIOUS
<1>1. HInv
  BY HInitial DEF FeedInit
<1>2. FeedTypes
  BY NewItemType, Empty DEF FeedInit, FeedTypes, NoDocument
<1>3. Reading /\ InStep /\ RefusedForCause /\ EpisodesOnce
  BY DEF FeedInit, NoDocument, Reading, InStep, RefusedForCause, EpisodesOnce
<1>. QED
  BY <1>1, <1>2, <1>3 DEF FInv, FeedInit

(* A running function is the last that was called. *)
LEMMA RunningFacts ==
    ASSUME FInv, NEW f \in Functions, Running(f)
    PROVE  /\ mode = "parse" /\ UNCHANGED vars
           /\ f = "parse_feed" => calls = InFeed
           /\ f = "parse_rss" => calls = InRss
           /\ f = "parse_channel" => calls = InChannel
           /\ f = "parse_item" => calls = InItem
BY CallsFacts DEF Running, FInv, Reading

LEMMA RequesterUnchanged == ASSUME HInv, UNCHANGED vars PROVE HInv'
BY HPreserved

LEMMA FetchFeedStep ==
    ASSUME FInv, NEW url \in Urls, FetchFeed(url)
    PROVE  FInv'
<1>1. HInv'
  BY HPreserved DEF FetchFeed, FInv, Next
<1>2. FeedTypes'
  BY NewItemType, Empty DEF FetchFeed, Forget, FeedTypes
<1>3. NoDocument'
  BY DEF FetchFeed, Forget, NoDocument
<1>4. Reading' /\ InStep' /\ RefusedForCause' /\ EpisodesOnce'
  BY DEF FetchFeed, Forget, Reading, InStep, RefusedForCause, EpisodesOnce
<1>. QED
  BY <1>1, <1>2, <1>3, <1>4 DEF FInv

LEMMA RequesterStep ==
    ASSUME FInv, Step, UNCHANGED feedVars
    PROVE  FInv'
<1>1. HInv'
  BY HPreserved DEF FInv, Next
<1>2. /\ FeedTypes' /\ Reading' /\ InStep' /\ RefusedForCause' /\ EpisodesOnce'
      /\ mode' \in {"idle", "fetch"} => NoDocument'
  BY DEF FInv, feedVars, documentVars, parserVars, FeedTypes, Reading, InStep, ChannelOpen,
         ItemOpen, RefusedForCause, EpisodesOnce, NoDocument
<1>. QED
  BY <1>1, <1>2 DEF FInv

(* The requester is as it was at first when its result has been taken. *)
LEMMA RequesterDropped == ASSUME RequesterReturns PROVE HInv'
  BY RedirectLimitAssumption, NoneAssumption
     DEF RequesterReturns, EmptyFrames, Frame, HInv, TypeOK, RequestsWithinLimit, Returning

LEMMA FetchSucceedsStep ==
    ASSUME FInv, FetchSucceeds
    PROVE  FInv'
<1>1. HInv'
  BY RequesterDropped DEF FetchSucceeds
<1>2. /\ NoDocument /\ mode' = "parse" /\ calls' = InFeed
      /\ UNCHANGED <<documentVars, channel, title, item, raws, episodes>>
  BY DEF FetchSucceeds, RequesterReturns, FInv, InFeed
<1>3. FeedTypes'
  BY <1>2, CallsFacts DEF FInv, FeedTypes, documentVars
<1>4. Reading' /\ InStep'
  BY <1>2, CallsDiffer DEF NoDocument, Reading, InStep, documentVars
<1>5. RefusedForCause' /\ EpisodesOnce' /\ (mode' \in {"idle", "fetch"} => NoDocument')
  BY <1>2 DEF RefusedForCause, EpisodesOnce
<1>. QED
  BY <1>1, <1>3, <1>4, <1>5 DEF FInv

(* What is refused here is the host's fault. *)
LEMMA FetchFailsStep ==
    ASSUME FInv, FetchFails
    PROVE  FInv'
<1>1. HInv'
  BY RequesterDropped DEF FetchFails
<1>2. /\ mode' = "failed" /\ broken' = TRUE
      /\ UNCHANGED <<open, malformed, closed, doc, parserVars>>
  BY DEF FetchFails
<1>3. FeedTypes'
  BY <1>2 DEF FInv, FeedTypes, parserVars
<1>4. Reading' /\ InStep'
  BY <1>2 DEF FInv, Reading, InStep, parserVars
<1>5. RefusedForCause' /\ EpisodesOnce' /\ (mode' \in {"idle", "fetch"} => NoDocument')
  BY <1>2 DEF RefusedForCause, EpisodesOnce
<1>. QED
  BY <1>1, <1>3, <1>4, <1>5 DEF FInv

LEMMA StartRssStep ==
    ASSUME FInv, StartRss
    PROVE  FInv'
<1>1. calls = InFeed /\ mode = "parse" /\ HInv'
  BY RunningFacts, RequesterUnchanged DEF StartRss, FInv, Functions
<1>2. /\ mode' = mode /\ open' = Append(open, "rss") /\ calls' = InRss
      /\ UNCHANGED <<malformed, broken, closed, doc, channel, title, item, raws, episodes>>
  BY <1>1 DEF StartRss, Starts, InRss
<1>3. FeedTypes'
  BY <1>2, CallsFacts, Appended DEF FInv, FeedTypes, Elements
<1>4. Reading'
  BY <1>1, <1>2, CallsDiffer DEF FInv, Reading
<1>5. InStep'
  BY <1>1, <1>2, CallsDiffer, OpenFacts DEF FInv, InStep
<1>6. RefusedForCause' /\ EpisodesOnce' /\ (mode' \in {"idle", "fetch"} => NoDocument')
  BY <1>1, <1>2 DEF RefusedForCause, EpisodesOnce
<1>. QED
  BY <1>1, <1>3, <1>4, <1>5, <1>6 DEF FInv

LEMMA StartChannelStep ==
    ASSUME FInv, StartChannel
    PROVE  FInv'
<1>1. calls = InRss /\ mode = "parse" /\ HInv'
  BY RunningFacts, RequesterUnchanged DEF StartChannel, FInv, Functions
<1>2. /\ mode' = mode /\ open' = Append(open, "channel")
      /\ UNCHANGED <<malformed, broken, closed, doc, channel, item, episodes>>
      /\ IF ~channel THEN calls' = InChannel /\ title' = FALSE /\ raws' = <<>>
         ELSE UNCHANGED <<calls, title, raws>>
  BY <1>1 DEF StartChannel, Starts, InChannel, TakesChannel
<1>3. /\ open' \in Seq(Elements) /\ open' # <<>> /\ Last(open') = "channel"
  <2>1. "channel" \in Elements /\ open \in Seq(Elements) /\ open' = Append(open, "channel")
    BY <1>2 DEF FInv, FeedTypes, Elements
  <2>. QED
    BY <2>1, Appended
<1>4. FeedTypes'
  <2>1. calls' \in Seq(Functions) /\ title' \in BOOLEAN /\ raws' \in Seq(Item)
    BY <1>2, CallsFacts, Empty DEF FInv, FeedTypes
  <2>. QED
    BY <1>2, <1>3, <2>1 DEF FInv, FeedTypes
<1>5. Reading'
  BY <1>1, <1>2, <1>3, CallsDiffer DEF FInv, Reading, ChannelOpen
<1>6. InStep'
  BY <1>1, <1>2, CallsDiffer, OpenFacts DEF FInv, InStep
<1>7. RefusedForCause' /\ EpisodesOnce' /\ (mode' \in {"idle", "fetch"} => NoDocument')
  BY <1>1, <1>2 DEF RefusedForCause, EpisodesOnce
<1>. QED
  BY <1>1, <1>4, <1>5, <1>6, <1>7 DEF FInv

LEMMA StartItemStep ==
    ASSUME FInv, StartItem
    PROVE  FInv'
<1>1. calls = InChannel /\ mode = "parse" /\ HInv'
  BY RunningFacts, RequesterUnchanged DEF StartItem, FInv, Functions
<1>2. /\ mode' = mode /\ open' = Append(open, "item") /\ calls' = InItem /\ item' = NewItem
      /\ UNCHANGED <<malformed, broken, closed, doc, channel, title, raws, episodes>>
  BY <1>1 DEF StartItem, Starts, InItem
<1>3. /\ open' \in Seq(Elements) /\ open' # <<>> /\ Last(open') = "item" /\ Front(open') = open
  BY <1>2, Appended DEF FInv, FeedTypes, Elements
<1>4. FeedTypes'
  BY <1>2, <1>3, CallsFacts, NewItemType DEF FInv, FeedTypes
<1>5. Reading'
  BY <1>1, <1>2, <1>3, CallsDiffer DEF FInv, Reading, ChannelOpen, ItemOpen
<1>6. InStep'
  BY <1>1, <1>2, CallsDiffer, OpenFacts DEF FInv, InStep
<1>7. RefusedForCause' /\ EpisodesOnce' /\ (mode' \in {"idle", "fetch"} => NoDocument')
  BY <1>1, <1>2 DEF RefusedForCause, EpisodesOnce
<1>. QED
  BY <1>1, <1>4, <1>5, <1>6, <1>7 DEF FInv

(* A title or a field of an item is read. *)
LEMMA ReadStep ==
    ASSUME FInv, ReadTitle \/ ReadField
    PROVE  FInv'
<1>1. mode = "parse" /\ HInv'
  BY RunningFacts, RequesterUnchanged DEF ReadTitle, ReadField, FInv, Functions
<1>2. UNCHANGED <<mode, documentVars, calls, channel, raws, episodes>>
  BY DEF ReadTitle, ReadField
<1>3. item' \in Item /\ title' \in BOOLEAN
  BY DEF ReadTitle, ReadField, FInv, FeedTypes, Item
<1>4. FeedTypes'
  BY <1>2, <1>3 DEF FInv, FeedTypes, documentVars
<1>5. Reading' /\ InStep'
  BY <1>2 DEF FInv, Reading, InStep, ChannelOpen, ItemOpen, documentVars
<1>6. RefusedForCause' /\ EpisodesOnce' /\ (mode' \in {"idle", "fetch"} => NoDocument')
  BY <1>1, <1>2 DEF RefusedForCause, EpisodesOnce
<1>. QED
  BY <1>1, <1>4, <1>5, <1>6 DEF FInv

(* A text that cannot be read, or the end of the document. *)
LEMMA RefusedStep ==
    ASSUME FInv, ReadFails \/ Eof
    PROVE  FInv'
<1>1. HInv'
  BY RunningFacts, RequesterUnchanged DEF ReadFails, Eof, FInv, Functions
<1>2. /\ mode' = "failed" /\ broken' = TRUE
      /\ UNCHANGED <<open, malformed, closed, doc, parserVars>>
  BY DEF ReadFails, FeedFails, Eof, EofAccepted
<1>3. FeedTypes'
  BY <1>2 DEF FInv, FeedTypes, parserVars
<1>4. Reading' /\ InStep'
  BY <1>2 DEF FInv, Reading, InStep, parserVars
<1>5. RefusedForCause' /\ EpisodesOnce' /\ (mode' \in {"idle", "fetch"} => NoDocument')
  BY <1>2 DEF RefusedForCause, EpisodesOnce
<1>. QED
  BY <1>1, <1>3, <1>4, <1>5 DEF FInv

(* The document has one more item, if its end is that of the first channel's. *)
LEMMA EndItemStep ==
    ASSUME FInv, EndItem
    PROVE  FInv'
<1>1. calls = InItem /\ mode = "parse" /\ HInv'
  BY RunningFacts, RequesterUnchanged DEF EndItem, FInv, Functions
<1>2. /\ mode' = mode /\ open # <<>> /\ open' = Front(open) /\ calls' = InChannel
      /\ closed' = (closed \/ Last(open) = "channel")
      /\ doc' = IF open = <<"rss", "channel", "item">> /\ ~closed /\ ~malformed
                THEN Append(doc, item) ELSE doc
      /\ raws' = Append(raws, item) /\ item' = NewItem
      /\ UNCHANGED <<malformed, broken, channel, title, episodes>>
  BY <1>1, CallsFacts DEF EndItem, Ended
<1>3. FeedTypes'
  <2>1. open' \in Seq(Elements) /\ raws' \in Seq(Item) /\ doc' \in Seq(Item)
    BY <1>2, Popped, Appended DEF FInv, FeedTypes
  <2>. QED
    BY <1>2, <2>1, CallsFacts, NewItemType DEF FInv, FeedTypes
<1>4. Reading'
  BY <1>1, <1>2, CallsDiffer DEF FInv, Reading, ChannelOpen, ItemOpen
<1>5. InStep'
  BY <1>1, <1>2, CallsDiffer, OpenFacts DEF FInv, InStep
<1>6. RefusedForCause' /\ EpisodesOnce' /\ (mode' \in {"idle", "fetch"} => NoDocument')
  BY <1>1, <1>2 DEF RefusedForCause, EpisodesOnce
<1>. QED
  BY <1>1, <1>3, <1>4, <1>5, <1>6 DEF FInv

(* The end that parse_channel takes for its own is that of a channel, or   *)
(* of an element around one that has ended before.                         *)
LEMMA EndChannelStep ==
    ASSUME FInv, EndChannel
    PROVE  FInv'
<1>1. calls = InChannel /\ mode = "parse" /\ HInv'
  BY RunningFacts, RequesterUnchanged DEF EndChannel, FInv, Functions
<1>2. /\ mode' = mode /\ open # <<>> /\ open' = Front(open) /\ calls' = InRss
      /\ closed' = (closed \/ Last(open) = "channel") /\ channel' = TRUE
      /\ doc' = IF open = <<"rss", "channel", "item">> /\ ~closed /\ ~malformed
                THEN Append(doc, item) ELSE doc
      /\ UNCHANGED <<malformed, broken, title, item, raws, episodes>>
  BY <1>1, CallsFacts DEF EndChannel, Ended
<1>3. FeedTypes'
  <2>1. open' \in Seq(Elements) /\ doc' \in Seq(Item)
    BY <1>2, Popped, Appended DEF FInv, FeedTypes
  <2>. QED
    BY <1>2, <2>1, CallsFacts DEF FInv, FeedTypes
<1>4. Reading'
  BY <1>1, <1>2, CallsDiffer DEF FInv, Reading, ChannelOpen
<1>5. InStep'
  BY <1>1, <1>2, CallsDiffer, OpenFacts DEF FInv, InStep
<1>6. RefusedForCause' /\ EpisodesOnce' /\ (mode' \in {"idle", "fetch"} => NoDocument')
  BY <1>1, <1>2 DEF RefusedForCause, EpisodesOnce
<1>. QED
  BY <1>1, <1>3, <1>4, <1>5, <1>6 DEF FInv

LEMMA EndRssStep ==
    ASSUME FInv, EndRss
    PROVE  FInv'
<1>1. calls = InRss /\ mode = "parse" /\ HInv'
  BY RunningFacts, RequesterUnchanged DEF EndRss, FInv, Functions
<1>2. /\ mode' = (IF channel THEN "convert" ELSE "failed") /\ broken' = ~channel
      /\ open # <<>> /\ open' = Front(open)
      /\ closed' = (closed \/ Last(open) = "channel")
      /\ doc' = IF open = <<"rss", "channel", "item">> /\ ~closed /\ ~malformed
                THEN Append(doc, item) ELSE doc
      /\ UNCHANGED <<malformed, calls, channel, title, item, raws, episodes>>
  BY <1>1 DEF EndRss, Ended, parserVars
<1>3. FeedTypes'
  <2>1. open' \in Seq(Elements) /\ doc' \in Seq(Item)
    BY <1>2, Popped, Appended DEF FInv, FeedTypes
  <2>. QED
    BY <1>2, <2>1 DEF FInv, FeedTypes
<1>4. Reading'
  BY <1>1, <1>2 DEF FInv, Reading
<1>5. InStep'
  BY <1>1, <1>2, OpenFacts DEF FInv, Reading, InStep
<1>6. RefusedForCause' /\ EpisodesOnce' /\ (mode' \in {"idle", "fetch"} => NoDocument')
  BY <1>2 DEF RefusedForCause, EpisodesOnce, FInv, FeedTypes
<1>. QED
  BY <1>1, <1>3, <1>4, <1>5, <1>6 DEF FInv

(* An error of the reader: it may have popped one element, and the parser  *)
(* goes on as if nothing had happened.                                     *)
LEMMA MalformedStep ==
    ASSUME FInv, Malformed
    PROVE  FInv'
<1>1. HInv'
  BY RequesterUnchanged DEF Malformed, FInv
<1>2. /\ mode = "parse" /\ mode' = mode /\ malformed' = TRUE /\ doc' = <<>>
      /\ UNCHANGED <<broken, calls, channel, title, item, raws, episodes>>
      /\ \/ UNCHANGED <<open, closed>>
         \/ open # <<>> /\ open' = Front(open) /\ closed' = (closed \/ Last(open) = "channel")
  BY DEF Malformed, parserVars
<1>3. FeedTypes'
  <2>1. open' \in Seq(Elements) /\ closed' \in BOOLEAN
    BY <1>2, Popped DEF FInv, FeedTypes
  <2>. QED
    BY <1>2, <2>1 DEF FInv, FeedTypes
<1>4. Reading'
  BY <1>2, CallsDiffer DEF FInv, Reading, ChannelOpen, ItemOpen
<1>5. InStep'
  BY <1>2 DEF InStep
<1>6. RefusedForCause' /\ EpisodesOnce' /\ (mode' \in {"idle", "fetch"} => NoDocument')
  BY <1>2 DEF RefusedForCause, EpisodesOnce
<1>. QED
  BY <1>1, <1>3, <1>4, <1>5, <1>6 DEF FInv

-----------------------------------------------------------------------------
(***************************************************************************)
(* The conversion.  Kept is a recursive function: that there is one, and   *)
(* what it has kept of the first n items, is shown by the absence of a     *)
(* least n for which it fails.                                             *)
(***************************************************************************)
LEMMA LeastNatural ==
    ASSUME NEW S \in SUBSET Nat, S # {}
    PROVE  \E n \in S : \A m \in S : n <= m
<1>. DEFINE Less == {ss \in Nat \X Nat : ss[1] < ss[2]}
<1>1. IsWellFoundedOn(Less, Nat)
  BY NatLessThanWellFounded DEF OpToRel
<1>2. ASSUME NEW m \in Nat, NEW n \in Nat, m < n
      PROVE  <<m, n>> \in Less
  BY <1>2
<1>. HIDE DEF Less
<1>3. PICK n \in S : \A m \in S : <<m, n>> \notin Less
  BY <1>1, WFMin
<1>4. \A m \in S : ~(m < n)
  BY <1>2, <1>3
<1>. QED
  BY <1>4

(* A set that has 0 and with each number the next has all up to a bound.   *)
LEMMA UpTo ==
    ASSUME NEW N \in Nat, NEW S, 0 \in S, \A n \in 0..N : n < N /\ n \in S => n + 1 \in S
    PROVE  0..N \subseteq S
<1>. SUFFICES ASSUME (0..N) \ S # {} PROVE FALSE
  OBVIOUS
<1>0. (0..N) \ S \in SUBSET Nat
  OBVIOUS
<1>1. PICK n \in (0..N) \ S : \A m \in (0..N) \ S : n <= m
  BY <1>0, LeastNatural
<1>2. n # 0 /\ n - 1 \in 0..N
  OBVIOUS
<1>3. n - 1 \in S
  BY <1>1, <1>2
<1>. QED
  BY <1>2, <1>3

(* g satisfies the equation of Kept for the first n items.                 *)
KeptUpTo(g, n) ==
    /\ DOMAIN g = 0..n /\ g = [i \in 0..n |-> g[i]]
    /\ \A i \in 0..n : g[i] = IF i = 0 THEN <<>> ELSE KeepFirst(g[i - 1], raws[i])

LEMMA KeptExists ==
    ASSUME raws \in Seq(Item)
    PROVE  \E g : KeptUpTo(g, Len(raws))
<1>. DEFINE N == Len(raws)
            S == {n \in 0..N : \E g : KeptUpTo(g, n)}
<1>1. N \in Nat
  OBVIOUS
<1>. HIDE DEF N
<1>2. 0 \in S
  <2>1. KeptUpTo([i \in 0..0 |-> <<>>], 0)
    BY DEF KeptUpTo
  <2>. QED
    BY <1>1, <2>1
<1>3. ASSUME NEW n \in 0..N, n < N, n \in S PROVE n + 1 \in S
  <2>1. PICK g : KeptUpTo(g, n)
    BY <1>3
  <2>. DEFINE h == [i \in 0..(n + 1) |-> IF i = n + 1 THEN KeepFirst(g[n], raws[n + 1]) ELSE g[i]]
  <2>2. \A i \in 0..n : h[i] = g[i] /\ i # n + 1
    BY <1>1
  <2>3. h[n + 1] = KeepFirst(g[n], raws[n + 1]) /\ h[n] = g[n]
    BY <1>1
  <2>4. DOMAIN h = 0..(n + 1) /\ h = [i \in 0..(n + 1) |-> h[i]]
    OBVIOUS
  <2>. HIDE DEF h
  <2>5. ASSUME NEW i \in 0..(n + 1)
        PROVE  h[i] = IF i = 0 THEN <<>> ELSE KeepFirst(h[i - 1], raws[i])
    <3>1. CASE i = n + 1
      <4>1. i - 1 = n /\ i # 0
        BY <1>1, <3>1
      <4>. QED
        BY <2>3, <3>1, <4>1
    <3>2. CASE i # n + 1
      <4>1. i \in 0..n /\ (i # 0 => i - 1 \in 0..n)
        BY <1>1, <3>2
      <4>. QED
        BY <2>1, <2>2, <4>1 DEF KeptUpTo
    <3>. QED
      BY <3>1, <3>2
  <2>6. KeptUpTo(h, n + 1)
    BY <2>4, <2>5 DEF KeptUpTo
  <2>. QED
    BY <1>1, <1>3, <2>6
<1>4. 0..N \subseteq S
  <2>. HIDE DEF S
  <2>. QED
    BY <1>1, <1>2, <1>3, UpTo
<1>. QED
  BY <1>1, <1>4 DEF N

LEMMA KeptIsKept ==
    ASSUME raws \in Seq(Item)
    PROVE  KeptUpTo(Kept, Len(raws))
<1>. DEFINE Eq(g) == g = [n \in 0..Len(raws) |->
                            IF n = 0 THEN <<>> ELSE KeepFirst(g[n - 1], raws[n])]
<1>1. PICK g : KeptUpTo(g, Len(raws))
  BY KeptExists
<1>2. Eq(g)
  BY <1>1 DEF KeptUpTo
<1>3. Kept = CHOOSE f : Eq(f)
  BY DEF Kept
<1>4. Eq(Kept)
  BY <1>2, <1>3
<1>. QED
  BY <1>4 DEF KeptUpTo

(* What has been kept of the first n items: no guid twice, the guid of     *)
(* every complete item, and of the items with a guid the first complete    *)
(* one.                                                                    *)
FirstOnes(kept, n) ==
    /\ kept \in Seq(Item)
    /\ \A k, l \in DOMAIN kept : kept[k].guid = kept[l].guid => k = l
    /\ \A i \in 1..n : Complete(raws[i]) => raws[i].guid \in GuidsOf(kept)
    /\ \A k \in DOMAIN kept : \E i \in 1..n :
          /\ kept[k] = raws[i] /\ Complete(raws[i])
          /\ \A j \in 1..(i - 1) : Complete(raws[j]) => raws[j].guid # raws[i].guid

LEMMA KeepFirstStep ==
    ASSUME raws \in Seq(Item), NEW n \in Nat, n < Len(raws), NEW kept, FirstOnes(kept, n)
    PROVE  FirstOnes(KeepFirst(kept, raws[n + 1]), n + 1)
<1>. DEFINE raw == raws[n + 1]
            more == KeepFirst(kept, raw)
<1>. SUFFICES FirstOnes(more, n + 1)
  OBVIOUS
<1>1. raw \in Item /\ kept \in Seq(Item)
  BY DEF FirstOnes
<1>2. CASE ~Complete(raw) \/ raw.guid \in GuidsOf(kept)
  <2>1. more = kept
    BY <1>2 DEF KeepFirst
  <2>2. \A i \in 1..(n + 1) : i \in 1..n \/ i = n + 1
    OBVIOUS
  <2>3. \A i \in 1..(n + 1) : Complete(raws[i]) => raws[i].guid \in GuidsOf(kept)
    BY <1>2, <2>2 DEF FirstOnes
  <2>4. \A i \in 1..n : i \in 1..(n + 1)
    OBVIOUS
  <2>. HIDE DEF more
  <2>. QED
    BY <2>1, <2>3, <2>4 DEF FirstOnes
<1>3. CASE Complete(raw) /\ raw.guid \notin GuidsOf(kept)
  <2>1. more = Append(kept, raw)
    BY <1>3 DEF KeepFirst
  <2>. HIDE DEF more
  <2>2. /\ more \in Seq(Item) /\ DOMAIN more = 1..(Len(kept) + 1) /\ DOMAIN kept = 1..Len(kept)
        /\ Len(kept) \in Nat
        /\ \A k \in 1..Len(kept) : more[k] = kept[k]
        /\ more[Len(kept) + 1] = raw
    BY <1>1, <2>1
  <2>3. GuidsOf(more) = GuidsOf(kept) \cup {raw.guid}
    <3>1. Range(more) = Range(kept) \cup {raw}
      BY <2>2 DEF Range
    <3>. QED
      BY <3>1 DEF GuidsOf
  <2>4. \A k \in 1..Len(kept) : kept[k].guid # raw.guid
    BY <1>3, <2>2 DEF GuidsOf, Range
  <2>5. ASSUME NEW k \in DOMAIN more, NEW l \in DOMAIN more, more[k].guid = more[l].guid
        PROVE  k = l
    <3>1. k \in 1..Len(kept) \/ k = Len(kept) + 1
      BY <2>2
    <3>2. l \in 1..Len(kept) \/ l = Len(kept) + 1
      BY <2>2
    <3>. QED
      BY <2>2, <2>4, <2>5, <3>1, <3>2 DEF FirstOnes
  <2>6. ASSUME NEW i \in 1..(n + 1), Complete(raws[i]) PROVE raws[i].guid \in GuidsOf(more)
    <3>1. i \in 1..n \/ i = n + 1
      OBVIOUS
    <3>. QED
      BY <2>3, <2>6, <3>1 DEF FirstOnes
  <2>7. ASSUME NEW k \in DOMAIN more
        PROVE  \E i \in 1..(n + 1) :
                  /\ more[k] = raws[i] /\ Complete(raws[i])
                  /\ \A j \in 1..(i - 1) : Complete(raws[j]) => raws[j].guid # raws[i].guid
    <3>1. CASE k \in 1..Len(kept)
      <4>1. \A i \in 1..n : i \in 1..(n + 1)
        OBVIOUS
      <4>. QED
        BY <2>2, <3>1, <4>1 DEF FirstOnes
    <3>2. CASE k = Len(kept) + 1
      <4>1. \A j \in 1..n : Complete(raws[j]) => raws[j].guid # raw.guid
        BY <1>3 DEF FirstOnes
      <4>2. n + 1 \in 1..(n + 1) /\ 1..((n + 1) - 1) = 1..n
        OBVIOUS
      <4>. QED
        BY <1>3, <2>2, <3>2, <4>1, <4>2
    <3>. QED
      BY <2>2, <3>1, <3>2
  <2>. QED
    BY <2>2, <2>5, <2>6, <2>7 DEF FirstOnes
<1>. QED
  BY <1>2, <1>3

LEMMA KeptFirstOnes ==
    ASSUME raws \in Seq(Item)
    PROVE  FirstOnes(Kept[Len(raws)], Len(raws))
<1>. DEFINE N == Len(raws)
            S == {n \in 0..N : FirstOnes(Kept[n], n)}
<1>1. N \in Nat
  OBVIOUS
<1>2. KeptUpTo(Kept, N)
  BY KeptIsKept
<1>. HIDE DEF N
<1>3. 0 \in S
  <2>1. Kept[0] = <<>>
    BY <1>1, <1>2 DEF KeptUpTo
  <2>2. FirstOnes(<<>>, 0)
    BY Empty DEF FirstOnes
  <2>. QED
    BY <1>1, <2>1, <2>2
<1>4. ASSUME NEW n \in 0..N, n < N, n \in S PROVE n + 1 \in S
  <2>1. Kept[n + 1] = KeepFirst(Kept[n], raws[n + 1])
    <3>1. n + 1 \in 0..N /\ n + 1 # 0 /\ (n + 1) - 1 = n
      BY <1>1, <1>4
    <3>. QED
      BY <1>2, <3>1 DEF KeptUpTo
  <2>2. FirstOnes(KeepFirst(Kept[n], raws[n + 1]), n + 1)
    BY <1>1, <1>4, KeepFirstStep DEF N
  <2>. QED
    BY <1>1, <1>4, <2>1, <2>2
<1>5. 0..N \subseteq S
  <2>. HIDE DEF S
  <2>. QED
    BY <1>1, <1>3, <1>4, UpTo
<1>. QED
  BY <1>1, <1>5 DEF N

LEMMA ConvertStep ==
    ASSUME FInv, Convert
    PROVE  FInv'
<1>1. HInv'
  BY RequesterUnchanged DEF Convert, FInv
<1>2. /\ mode = "convert" /\ channel
      /\ UNCHANGED <<documentVars, calls, channel, title, item, raws>>
  BY DEF Convert, FInv, Reading
<1>3. raws \in Seq(Item)
  BY DEF FInv, FeedTypes
<1>4. CASE title /\ \A raw \in Range(raws) : ~Unparsable(raw)
  <2>1. mode' = "done" /\ episodes' = Kept[Len(raws)]
    BY <1>4 DEF Convert
  <2>2. FirstOnes(Kept[Len(raws)], Len(raws))
    BY <1>3, KeptFirstOnes
  <2>3. FeedTypes'
    BY <1>2, <2>1, <2>2 DEF FInv, FeedTypes, documentVars, FirstOnes
  <2>4. EpisodesOnce'
    <3>1. /\ \A k, l \in DOMAIN episodes' : episodes'[k].guid = episodes'[l].guid => k = l
          /\ \A i \in 1..Len(raws) : Complete(raws[i]) => raws[i].guid \in GuidsOf(episodes')
          /\ \A k \in DOMAIN episodes' : \E i \in 1..Len(raws) :
                /\ episodes'[k] = raws[i] /\ Complete(raws[i])
                /\ \A j \in 1..(i - 1) : Complete(raws[j]) => raws[j].guid # raws[i].guid
      BY <2>1, <2>2 DEF FirstOnes
    <3>2. DOMAIN raws = 1..Len(raws) /\ raws' = raws
      BY <1>2, <1>3
    <3>3. GuidsOf(episodes)' = GuidsOf(episodes')
      BY DEF GuidsOf, Range
    <3>. QED
      BY <3>1, <3>2, <3>3 DEF EpisodesOnce, Complete
  <2>5. Reading' /\ InStep' /\ RefusedForCause' /\ (mode' \in {"idle", "fetch"} => NoDocument')
    BY <1>2, <2>1 DEF FInv, Reading, InStep, RefusedForCause, documentVars
  <2>. QED
    BY <1>1, <2>3, <2>4, <2>5 DEF FInv
<1>5. CASE ~(title /\ \A raw \in Range(raws) : ~Unparsable(raw))
  <2>1. mode' = "failed" /\ episodes' = episodes
    BY <1>5 DEF Convert
  <2>2. FeedTypes'
    BY <1>2, <2>1 DEF FInv, FeedTypes, documentVars
  <2>3. Reading' /\ InStep' /\ EpisodesOnce' /\ (mode' \in {"idle", "fetch"} => NoDocument')
    BY <1>2, <2>1 DEF FInv, Reading, InStep, EpisodesOnce, documentVars
  <2>4. RefusedForCause'
    <3>1. ~malformed => raws = doc
      BY DEF FInv, InStep
    <3>2. UNCHANGED <<malformed, broken, title, doc>>
      BY <1>2 DEF documentVars
    <3>3. title => \E raw \in Range(raws) :
                      raw.published_at = "bad" /\ raw.guid # None /\ raw.title
      BY <1>5 DEF Unparsable, Complete
    <3>. QED
      BY <3>1, <3>2, <3>3 DEF RefusedForCause
  <2>. QED
    BY <1>1, <2>2, <2>3, <2>4 DEF FInv
<1>. QED
  BY <1>4, <1>5

LEMMA FeedNextFInv ==
    ASSUME FInv, [FeedNext]_<<vars, feedVars>>
    PROVE  FInv'
<1>1. ASSUME NEW url \in Urls, FetchFeed(url) PROVE FInv'
  BY <1>1, FetchFeedStep
<1>2. CASE Step /\ UNCHANGED feedVars
  BY <1>2, RequesterStep
<1>3. CASE FetchSucceeds \/ FetchFails
  BY <1>3, FetchSucceedsStep, FetchFailsStep
<1>4. CASE Parse
  BY <1>4, StartRssStep, StartChannelStep, StartItemStep, ReadStep, RefusedStep,
     EndItemStep, EndChannelStep, EndRssStep, MalformedStep DEF Parse
<1>5. CASE Convert
  BY <1>5, ConvertStep
<1>6. CASE UNCHANGED <<vars, feedVars>>
  <2>1. HInv'
    BY <1>6, RequesterUnchanged DEF FInv
  <2>2. /\ FeedTypes' /\ Reading' /\ InStep' /\ RefusedForCause' /\ EpisodesOnce'
        /\ mode' \in {"idle", "fetch"} => NoDocument'
    BY <1>6 DEF FInv, feedVars, documentVars, parserVars, FeedTypes, Reading, InStep,
         ChannelOpen, ItemOpen, RefusedForCause, EpisodesOnce, NoDocument
  <2>. QED
    BY <2>1, <2>2 DEF FInv
<1>. QED
  BY <1>1, <1>2, <1>3, <1>4, <1>5, <1>6 DEF FeedNext

-----------------------------------------------------------------------------
(* FInv holds in every state of a run of feeds. *)
THEOREM FeedInvariant == FeedSpec => []FInv
BY FeedInitFInv, FeedNextFInv, PTL DEF FeedSpec

(* The types of everything, the requester's variables among them. *)
THEOREM FeedTyped == FeedSpec => []FeedTypeOK
<1>1. FInv => FeedTypeOK
  BY DEF FInv, HInv, FeedTypes, FeedTypeOK, Elements, Functions
<1>. QED
  BY <1>1, FeedInvariant, PTL

(* parse_rss accepts no document whose channel has not ended, even one the *)
(* reader reports errors of, which the loops of the parser pass over.      *)
THEOREM NothingTruncated == FeedSpec => []TruncatedRefused
<1>1. FInv => TruncatedRefused
  BY DEF FInv, Reading, TruncatedRefused
<1>. QED
  BY <1>1, FeedInvariant, PTL

(* Of a well-formed document, exactly the items of the first channel.      *)
THEOREM FirstChannelExactly == FeedSpec => []FirstChannelRead
<1>1. FInv => FirstChannelRead
  BY DEF FInv, InStep, FirstChannelRead
<1>. QED
  BY <1>1, FeedInvariant, PTL

(* convert_episodes keeps one episode of each guid, the first complete     *)
(* one, of any number of items.                                            *)
THEOREM EachGuidOnce == FeedSpec => []EpisodesOnce
<1>1. FInv => EpisodesOnce
  BY DEF FInv
<1>. QED
  BY <1>1, FeedInvariant, PTL

(* No feed is refused without fault.                                       *)
THEOREM RefusedRightly == FeedSpec => []RefusedForCause
<1>1. FInv => RefusedForCause
  BY DEF FInv
<1>. QED
  BY <1>1, FeedInvariant, PTL

(* The feed's steps use the requester as its own specification allows.     *)
THEOREM RequesterInFeed ==
    FeedSpec => [](TypeOK /\ RequestsWithinLimit /\ TemporaryNotRemembered)
<1>1. FInv => TypeOK /\ RequestsWithinLimit /\ TemporaryNotRemembered
  BY RedirectLimitAssumption
     DEF FInv, HInv, Returning, TemporaryNotRemembered
<1>. QED
  BY <1>1, FeedInvariant, PTL
=============================================================================
