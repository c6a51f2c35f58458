------------------------- MODULE HttpRequesterProofs -------------------------
(***************************************************************************)
(* Proofs about HttpRequester, for any set of URLs and any positive limit. *)
(***************************************************************************)
EXTENDS HttpRequester, TLAPS

(* What is returned is a status that is no redirect with the URL of the    *)
(* call that returns it; hence the test on the shadowed status never holds *)
(* and each call returns its own URL.                                      *)
Returning ==
    /\ phase = "return" => status \in Answers /\ uri = frames[depth].uri
    /\ phase = "done" => uri = frames[0].uri

HInv == TypeOK /\ RequestsWithinLimit /\ Returning

LEMMA HInitial == Init => HInv
BY RedirectLimitAssumption, NoneAssumption
   DEF Init, EmptyFrames, Frame, HInv, TypeOK, RequestsWithinLimit, Returning

LEMMA HPreserved == HInv /\ [Next]_vars => HInv'
<1> SUFFICES ASSUME HInv, [Next]_vars PROVE HInv'
  OBVIOUS
<1> USE RedirectLimitAssumption, NoneAssumption
       DEF HInv, TypeOK, RequestsWithinLimit, Returning, Frame
<1>1. ASSUME NEW url \in Urls, Execute(url) PROVE HInv'
  BY <1>1 DEF Execute, EmptyFrames
<1>2. CASE HitLimit
  BY <1>2 DEF HitLimit, Fail
<1>3. CASE RequestFails
  BY <1>3 DEF RequestFails, Fail
<1>4. ASSUME NEW redirect \in Redirects, NEW target \in Urls,
             Redirected(redirect, target)
      PROVE  HInv'
  <2>1. depth \in 0..RedirectLimit /\ depth < RedirectLimit
    BY <1>4 DEF Redirected, AtLimit
  <2>2. depth + 1 \in 0..RedirectLimit /\ depth + 1 # depth
    BY <2>1
  <2>3. [uri |-> target, redirect |-> None] \in Frame
    OBVIOUS
  <2>4. frames' = [frames EXCEPT ![depth].redirect = redirect,
                                 ![depth + 1] = [uri |-> target, redirect |-> None]]
    BY <1>4 DEF Redirected, ChildDepth
  <2>5. frames' \in [0..RedirectLimit -> Frame]
    BY <2>2, <2>3, <2>4
  <2>6. /\ depth' = depth + 1
        /\ UNCHANGED <<status, uri, last>>
        /\ phase = "request" /\ phase' = "request"
    BY <1>4 DEF Redirected, ChildDepth
  <2>7. TypeOK'
    BY <2>2, <2>5, <2>6
  <2>8. ASSUME NEW d \in 0..RedirectLimit, frames'[d].redirect # None
        PROVE  d < RedirectLimit /\ frames'[d + 1].uri # None
    <3>1. CASE d = depth
      <4>1. frames'[depth + 1].uri = target
        BY <2>2, <2>4
      <4>2. QED
        BY <3>1, <4>1, <2>1
    <3>2. CASE d = depth + 1
      <4>1. frames'[depth + 1].redirect = None
        BY <2>2, <2>4
      <4>2. QED
        BY <3>2, <4>1, <2>8
    <3>3. CASE d # depth /\ d # depth + 1
      <4>1. frames'[d] = frames[d]
        BY <3>3, <2>4, <2>2
      <4>2. d < RedirectLimit /\ frames[d + 1].uri # None /\ d + 1 \in 0..RedirectLimit
        BY <4>1, <2>8
      <4>3. frames'[d + 1].uri \in {frames[d + 1].uri, target}
        BY <4>2, <2>2, <2>4
      <4>4. QED
        BY <4>2, <4>3
    <3>4. QED
      BY <3>1, <3>2, <3>3
  <2>9. RequestsWithinLimit'
    BY <2>6, <2>8
  <2>10. Returning'
    BY <2>6
  <2>11. QED
    BY <2>7, <2>9, <2>10
<1>5. ASSUME NEW answer \in Answers, Answered(answer) PROVE HInv'
  BY <1>5 DEF Answered, AtLimit
<1>6. CASE Return
  <2>1. status # "permanent_redirect"
    BY <1>6 DEF Return, Answers
  <2>2. uri' = frames[depth - 1].uri
    BY <2>1, <1>6 DEF Return, ReturnedUri
  <2>3. depth - 1 \in 0..RedirectLimit /\ depth > 0
    BY <1>6 DEF Return
  <2>4. frames[depth - 1] \in Frame
    BY <2>3
  <2>5. QED
    BY <1>6, <2>2, <2>3, <2>4 DEF Return
<1>7. CASE Finish
  BY <1>7 DEF Finish
<1>8. CASE UNCHANGED vars
  BY <1>8 DEF vars
<1>9. QED
  BY <1>1, <1>2, <1>3, <1>4, <1>5, <1>6, <1>7, <1>8 DEF Next, Step

(* The inductive invariant holds of every behaviour. *)
THEOREM HInvariant == Spec => []HInv
BY HInitial, HPreserved, PTL DEF Spec

(* The types of the calls' frames and of what is returned. *)
THEOREM RequesterTyped == Spec => []TypeOK
<1>1. HInv => TypeOK
  BY DEF HInv
<1>2. QED
  BY HInvariant, <1>1, PTL

(* No request of http_requester.rs is sent at REDIRECT_LIMIT or beyond. *)
THEOREM LimitKept == Spec => []RequestsWithinLimit
<1>1. HInv => RequestsWithinLimit
  BY DEF HInv
<1>2. QED
  BY HInvariant, <1>1, PTL

(* A location behind a temporary redirect is never returned, whatever      *)
(* chain of redirects leads there.                                         *)
THEOREM TemporaryForgotten == Spec => []TemporaryNotRemembered
<1>1. HInv => TemporaryNotRemembered
  BY RedirectLimitAssumption
     DEF HInv, Returning, TemporaryNotRemembered
<1>2. QED
  BY HInvariant, <1>1, PTL

(* With the status shadowed in execute_inner no redirect is remembered at  *)
(* all: execute returns the URL it was given.  This is what the code does, *)
(* against its comment on permanent redirects; PodcastUpdater, which takes *)
(* the final URL for the one it asked for, rests on it.                    *)
THEOREM NothingRemembered == Spec => [](phase = "done" => uri = frames[0].uri)
<1>1. HInv => (phase = "done" => uri = frames[0].uri)
  BY DEF HInv, Returning
<1>2. QED
  BY HInvariant, <1>1, PTL
=============================================================================
