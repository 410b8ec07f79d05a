---------------------------- MODULE ExtractProofs ----------------------------
(***************************************************************************)
(* Proofs about Extract, for every retry count, budget, cap and latency.   *)
(***************************************************************************)
EXTENDS Extract, TLAPS

-----------------------------------------------------------------------------
(* Delays and the log of requests.                                         *)

\* Whatever the provider asks for and however often it was tried, a sleep
\* stays under the larger of the two caps.
LEMMA DelayBounds ==
  ASSUME NEW attempt \in Nat, NEW after \in RetryAfters \cup {NoHeader},
         NEW d \in Delays(attempt, after)
  PROVE  d \in Nat /\ d <= DelayCap
<1>1. CASE after # NoHeader
  BY <1>1, TimesAssumption DEF Delays, AtMost, DelayCap
<1>2. CASE after = NoHeader
  <2>1. PICK j \in Jittered(attempt) : d = AtMost(j, MaxBackoff)
    BY <1>2 DEF Delays
  <2>2. j \in Nat
    BY DEF Jittered
  <2> QED
    BY <2>1, <2>2, TimesAssumption DEF AtMost, DelayCap
<1> QED
  BY <1>1, <1>2

\* Understanding the last reply changes nothing else in the log.
LEMMA Answered ==
  ASSUME NEW s \in Seq(Requests), s # <<>>, NEW v \in Verdicts
  PROVE  LET t == [s EXCEPT ![Len(s)].verdict = v] IN
         /\ t \in Seq(Requests)
         /\ Len(t) = Len(s)
         /\ \A k \in 1..(Len(s) - 1) : t[k] = s[k]
         /\ t[Len(s)].verdict = v /\ t[Len(s)].tier = s[Len(s)].tier
<1> DEFINE t == [s EXCEPT ![Len(s)].verdict = v]
<1>1. Len(s) \in 1..Len(s)
  OBVIOUS
<1>2. s[Len(s)] \in Requests
  BY <1>1
<1>3. [s[Len(s)] EXCEPT !.verdict = v] \in Requests
  BY <1>2 DEF Requests
<1>4. t = [s EXCEPT ![Len(s)] = [s[Len(s)] EXCEPT !.verdict = v]]
  OBVIOUS
<1>5. t \in Seq(Requests) /\ Len(t) = Len(s)
  BY <1>1, <1>3, <1>4
<1>6. t[Len(s)] = [s[Len(s)] EXCEPT !.verdict = v]
  BY <1>1, <1>4
<1>7. t[Len(s)].verdict = v /\ t[Len(s)].tier = s[Len(s)].tier
  BY <1>2, <1>6 DEF Requests
<1>8. \A k \in 1..(Len(s) - 1) : t[k] = s[k]
  BY <1>1, <1>4
<1> QED
  BY <1>5, <1>7, <1>8

-----------------------------------------------------------------------------
(* What holds of the count, the clock and the log at each program counter. *)

\* A request is posted on the current channel; a retry is only prepared
\* while the count allows it, and the JSON channel starts with a count the
\* tool channel left.
CountInv ==
    /\ pc = "wait" => sent # <<>>
    /\ tier = "tool_call" /\ pc \in {"send", "sleep"} => attempts <= Retries
    /\ tier = "tool_call" \/ pc \in {"send", "sleep"} => attempts <= Retries + 1
    /\ attempts <= Retries + 2

\* A sleep starts within the budget, and what follows it is one request on
\* this channel and one on the next.
ClockInv ==
    /\ pc = "sleep" => elapsed < Budget /\ delay <= DelayCap
    /\ tier = "tool_call" /\ pc \in {"send", "wait"} => elapsed <= Budget + DelayCap
    /\ tier = "tool_call" \/ pc \in {"send", "wait"} =>
          elapsed <= Budget + DelayCap + MaxLatency
    /\ elapsed <= Budget + DelayCap + 2 * MaxLatency

\* The last request of the log is the one being waited for, slept after, or
\* the one that was rejected.
LogInv ==
    /\ ChannelsInOrder
    /\ pc \in {"wait", "sleep"} => sent # <<>> /\ sent[Len(sent)].tier = tier
    /\ pc = "sleep" => sent[Len(sent)].verdict = "transient"
    /\ pc = "send" /\ sent # <<>> =>
          \/ sent[Len(sent)].verdict = "transient" /\ sent[Len(sent)].tier = tier
          \/ /\ sent[Len(sent)].verdict = "rejected"
             /\ sent[Len(sent)].tier = "tool_call" /\ tier = "json_fallback"

ExtractInv == ExtractTypeOK /\ CountInv /\ ClockInv /\ LogInv

\* The caps make the largest delay a natural number.
LEMMA CapType == DelayCap \in Nat /\ Retries \in Nat
  BY TimesAssumption, CountAssumption DEF DelayCap, Retries

\* Before the first request everything is at its beginning.
LEMMA InitInv == ExtractInit => ExtractInv
  BY CapType, TimesAssumption
     DEF ExtractInit, ExtractInv, ExtractTypeOK, CountInv, ClockInv, LogInv, ChannelsInOrder,
         Tiers, Outcomes

\* Posting appends one request on the current channel.
LEMMA PostInv == ExtractInv /\ Post => ExtractInv'
<1> SUFFICES ASSUME ExtractInv, Post PROVE ExtractInv'
  OBVIOUS
<1> DEFINE new == [tier |-> tier, at |-> elapsed, verdict |-> "none"]
<1>1. new \in Requests /\ sent \in Seq(Requests) /\ sent' = Append(sent, new)
  BY DEF ExtractInv, ExtractTypeOK, Requests, Post
<1>2. /\ sent' \in Seq(Requests)
      /\ Len(sent') = Len(sent) + 1
      /\ \A k \in 1..Len(sent) : sent'[k] = sent[k]
      /\ sent'[Len(sent')] = new
  BY <1>1
<1>3. ExtractTypeOK'
  BY <1>2 DEF Post, ExtractInv, ExtractTypeOK
<1>4. CountInv'
  BY <1>2, CapType DEF Post, ExtractInv, ExtractTypeOK, CountInv, Tiers
<1>5. ClockInv'
  BY DEF Post, ExtractInv, ClockInv
<1>6. LogInv'
  <2>1. ASSUME NEW k \in 1..(Len(sent') - 1)
        PROVE  \/ sent'[k].verdict = "transient" /\ sent'[k + 1].tier = sent'[k].tier
               \/ /\ sent'[k].verdict = "rejected"
                  /\ sent'[k].tier = "tool_call" /\ sent'[k + 1].tier = "json_fallback"
    <3>1. CASE k = Len(sent)
      BY <1>1, <1>2, <3>1 DEF Post, ExtractInv, LogInv
    <3>2. CASE k < Len(sent)
      BY <1>1, <1>2, <3>2 DEF ExtractInv, LogInv, ChannelsInOrder
    <3> QED
      BY <1>1, <1>2, <3>1, <3>2
  <2>2. ChannelsInOrder'
    BY <2>1 DEF ChannelsInOrder
  <2>3. sent' # <<>> /\ sent'[Len(sent')].tier = tier
    BY <1>1, <1>2
  <2> QED
    BY <2>2, <2>3 DEF Post, LogInv
<1> QED
  BY <1>3, <1>4, <1>5, <1>6 DEF ExtractInv

\* What every reply does to the clock and to the log.
LEMMA ArrivesInv ==
  ASSUME ExtractInv, NEW v \in Verdicts, Arrives(v)
  PROVE  /\ elapsed' \in Nat /\ elapsed' <= elapsed + MaxLatency
         /\ sent' \in Seq(Requests) /\ Len(sent') = attempts /\ sent' # <<>>
         /\ sent'[Len(sent')].verdict = v /\ sent'[Len(sent')].tier = tier
         /\ ChannelsInOrder'
<1>1. sent \in Seq(Requests) /\ sent # <<>> /\ Len(sent) = attempts
  BY DEF ExtractInv, ExtractTypeOK, CountInv, Arrives
<1>2. sent' = [sent EXCEPT ![Len(sent)].verdict = v]
  BY DEF Arrives
<1>3. /\ sent' \in Seq(Requests)
      /\ Len(sent') = Len(sent)
      /\ \A k \in 1..(Len(sent) - 1) : sent'[k] = sent[k]
      /\ sent'[Len(sent)].verdict = v /\ sent'[Len(sent)].tier = sent[Len(sent)].tier
  BY <1>1, <1>2, Answered
<1>4. elapsed' \in Nat /\ elapsed' <= elapsed + MaxLatency
  BY TimesAssumption DEF Arrives, ExtractInv, ExtractTypeOK
<1>5. sent'[Len(sent')].tier = tier
  BY <1>3 DEF Arrives, ExtractInv, LogInv
<1>6. ChannelsInOrder'
  <2> SUFFICES ASSUME NEW k \in 1..(Len(sent') - 1)
               PROVE  \/ sent'[k].verdict = "transient" /\ sent'[k + 1].tier = sent'[k].tier
                      \/ /\ sent'[k].verdict = "rejected"
                         /\ sent'[k].tier = "tool_call"
                         /\ sent'[k + 1].tier = "json_fallback"
    BY DEF ChannelsInOrder
  <2>1. sent'[k] = sent[k] /\ k \in 1..(Len(sent) - 1)
    BY <1>1, <1>3
  <2>2. sent'[k + 1].tier = sent[k + 1].tier
    <3>1. CASE k + 1 = Len(sent)
      BY <1>3, <3>1
    <3>2. CASE k + 1 # Len(sent)
      BY <1>1, <1>3, <2>1, <3>2
    <3> QED
      BY <3>1, <3>2
  <2> QED
    BY <2>1, <2>2 DEF ExtractInv, LogInv, ChannelsInOrder
<1> QED
  BY <1>1, <1>3, <1>4, <1>5, <1>6

\* The invariant is inductive.
LEMMA NextInv == ExtractInv /\ [ExtractNext]_extractVars => ExtractInv'
<1> SUFFICES ASSUME ExtractInv, [ExtractNext]_extractVars PROVE ExtractInv'
  OBVIOUS
<1> USE CapType, TimesAssumption
<1>1. CASE Post
  BY <1>1, PostInv
<1>2. CASE Wake
  <2>1. ExtractTypeOK'
    BY <1>2 DEF Wake, ExtractInv, ExtractTypeOK
  <2>2. CountInv' /\ LogInv'
    BY <1>2 DEF Wake, ExtractInv, ExtractTypeOK, CountInv, LogInv, ChannelsInOrder, Tiers
  <2>3. ClockInv'
    BY <1>2 DEF Wake, ExtractInv, ExtractTypeOK, ClockInv
  <2> QED
    BY <2>1, <2>2, <2>3 DEF ExtractInv
<1>3. ASSUME NEW v \in Verdicts, Arrives(v), NEW how \in Outcomes, Ends(how),
             reasons' \subseteq Tiers, UNCHANGED <<tier, attempts, delay>>
      PROVE  ExtractInv'
  <2>1. ExtractTypeOK'
    BY <1>3, ArrivesInv DEF Ends, ExtractInv, ExtractTypeOK
  <2>2. CountInv'
    BY <1>3 DEF Ends, Arrives, ExtractInv, ExtractTypeOK, CountInv
  <2>3. ClockInv'
    BY <1>3, ArrivesInv, SMTT(30) DEF Ends, Arrives, ExtractInv, ExtractTypeOK, ClockInv, Tiers
  <2>4. LogInv'
    BY <1>3, ArrivesInv DEF Ends, LogInv
  <2> QED
    BY <2>1, <2>2, <2>3, <2>4 DEF ExtractInv
<1>4. CASE Succeed \/ GiveUp \/ NoChannelLeft \/ Fail
  BY <1>3, <1>4 DEF Succeed, GiveUp, NoChannelLeft, Fail, Ends, Verdicts, Outcomes,
                   ExtractInv, ExtractTypeOK
<1>5. CASE Retry
  <2>1. /\ elapsed' \in Nat /\ elapsed' < Budget
        /\ sent' \in Seq(Requests) /\ Len(sent') = attempts /\ sent' # <<>>
        /\ sent'[Len(sent')].verdict = "transient" /\ sent'[Len(sent')].tier = tier
        /\ ChannelsInOrder'
    BY <1>5, ArrivesInv DEF Retry, Verdicts
  <2>2. delay' \in Nat /\ delay' <= DelayCap
    BY <1>5, DelayBounds DEF Retry, ExtractInv, ExtractTypeOK
  <2>3. ExtractTypeOK'
    BY <1>5, <2>1, <2>2 DEF Retry, ExtractInv, ExtractTypeOK
  <2>4. CountInv'
    BY <1>5 DEF Retry, ExtractInv, ExtractTypeOK, CountInv
  <2>5. ClockInv'
    BY <1>5, <2>1, <2>2 DEF Retry, ClockInv
  <2>6. LogInv'
    BY <1>5, <2>1 DEF Retry, LogInv
  <2> QED
    BY <2>3, <2>4, <2>5, <2>6 DEF ExtractInv
<1>6. CASE FallBack
  <2>1. /\ elapsed' \in Nat /\ elapsed' <= elapsed + MaxLatency
        /\ sent' \in Seq(Requests) /\ Len(sent') = attempts /\ sent' # <<>>
        /\ sent'[Len(sent')].verdict = "rejected" /\ sent'[Len(sent')].tier = tier
        /\ ChannelsInOrder'
    BY <1>6, ArrivesInv DEF FallBack, Verdicts
  <2>2. ExtractTypeOK'
    BY <1>6, <2>1 DEF FallBack, ExtractInv, ExtractTypeOK, Tiers
  <2>3. CountInv'
    BY <1>6 DEF FallBack, ExtractInv, ExtractTypeOK, CountInv
  <2>4. ClockInv'
    <3>1. pc = "wait" /\ tier = "tool_call" /\ pc' = "send" /\ tier' = "json_fallback"
      BY <1>6 DEF FallBack, Arrives
    <3>2. elapsed <= Budget + DelayCap /\ elapsed \in Nat
      BY <3>1 DEF ExtractInv, ExtractTypeOK, ClockInv
    <3> QED
      BY <2>1, <3>1, <3>2 DEF ClockInv
  <2>5. LogInv'
    BY <1>6, <2>1 DEF FallBack, LogInv
  <2> QED
    BY <2>2, <2>3, <2>4, <2>5 DEF ExtractInv
<1>7. CASE UNCHANGED extractVars
  BY <1>7 DEF extractVars, ExtractInv, ExtractTypeOK, CountInv, ClockInv, LogInv, ChannelsInOrder
<1> QED
  BY <1>1, <1>2, <1>4, <1>5, <1>6, <1>7 DEF ExtractNext, Finished

\* So it holds in every reachable state.
LEMMA ExtractInvHolds == ExtractSpec => []ExtractInv
  BY InitInv, NextInv, PTL DEF ExtractSpec

-----------------------------------------------------------------------------
\* The state of an extraction stays well typed, and every attempt is counted.
THEOREM TypeCorrect == ExtractSpec => []ExtractTypeOK
  BY ExtractInvHolds, PTL DEF ExtractInv

-----------------------------------------------------------------------------
\* A retry is for an attempt within the count; the one request beyond it
\* follows the rejection of the last.
OverInv ==
    /\ pc = "sleep" => attempts <= Retries
    /\ pc = "send" /\ sent # <<>> /\ sent[Len(sent)].verdict = "transient"
          => attempts <= Retries
    /\ Len(sent) = Retries + 2 =>
          sent[Retries + 1].verdict = "rejected" /\ sent[Retries + 1].tier = "tool_call"

\* An answer to the last request leaves the one before it as it is.
LEMMA OverArrives ==
  ASSUME ExtractInv, OverInv, NEW v \in Verdicts, Arrives(v)
  PROVE  Len(sent') = Retries + 2 =>
           sent'[Retries + 1].verdict = "rejected" /\ sent'[Retries + 1].tier = "tool_call"
<1>1. sent \in Seq(Requests) /\ sent # <<>> /\ sent' = [sent EXCEPT ![Len(sent)].verdict = v]
  BY DEF ExtractInv, ExtractTypeOK, CountInv, Arrives
<1>2. Len(sent') = Len(sent) /\ \A k \in 1..(Len(sent) - 1) : sent'[k] = sent[k]
  BY <1>1, Answered
<1> QED
  BY <1>1, <1>2, CapType DEF OverInv

LEMMA NextOver == ExtractInv /\ OverInv /\ [ExtractNext]_extractVars => OverInv'
<1> SUFFICES ASSUME ExtractInv, OverInv, [ExtractNext]_extractVars PROVE OverInv'
  OBVIOUS
<1>1. CASE Post
  <2> DEFINE new == [tier |-> tier, at |-> elapsed, verdict |-> "none"]
  <2>1. /\ sent \in Seq(Requests) /\ Len(sent) = attempts /\ sent' = Append(sent, new)
        /\ pc = "send" /\ pc' = "wait" /\ tier \in Tiers
    BY <1>1 DEF ExtractInv, ExtractTypeOK, Post
  <2>2. Len(sent') = Len(sent) + 1 /\ \A k \in 1..Len(sent) : sent'[k] = sent[k]
    BY <2>1
  <2>3. ASSUME Len(sent') = Retries + 2
        PROVE  sent[Retries + 1].verdict = "rejected" /\ sent[Retries + 1].tier = "tool_call"
    <3>1. Len(sent) = Retries + 1 /\ attempts = Retries + 1 /\ sent # <<>>
      BY <2>1, <2>2, <2>3, CapType
    <3>2. sent[Len(sent)].verdict # "transient"
      BY <2>1, <3>1, CapType DEF OverInv
    <3> QED
      BY <2>1, <3>1, <3>2 DEF ExtractInv, LogInv
  <2> QED
    BY <2>1, <2>2, <2>3, CapType DEF OverInv
<1>2. CASE Wake
  BY <1>2 DEF Wake, OverInv
<1>3. ASSUME NEW v \in Verdicts, Arrives(v), pc' = "done" PROVE OverInv'
  BY <1>3, OverArrives DEF OverInv
<1>4. CASE Succeed \/ GiveUp \/ NoChannelLeft \/ Fail
  BY <1>3, <1>4 DEF Succeed, GiveUp, NoChannelLeft, Fail, Ends, Verdicts
<1>5. CASE Retry
  <2>1. Arrives("transient") /\ attempts <= Retries /\ pc' = "sleep" /\ attempts' = attempts
    BY <1>5 DEF Retry
  <2> QED
    BY <2>1, OverArrives DEF OverInv, Verdicts
<1>6. CASE FallBack
  <2>1. Arrives("rejected") /\ pc' = "send"
    BY <1>6 DEF FallBack
  <2>2. sent'[Len(sent')].verdict = "rejected"
    BY <2>1, ArrivesInv DEF Verdicts
  <2> QED
    BY <2>1, <2>2, OverArrives DEF OverInv, Verdicts
<1>7. CASE Finished \/ UNCHANGED extractVars
  BY <1>7 DEF Finished, extractVars, OverInv
<1> QED
  BY <1>1, <1>2, <1>4, <1>5, <1>6, <1>7 DEF ExtractNext

\* However rejections and transient failures mix, the provider gets at most
\* one request more than retry_count + 1, and that one only after the last
\* retry of the tool channel was rejected.
THEOREM RequestsAreBounded == ExtractSpec => []RequestsBounded
<1>1. ExtractInit => OverInv
  BY CapType DEF ExtractInit, OverInv
<1>2. ExtractInv /\ OverInv => RequestsBounded
  BY DEF ExtractInv, ExtractTypeOK, CountInv, OverInv, RequestsBounded
<1> QED
  BY <1>1, <1>2, NextOver, ExtractInvHolds, PTL DEF ExtractSpec

\* A retry never changes the channel and a rejection always does.
THEOREM ChannelsAreInOrder == ExtractSpec => []ChannelsInOrder
<1>1. ExtractInv => ChannelsInOrder
  BY DEF ExtractInv, LogInv
<1> QED
  BY <1>1, ExtractInvHolds, PTL

\* How long after its budget an extraction can still end.
THEOREM ElapsedIsBounded == ExtractSpec => []ElapsedBounded
<1>1. ExtractInv => ElapsedBounded
  BY DEF ExtractInv, ClockInv, ElapsedBounded
<1> QED
  BY <1>1, ExtractInvHolds, PTL

-----------------------------------------------------------------------------
\* The noted reasons are those of the channels that have been left: both when
\* no channel is left, the first one's when the other is being tried.
LoudInv ==
    /\ pc \in {"send", "wait", "sleep", "done"}
    /\ tier \in Tiers
    /\ pc # "done" => outcome = "none"
    /\ IF outcome = "missing"
       THEN tier = "json_fallback" /\ reasons = Tiers
       ELSE \/ tier = "tool_call" /\ reasons = {}
            \/ tier = "json_fallback" /\ reasons = {"tool_call"}

\* Every step keeps it: only FallBack leaves a channel and goes on.
LEMMA LoudStep ==
    ASSUME LoudInv, [ExtractNext]_extractVars
    PROVE  LoudInv'
<1>1. CASE Post
  BY <1>1 DEF Post, LoudInv, Tiers
<1>2. CASE Wake
  BY <1>2 DEF Wake, LoudInv, Tiers
<1>3. CASE Succeed
  BY <1>3 DEF Succeed, Arrives, Ends, LoudInv, Tiers
<1>4. CASE Retry
  BY <1>4 DEF Retry, Arrives, LoudInv, Tiers
<1>5. CASE GiveUp
  BY <1>5 DEF GiveUp, Arrives, Ends, LoudInv, Tiers
<1>6. CASE FallBack
  <2>1. tier = "tool_call" /\ pc = "wait" /\ reasons' = reasons \cup {tier}
    BY <1>6 DEF FallBack, Arrives
  <2>2. reasons = {} /\ outcome = "none"
    BY <2>1 DEF LoudInv
  <2>3. reasons' = {"tool_call"}
    BY <2>1, <2>2
  <2>4. tier' = "json_fallback" /\ pc' = "send" /\ outcome' = outcome
    BY <1>6 DEF FallBack
  <2> QED
    BY <2>2, <2>3, <2>4 DEF LoudInv, Tiers
<1>7. CASE NoChannelLeft
  <2>1. pc = "wait" /\ tier = "json_fallback" /\ reasons' = reasons \cup {tier}
    BY <1>7 DEF NoChannelLeft, Arrives
  <2>2. reasons = {"tool_call"}
    BY <2>1 DEF LoudInv
  <2>3. reasons' = Tiers
    BY <2>1, <2>2 DEF Tiers
  <2>4. tier' = tier /\ pc' = "done" /\ outcome' = "missing"
    BY <1>7 DEF NoChannelLeft, Ends
  <2> QED
    BY <2>1, <2>3, <2>4 DEF LoudInv, Tiers
<1>8. CASE Fail
  BY <1>8 DEF Fail, Arrives, Ends, LoudInv, Tiers
<1>9. CASE Finished \/ UNCHANGED extractVars
  BY <1>9 DEF Finished, extractVars, LoudInv
<1> QED
  BY <1>1, <1>2, <1>3, <1>4, <1>5, <1>6, <1>7, <1>8, <1>9 DEF ExtractNext

\* The JSON channel is never asked without the reason why the tool channel
\* was left, and the report that no channel is left has both reasons.
THEOREM FallbackIsNeverSilent == ExtractSpec => []FallbackIsLoud
<1>1. ExtractInit => LoudInv
  BY DEF ExtractInit, LoudInv, Tiers
<1>2. LoudInv => FallbackIsLoud
  BY DEF LoudInv, FallbackIsLoud, Tiers
<1> QED
  BY <1>1, <1>2, LoudStep, PTL DEF ExtractSpec
=============================================================================
