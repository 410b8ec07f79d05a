------------------------------ MODULE Extract ------------------------------
(***************************************************************************)
(* extract_structured: how one ingestion asks the LLM provider for tasks.  *)
(* Two channels are tried in order, forced tool calling and then JSON      *)
(* output.  A transient failure sends the same request again after a       *)
(* backoff; a rejection moves on to the next channel; anything else ends   *)
(* the extraction.  The count of attempts and the deadline are shared by   *)
(* both channels.                                                          *)
(*                                                                         *)
(* One extraction is one coroutine and shares nothing, so its steps are    *)
(* the posts, the replies and the sleeps, with the time each takes.        *)
(* `sent', the requests and how each was answered, is only read by the     *)
(* properties.                                                             *)
(***************************************************************************)
EXTENDS Integers, Sequences, FiniteSets

CONSTANTS
    RetryCount,   \* [llm].retry_count
    Base,         \* [llm].retry_backoff_seconds, in clock ticks
    Budget,       \* RETRY_TOTAL_BUDGET_SECONDS
    MaxBackoff,   \* MAX_BACKOFF_SECONDS
    RetryCap,     \* RETRY_AFTER_CAP_SECONDS
    RetryAfters,  \* the Retry-After headers of the provider
    MaxLatency    \* bound on how long the provider lets a request take

ASSUME CountAssumption == RetryCount \in Int
ASSUME TimesAssumption ==
    /\ Base \in Int /\ Budget \in Nat \ {0} /\ MaxBackoff \in Nat
    /\ RetryCap \in Nat /\ RetryAfters \subseteq Nat /\ MaxLatency \in Nat

VARIABLES
    pc,        \* "send", "wait", "sleep" or "done"
    tier,      \* the channel being tried
    attempts,  \* run.attempts
    elapsed,   \* perf_counter() - started
    delay,     \* the sleep before the next attempt
    reasons,   \* the channels whose rejection was noted
    outcome,   \* how the extraction ended
    sent       \* every request posted, and how its reply was understood

extractVars == <<pc, tier, attempts, elapsed, delay, reasons, outcome, sent>>

Tiers == {"tool_call", "json_fallback"}

Retries == IF RetryCount > 0 THEN RetryCount ELSE 0

-----------------------------------------------------------------------------
(* Replies.                                                                *)

\* What can come back: no connection or a timeout; an HTTP 5xx, 408, 425 or
\* 429; a 400 or 422 about tool_choice; another HTTP error; a body that is
\* not JSON, or JSON but no object; a body that reports a passing fault, or
\* output that was cut short or filtered; no items this channel can read;
\* items.
ProviderReplies == {"unreachable", "busy", "tool_choice", "refused", "not_json",
            "no_object", "faulted", "cut_short", "no_items", "items"}

\* The exception a reply is turned into, or "items".  A body that is no
\* object has no .get: the AttributeError is no LLMError.
Verdict(t, reply) ==
    CASE reply \in {"unreachable", "busy", "faulted"}         -> "transient"
      [] reply = "tool_choice" /\ t = "tool_call"             -> "rejected"
      [] reply = "no_items"                                   -> "rejected"
      [] reply = "tool_choice" /\ t # "tool_call"             -> "failed"
      [] reply \in {"refused", "not_json", "cut_short"}       -> "failed"
      [] reply = "no_object"                                  -> "raised"
      [] reply = "items"                                      -> "items"

Verdicts == {"transient", "rejected", "failed", "raised", "items"}

NoHeader == -1

AtMost(d, cap) == IF d > cap THEN cap ELSE d

\* The exponential backoff, with a quarter of jitter either way.
Jittered(attempt) ==
    LET base == IF Base > 0 THEN Base ELSE 0
        full == base * 2 ^ (attempt - 1)
    IN  ((3 * full) \div 4 .. (5 * full + 3) \div 4) \cap Nat

\* Faulty: the cap on Retry-After is forgotten.
DelaysUncapped(attempt, after) ==
    IF after # NoHeader
    THEN {after}
    ELSE {AtMost(d, MaxBackoff) : d \in Jittered(attempt)}

\* _backoff: what the provider asks for, or else the exponential delay, each
\* under its cap.
Delays(attempt, after) ==
    IF after # NoHeader
    THEN {AtMost(after, RetryCap)}
    ELSE {AtMost(d, MaxBackoff) : d \in Jittered(attempt)}

-----------------------------------------------------------------------------
ExtractInit ==
    /\ pc = "send" /\ tier = "tool_call" /\ attempts = 0
    /\ elapsed = 0 /\ delay = 0
    /\ reasons = {} /\ outcome = "none" /\ sent = <<>>

Post ==
    /\ pc = "send"
    /\ attempts' = attempts + 1
    /\ sent' = Append(sent, [tier |-> tier, at |-> elapsed, verdict |-> "none"])
    /\ pc' = "wait"
    /\ UNCHANGED <<tier, elapsed, delay, reasons, outcome>>

\* Time passes and a reply with this verdict arrives (only a busy server's
\* reply has a Retry-After header; other transient failures back off).
Arrives(verdict) ==
    /\ pc = "wait"
    /\ \E reply \in ProviderReplies : Verdict(tier, reply) = verdict
    /\ \E took \in 0..MaxLatency : elapsed' = elapsed + took
    /\ sent' = [sent EXCEPT ![Len(sent)].verdict = verdict]

Ends(how) == pc' = "done" /\ outcome' = how

Succeed ==
    /\ Arrives("items")
    /\ Ends("items")
    /\ UNCHANGED <<tier, attempts, delay, reasons>>

\* Faulty: the retry goes out on the JSON channel.
RetryOnTheOtherChannel ==
    /\ Arrives("transient")
    /\ attempts <= Retries
    /\ elapsed' < Budget
    /\ \E after \in RetryAfters \cup {NoHeader} : delay' \in Delays(attempts, after)
    /\ pc' = "sleep" /\ tier' = "json_fallback"
    /\ UNCHANGED <<attempts, reasons, outcome>>

Retry ==
    /\ Arrives("transient")
    /\ attempts <= Retries
    /\ elapsed' < Budget
    /\ \E after \in RetryAfters \cup {NoHeader} : delay' \in Delays(attempts, after)
    /\ pc' = "sleep"
    /\ UNCHANGED <<tier, attempts, reasons, outcome>>

GiveUp ==
    /\ Arrives("transient")
    /\ \/ attempts > Retries /\ Ends("exhausted")
       \/ attempts <= Retries /\ elapsed' >= Budget /\ Ends("budget")
    /\ UNCHANGED <<tier, attempts, delay, reasons>>

\* Faulty: a retry that would fall out of the budget is put off.
WakeWithinBudget ==
    /\ pc = "sleep"
    /\ \/ /\ elapsed + delay < Budget
          /\ elapsed' = elapsed + delay /\ pc' = "send"
          /\ UNCHANGED <<tier, attempts, delay, reasons, outcome, sent>>
       \/ /\ elapsed + delay >= Budget
          /\ UNCHANGED extractVars

Wake ==
    /\ pc = "sleep"
    /\ elapsed' = elapsed + delay
    /\ pc' = "send"
    /\ UNCHANGED <<tier, attempts, delay, reasons, outcome, sent>>

\* Faulty: the reason of the first channel is not kept.
FallBackSilently ==
    /\ tier = "tool_call"
    /\ Arrives("rejected")
    /\ tier' = "json_fallback" /\ pc' = "send"
    /\ UNCHANGED <<attempts, delay, reasons, outcome>>

\* Faulty: the JSON channel counts its attempts from the beginning.
FallBackCountsAnew ==
    /\ tier = "tool_call"
    /\ Arrives("rejected")
    /\ reasons' = reasons \cup {tier}
    /\ tier' = "json_fallback" /\ pc' = "send" /\ attempts' = 0
    /\ UNCHANGED <<delay, outcome>>

FallBack ==
    /\ tier = "tool_call"
    /\ Arrives("rejected")
    /\ reasons' = reasons \cup {tier}
    /\ tier' = "json_fallback" /\ pc' = "send"
    /\ UNCHANGED <<attempts, delay, outcome>>

NoChannelLeft ==
    /\ tier = "json_fallback"
    /\ Arrives("rejected")
    /\ reasons' = reasons \cup {tier}
    /\ Ends("missing")
    /\ UNCHANGED <<tier, attempts, delay>>

Fail ==
    /\ \/ Arrives("failed") /\ Ends("failed")
       \/ Arrives("raised") /\ Ends("raised")
    /\ UNCHANGED <<tier, attempts, delay, reasons>>

Finished == pc = "done" /\ UNCHANGED extractVars

ExtractNext ==
    \/ Post \/ Wake
    \/ Succeed \/ Retry \/ GiveUp \/ FallBack \/ NoChannelLeft \/ Fail
    \/ Finished

ExtractSpec == ExtractInit /\ [][ExtractNext]_extractVars

\* The event loop resumes what is due, and every request comes back or times
\* out.
ExtractFairSpec == ExtractSpec /\ WF_extractVars(ExtractNext)

-----------------------------------------------------------------------------
Outcomes == {"none", "items", "exhausted", "budget", "missing", "failed", "raised"}

Requests == [tier : Tiers, at : Nat, verdict : Verdicts \cup {"none"}]

ExtractTypeOK ==
    /\ pc \in {"send", "wait", "sleep", "done"}
    /\ tier \in Tiers
    /\ attempts \in Nat /\ elapsed \in Nat /\ delay \in Nat
    /\ reasons \subseteq Tiers
    /\ outcome \in Outcomes
    /\ sent \in Seq(Requests)
    /\ Len(sent) = attempts

\* The JSON channel adds one request at most: with retries left it shares
\* the count, and only when the last retry of the tool channel is rejected is
\* it posted once beyond it.  (Against config.py:114-115, see RequestTotal.)
RequestsBounded ==
    /\ Len(sent) <= Retries + 2
    /\ Len(sent) = Retries + 2 =>
          sent[Retries + 1].verdict = "rejected" /\ sent[Retries + 1].tier = "tool_call"

\* Retrying and falling back are kept apart: after a transient failure the
\* same channel is asked again, the JSON channel is asked only after the tool
\* channel rejected, and nothing is asked after a final answer.
ChannelsInOrder ==
    \A k \in 1..(Len(sent) - 1) :
        \/ sent[k].verdict = "transient" /\ sent[k + 1].tier = sent[k].tier
        \/ /\ sent[k].verdict = "rejected"
           /\ sent[k].tier = "tool_call" /\ sent[k + 1].tier = "json_fallback"

DelayCap == IF RetryCap > MaxBackoff THEN RetryCap ELSE MaxBackoff

\* An extraction is over some time after its budget: the last sleep, the
\* retry it was for, and the JSON channel's one request come on top.
ElapsedBounded == elapsed <= Budget + DelayCap + 2 * MaxLatency

\* No degrading without a trace: whoever asks the JSON channel has the reason
\* why the tool channel was left, items come with no other reason, and the
\* report that no channel is left has both.  (Another error of the JSON channel
\* ends the extraction and names itself only.)
FallbackIsLoud ==
    /\ tier = "json_fallback" <=> "tool_call" \in reasons
    /\ outcome = "items" => "json_fallback" \notin reasons
    /\ outcome = "missing" => reasons = Tiers

\* An extraction that has sent a request ends, whatever the provider answers.
Terminates == sent # <<>> ~> pc = "done"

-----------------------------------------------------------------------------
(* What the documents say and the two channels refute.                     *)

\* "The number of retries before giving up, without the first attempt.  So
\* the total of requests is at most retry_count + 1" (config.py:114-115).
RequestTotal == Len(sent) <= Retries + 1
=============================================================================
