---------------------------- MODULE RateLimiter ----------------------------
(***************************************************************************)
(* SlidingWindowLimiter, the in-process limiter in front of POST           *)
(* /api/login (a key per client address) and POST /api/ingest (a key per   *)
(* credential).  check is one step: it runs under the limiter's lock, and  *)
(* both callers are coroutines of the one event loop, so the moments it    *)
(* reads do not run backwards.                                             *)
(*                                                                         *)
(* `admitted', `asked' and `promised' are only read by the properties: the *)
(* calls that were let through, all calls, and the moment at which the     *)
(* Retry-After header of the last refusal told the caller to come back.    *)
(***************************************************************************)
EXTENDS Integers, Sequences, FiniteSets

CONSTANTS
    Caller,   \* client addresses or credentials
    Limit,    \* calls allowed ...
    Window,   \* ... in so many clock ticks
    Grain,    \* clock ticks in the tenth of a second round() keeps
    Second,   \* clock ticks in a second
    Crowd,    \* the number of buckets above which empty ones are reclaimed
    MaxTime,  \* bound on the clock
    MaxCalls  \* bound on the calls of one key

\* A second is a whole number of the tenths.
ASSUME LimiterAssumption ==
    /\ Limit \in Nat \ {0} /\ Window \in Nat \ {0}
    /\ Grain \in Nat \ {0} /\ Second \in Nat \ {0} /\ Second % Grain = 0
    /\ Crowd \in Nat /\ MaxTime \in Nat /\ MaxCalls \in Nat

VARIABLES
    hits,      \* the buckets: a sequence of moments for every key in the dict
    now,       \* time.monotonic()
    admitted,  \* for every key the moments of its admitted calls
    asked,     \* for every key the moments of all its calls
    promised   \* for every key the moment Retry-After named, 0 if none stands

limiterVars == <<hits, now, admitted, asked, promised>>

\* self._hits is a defaultdict.
Bucket(k) == IF k \in DOMAIN hits THEN hits[k] ELSE <<>>

\* Faulty: a call that is exactly one window old is kept.
ExpiresStrictly(bucket, n) ==
    /\ \A i \in 1..n : bucket[i] < now - Window
    /\ n < Len(bucket) => bucket[n + 1] >= now - Window

\* n is how many entries the popleft loop takes off this bucket.
Expires(bucket, n) ==
    /\ \A i \in 1..n : bucket[i] <= now - Window
    /\ n < Len(bucket) => bucket[n + 1] > now - Window

Kept(bucket, n) == SubSeq(bucket, n + 1, Len(bucket))

WithBucket(k, bucket) == [h \in DOMAIN hits \cup {k} |-> IF h = k THEN bucket ELSE hits[h]]

\* Faulty: the buckets that are not empty go.
ReclaimedFull(table) ==
    IF Cardinality(DOMAIN table) > Crowd
    THEN [h \in {h \in DOMAIN table : table[h] = <<>>} |-> table[h]]
    ELSE table

\* The reclaiming at the end of an admission: only buckets that are empty go.
Reclaimed(table) ==
    IF Cardinality(DOMAIN table) > Crowd
    THEN [h \in {h \in DOMAIN table : table[h] # <<>>} |-> table[h]]
    ELSE table

\* round(x, 1), to the nearest tenth; a tie may go either way.
Tenths(x) == {t \in 0..(x + Grain) : t % Grain = 0 /\ 2 * (t - x) <= Grain
                                                  /\ 2 * (x - t) <= Grain}

\* Faulty: the seconds are cut off.
HeaderTruncated(wait) == wait \div Second

\* The Retry-After header: int(retry_after) + 1, in seconds.
Header(wait) == wait \div Second + 1

-----------------------------------------------------------------------------
LimiterInit ==
    /\ hits = [k \in {} |-> <<>>]
    /\ now = 0
    /\ admitted = [k \in Caller |-> <<>>]
    /\ asked = [k \in Caller |-> <<>>]
    /\ promised = [k \in Caller |-> 0]

Admit(k, n) ==
    /\ Expires(Bucket(k), n)
    /\ Len(Kept(Bucket(k), n)) < Limit
    /\ hits' = Reclaimed(WithBucket(k, Append(Kept(Bucket(k), n), now)))
    /\ admitted' = [admitted EXCEPT ![k] = Append(@, now)]
    /\ asked' = [asked EXCEPT ![k] = Append(@, now)]
    /\ promised' = [promised EXCEPT ![k] = 0]
    /\ UNCHANGED now

\* `return False' before the append: a refused call leaves nothing behind.
Refuse(k, n) ==
    LET bucket == Kept(Bucket(k), n) IN
    /\ Expires(Bucket(k), n)
    /\ Len(bucket) >= Limit
    /\ hits' = WithBucket(k, bucket)
    /\ \E wait \in Tenths(bucket[1] + Window - now) :
          promised' = [promised EXCEPT ![k] = now + Second * Header(wait)]
    /\ asked' = [asked EXCEPT ![k] = Append(@, now)]
    /\ UNCHANGED <<now, admitted>>

Tick ==
    /\ now < MaxTime
    /\ now' = now + 1
    /\ UNCHANGED <<hits, admitted, asked, promised>>

\* No one calls any more.
Rest == now = MaxTime /\ UNCHANGED limiterVars

Check(k) ==
    /\ Len(asked[k]) < MaxCalls
    /\ \E n \in 0..Len(Bucket(k)) : Admit(k, n) \/ Refuse(k, n)

LimiterNext ==
    \/ \E k \in Caller : Check(k)
    \/ Tick \/ Rest

LimiterSpec == LimiterInit /\ [][LimiterNext]_limiterVars

-----------------------------------------------------------------------------
\* A bucket is made by an admission, and neither expiring nor reclaiming ever
\* leaves one empty: the caller's own keeps the call just admitted, or the
\* Limit calls that refuse it.
LimiterTypeOK ==
    /\ DOMAIN hits \subseteq Caller /\ hits \in [DOMAIN hits -> Seq(Nat)]
    /\ \A k \in DOMAIN hits : Len(hits[k]) \in 1..Limit
    /\ now \in Nat
    /\ admitted \in [Caller -> Seq(Nat)]
    /\ asked \in [Caller -> Seq(Nat)]
    /\ promised \in [Caller -> Nat]

\* What the limiter is for: of the calls it lets through, any Limit + 1 in a
\* row take at least a window; expiring, refusing and reclaiming never make
\* it forget a call that still counts.
WindowRespected ==
    \A k \in Caller : \A i \in 1..(Len(admitted[k]) - Limit) :
        admitted[k][i + Limit] >= admitted[k][i] + Window

\* The admitted calls of k that are still within the window.
Recent(k) == {i \in 1..Len(admitted[k]) : admitted[k][i] > now - Window}

Refused(k) == asked'[k] # asked[k] /\ admitted'[k] = admitted[k]

\* A caller is turned away only by admitted calls of its own that still count,
\* and a call counts for less than a window.  (Against docs/api.md:1074, see
\* RefusedCallsCount.)
RefusedOnlyWhenFull ==
    [][\A k \in Caller : Refused(k) => Cardinality(Recent(k)) = Limit]_limiterVars

\* A caller that was turned away, made no other call that was let through,
\* and comes back when Retry-After said, is let through: the rounding of the
\* wait to tenths and of the header to seconds never makes it too short.
RetryAfterSuffices ==
    [][\A k \in Caller : Refused(k) /\ promised[k] # 0 => now < promised[k]]_limiterVars

-----------------------------------------------------------------------------
(* What the documents say and check refutes.                               *)

\* "Requests refused by the limiter count against the quota, too"
\* (docs/api.md:1074): a call is let through only if fewer than Limit calls
\* of its caller, refused ones included, are within the window.
RefusedCallsCount ==
    [][\A k \in Caller : admitted'[k] # admitted[k] =>
          Cardinality({i \in 1..Len(asked[k]) : asked[k][i] > now - Window}) < Limit]_limiterVars
=============================================================================
