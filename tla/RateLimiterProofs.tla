-------------------------- MODULE RateLimiterProofs --------------------------
(***************************************************************************)
(* Proofs about RateLimiter, for every set of callers, limit, window,      *)
(* rounding and reclaiming threshold.                                      *)
(***************************************************************************)
EXTENDS RateLimiter, SequenceTheorems, FiniteSetTheorems, TLAPS

-----------------------------------------------------------------------------
(* Buckets.                                                                *)

\* A bucket holds the last calls that were admitted, in order, and those
\* before them are out of the window.
HoldsLast(bucket, a, moment) ==
    LET m == Len(a) - Len(bucket)
    IN  /\ m >= 0
        /\ \A j \in 1..Len(bucket) : bucket[j] = a[m + j]
        /\ \A i \in 1..m : a[i] <= moment - Window

BucketInv == \A k \in Caller : HoldsLast(Bucket(k), admitted[k], now)

LimiterInv == LimiterTypeOK /\ BucketInv /\ WindowRespected

\* The bucket of every key is a sequence of moments.
LEMMA BucketType ==
  ASSUME LimiterTypeOK, NEW k \in Caller
  PROVE  Bucket(k) \in Seq(Nat)
  BY DEF Bucket, LimiterTypeOK

\* What expiring keeps of a bucket is its end.
LEMMA KeptEnd ==
  ASSUME NEW b \in Seq(Nat), NEW n \in 0..Len(b)
  PROVE  /\ Kept(b, n) \in Seq(Nat)
         /\ Len(Kept(b, n)) = Len(b) - n
         /\ \A j \in 1..(Len(b) - n) : Kept(b, n)[j] = b[n + j]
<1>1. /\ Len(Kept(b, n)) = IF n + 1 <= Len(b) THEN Len(b) - (n + 1) + 1 ELSE 0
      /\ Kept(b, n) \in Seq(Nat)
      /\ \A i \in 1..(Len(b) - (n + 1) + 1) : Kept(b, n)[i] = b[(n + 1) + i - 1]
  BY SubSeqProperties DEF Kept
<1>2. \A j \in 1..(Len(b) - n) : (n + 1) + j - 1 = n + j
  OBVIOUS
<1> QED
  BY <1>1, <1>2

\* Reclaiming is not seen by anyone: it takes empty buckets only.
LEMMA ReclaimUnseen ==
  ASSUME LimiterTypeOK, NEW k \in Caller, NEW b \in Seq(Nat), Len(b) \in 1..Limit,
         hits' = Reclaimed(WithBucket(k, b))
  PROVE  /\ DOMAIN hits' \subseteq Caller /\ hits' \in [DOMAIN hits' -> Seq(Nat)]
         /\ \A h \in DOMAIN hits' : Len(hits'[h]) \in 1..Limit
         /\ \A h \in Caller : Bucket(h)' = IF h = k THEN b ELSE Bucket(h)
<1> DEFINE t == WithBucket(k, b)
<1>1. /\ DOMAIN t = DOMAIN hits \cup {k} /\ t \in [DOMAIN t -> Seq(Nat)]
      /\ t[k] = b
      /\ \A h \in DOMAIN hits : h # k => t[h] = hits[h]
  BY DEF WithBucket, LimiterTypeOK
<1>2. \A h \in DOMAIN t : Len(t[h]) \in 1..Limit
  BY <1>1 DEF LimiterTypeOK
<1>3. \A h \in DOMAIN t : t[h] # <<>>
  BY <1>2, LimiterAssumption
<1>4. hits' = t
  <2>1. t = [h \in DOMAIN t |-> t[h]]
    BY <1>1
  <2> HIDE DEF t
  <2>2. {h \in DOMAIN t : t[h] # <<>>} = DOMAIN t
    BY <1>3
  <2> QED
    BY <2>1, <2>2 DEF Reclaimed, t
<1>5. DOMAIN t \subseteq Caller
  BY <1>1 DEF LimiterTypeOK
<1>6. \A h \in Caller : Bucket(h)' = IF h = k THEN b ELSE Bucket(h)
  BY <1>1, <1>4 DEF Bucket
<1> HIDE DEF t
<1> QED
  BY <1>1, <1>2, <1>4, <1>5, <1>6

\* The same without reclaiming, after a refusal.
LEMMA BucketReplaced ==
  ASSUME LimiterTypeOK, NEW k \in Caller, NEW b \in Seq(Nat), Len(b) \in 1..Limit,
         hits' = WithBucket(k, b)
  PROVE  /\ DOMAIN hits' \subseteq Caller /\ hits' \in [DOMAIN hits' -> Seq(Nat)]
         /\ \A h \in DOMAIN hits' : Len(hits'[h]) \in 1..Limit
         /\ \A h \in Caller : Bucket(h)' = IF h = k THEN b ELSE Bucket(h)
  BY DEF WithBucket, LimiterTypeOK, Bucket

-----------------------------------------------------------------------------
(* The invariant is inductive.                                             *)

\* No call has been made yet.
LEMMA InitInv == LimiterInit => LimiterInv
<1> SUFFICES ASSUME LimiterInit PROVE LimiterInv
  OBVIOUS
<1>1. LimiterTypeOK
  BY DEF LimiterInit, LimiterTypeOK
<1>2. \A k \in Caller : Bucket(k) = <<>> /\ admitted[k] = <<>>
  BY DEF LimiterInit, Bucket
<1>3. BucketInv
  BY <1>2 DEF BucketInv, HoldsLast
<1>4. WindowRespected
  BY <1>2, LimiterAssumption DEF WindowRespected
<1> QED
  BY <1>1, <1>3, <1>4 DEF LimiterInv

\* Taking expired calls off a bucket leaves a bucket.
LEMMA ExpiredKept ==
  ASSUME LimiterInv, NEW k \in Caller, NEW n \in 0..Len(Bucket(k)), Expires(Bucket(k), n)
  PROVE  LET a == admitted[k]
             b == Kept(Bucket(k), n)
             m == Len(a) - Len(b)
         IN  /\ b \in Seq(Nat) /\ m \in Nat
             /\ \A j \in 1..Len(b) : b[j] = a[m + j]
             /\ \A i \in 1..m : a[i] <= now - Window
<1> DEFINE a == admitted[k]
           b == Kept(Bucket(k), n)
           old == Len(a) - Len(Bucket(k))
           m == Len(a) - Len(b)
<1>1. Bucket(k) \in Seq(Nat) /\ a \in Seq(Nat)
  BY BucketType DEF LimiterInv, LimiterTypeOK
<1>2. /\ b \in Seq(Nat) /\ Len(b) = Len(Bucket(k)) - n
      /\ \A j \in 1..(Len(Bucket(k)) - n) : b[j] = Bucket(k)[n + j]
  BY <1>1, KeptEnd
<1>3. /\ old >= 0
      /\ \A j \in 1..Len(Bucket(k)) : Bucket(k)[j] = a[old + j]
      /\ \A i \in 1..old : a[i] <= now - Window
  BY DEF LimiterInv, BucketInv, HoldsLast
<1>4. /\ m = old + n /\ m \in Nat /\ old \in Nat
      /\ Len(b) \in Nat /\ Len(Bucket(k)) = Len(b) + n
  BY <1>1, <1>2, <1>3
<1> HIDE DEF a, b, old, m
<1>5. ASSUME NEW j \in 1..Len(b) PROVE b[j] = a[m + j]
  <2>1. n + j \in 1..Len(Bucket(k)) /\ old + (n + j) = m + j
    BY <1>4
  <2>2. b[j] = Bucket(k)[n + j]
    BY <1>2, <1>4
  <2> QED
    BY <1>3, <2>1, <2>2
<1>6. ASSUME NEW i \in 1..m PROVE a[i] <= now - Window
  <2>1. CASE i <= old
    BY <1>3, <1>4, <2>1
  <2>2. CASE i > old
    <3>1. i - old \in 1..n /\ i - old \in 1..Len(Bucket(k)) /\ old + (i - old) = i
      BY <1>4, <2>2
    <3>2. Bucket(k)[i - old] <= now - Window
      BY <3>1 DEF Expires
    <3> QED
      BY <1>3, <3>1, <3>2
  <2> QED
    BY <1>4, <2>1, <2>2
<1> QED
  BY <1>2, <1>4, <1>5, <1>6 DEF a, b, m

\* An admission finds fewer than Limit calls in its bucket, so the Limit-th
\* admitted call before it is out of the window.
LEMMA AdmitInv ==
  ASSUME LimiterInv, NEW k \in Caller, NEW n \in 0..Len(Bucket(k)), Admit(k, n)
  PROVE  LimiterInv'
<1> DEFINE a == admitted[k]
           b == Kept(Bucket(k), n)
           m == Len(a) - Len(b)
           new == Append(b, now)
<1>0. LimiterTypeOK /\ a \in Seq(Nat) /\ now \in Nat
  BY DEF LimiterInv, LimiterTypeOK
<1>1. /\ b \in Seq(Nat) /\ m \in Nat
      /\ \A j \in 1..Len(b) : b[j] = a[m + j]
      /\ \A i \in 1..m : a[i] <= now - Window
  BY ExpiredKept DEF Admit
<1>2. Len(b) < Limit /\ hits' = Reclaimed(WithBucket(k, new))
  BY DEF Admit
<1>3. new \in Seq(Nat) /\ Len(new) = Len(b) + 1 /\ Len(new) \in 1..Limit
  BY <1>0, <1>1, <1>2, LimiterAssumption
<1>4. /\ DOMAIN hits' \subseteq Caller /\ hits' \in [DOMAIN hits' -> Seq(Nat)]
      /\ \A h \in DOMAIN hits' : Len(hits'[h]) \in 1..Limit
      /\ \A h \in Caller : Bucket(h)' = IF h = k THEN new ELSE Bucket(h)
  BY <1>0, <1>2, <1>3, ReclaimUnseen
<1>5. /\ admitted' = [admitted EXCEPT ![k] = Append(a, now)]
      /\ UNCHANGED now
  BY DEF Admit
<1>6. /\ admitted'[k] = Append(a, now)
      /\ \A h \in Caller : h # k => admitted'[h] = admitted[h]
  BY <1>0, <1>5 DEF LimiterTypeOK
<1>7. LimiterTypeOK'
  BY <1>0, <1>4, <1>5 DEF Admit, LimiterTypeOK
<1>10. Len(a) \in Nat /\ Len(b) \in Nat /\ Len(a) = m + Len(b)
  BY <1>0, <1>1
<1> HIDE DEF b, new, m
<1>8. BucketInv'
  <2> SUFFICES ASSUME NEW h \in Caller
               PROVE  LET c == admitted'[h]
                          l == Len(c) - Len(Bucket(h)')
                      IN  /\ l >= 0
                          /\ \A j \in 1..Len(Bucket(h)') : Bucket(h)'[j] = c[l + j]
                          /\ \A i \in 1..l : c[i] <= now' - Window
    BY DEF BucketInv, HoldsLast
  <2>1. CASE h # k
    <3>1. HoldsLast(Bucket(h), admitted[h], now)
      BY DEF LimiterInv, BucketInv
    <3>2. Bucket(h)' = Bucket(h) /\ admitted'[h] = admitted[h] /\ now' = now
      BY <1>4, <1>5, <1>6, <2>1
    <3> QED
      BY <3>1, <3>2, Zenon DEF HoldsLast
  <2>2. CASE h = k
    <3>1. Bucket(h)' = new /\ admitted'[h] = Append(a, now)
      BY <1>4, <1>6, <2>2
    <3>2. Len(Append(a, now)) - Len(new) = m
      BY <1>0, <1>1, <1>3, <1>10
    <3>3. \A j \in 1..Len(new) : new[j] = Append(a, now)[m + j]
      <4> SUFFICES ASSUME NEW j \in 1..Len(new) PROVE new[j] = Append(a, now)[m + j]
        OBVIOUS
      <4>1. CASE j = Len(new)
        <5>1. new[j] = now
          BY <1>0, <1>1, <1>3, <4>1 DEF new
        <5>2. m + j = Len(a) + 1
          BY <1>1, <1>3, <1>10, <4>1
        <5> QED
          BY <1>0, <5>1, <5>2
      <4>2. CASE j # Len(new)
        <5>1. j \in 1..Len(b) /\ new[j] = b[j]
          BY <1>0, <1>1, <1>3, <4>2 DEF new
        <5>2. m + j \in 1..Len(a)
          BY <1>0, <1>1, <5>1 DEF m
        <5> QED
          BY <1>0, <1>1, <5>1, <5>2
      <4> QED
        BY <4>1, <4>2
    <3>4. \A i \in 1..m : Append(a, now)[i] <= now - Window
      <4> SUFFICES ASSUME NEW i \in 1..m PROVE Append(a, now)[i] <= now - Window
        OBVIOUS
      <4>1. i \in 1..Len(a)
        BY <1>0, <1>1 DEF m
      <4> QED
        BY <1>0, <1>1, <4>1
    <3>5. Len(admitted'[h]) - Len(Bucket(h)') = m /\ m >= 0
      BY <1>1, <3>1, <3>2
    <3>6. \A j \in 1..Len(Bucket(h)') : Bucket(h)'[j] = admitted'[h][m + j]
      BY <3>1, <3>3
    <3>7. \A i \in 1..m : admitted'[h][i] <= now' - Window
      BY <1>5, <3>1, <3>4
    <3> QED
      BY <3>5, <3>6, <3>7
  <2> QED
    BY <2>1, <2>2
<1>9. WindowRespected'
  <2> SUFFICES ASSUME NEW h \in Caller, NEW i \in 1..(Len(admitted'[h]) - Limit)
               PROVE  admitted'[h][i + Limit] >= admitted'[h][i] + Window
    BY DEF WindowRespected
  <2>1. CASE h # k
    BY <1>6, <2>1 DEF LimiterInv, WindowRespected
  <2>2. CASE h = k
    <3>0. admitted'[h] = Append(a, now) /\ Len(Append(a, now)) = Len(a) + 1
      BY <1>0, <1>6, <2>2
    <3>1. CASE i = Len(a) + 1 - Limit
      <4>1. i + Limit = Len(a) + 1 /\ i \in 1..Len(a)
        BY <1>0, <3>0, <3>1, LimiterAssumption
      <4>2. i \in 1..m
        BY <1>0, <1>1, <1>2, <3>1, <4>1, LimiterAssumption DEF m
      <4>3. Append(a, now)[i + Limit] = now /\ Append(a, now)[i] = a[i]
        BY <1>0, <4>1
      <4>4. a[i] <= now - Window /\ a[i] \in Nat
        BY <1>0, <1>1, <4>1, <4>2, SMTT(30)
      <4> QED
        BY <1>0, <3>0, <4>3, <4>4, LimiterAssumption, SMTT(30)
    <3>2. CASE i # Len(a) + 1 - Limit
      <4>1. i \in 1..(Len(a) - Limit) /\ i \in 1..Len(a) /\ i + Limit \in 1..Len(a)
        <5>1. Len(admitted'[h]) = Len(a) + 1
          BY <3>0
        <5>2. i \in Int /\ 1 <= i /\ i <= Len(admitted'[h]) - Limit
          BY <1>10, <5>1, LimiterAssumption
        <5> QED
          BY <1>10, <3>2, <5>1, <5>2, LimiterAssumption, SMTT(30)
      <4>2. Append(a, now)[i + Limit] = a[i + Limit] /\ Append(a, now)[i] = a[i]
        BY <1>0, <4>1
      <4> QED
        BY <3>0, <4>1, <4>2 DEF LimiterInv, WindowRespected
    <3> QED
      BY <3>1, <3>2
  <2> QED
    BY <2>1, <2>2
<1> QED
  BY <1>7, <1>8, <1>9 DEF LimiterInv

\* A refusal drops expired calls and nothing else.
LEMMA RefuseInv ==
  ASSUME LimiterInv, NEW k \in Caller, NEW n \in 0..Len(Bucket(k)), Refuse(k, n)
  PROVE  LimiterInv'
<1> DEFINE b == Kept(Bucket(k), n)
<1>0. LimiterTypeOK
  BY DEF LimiterInv
<1>1. /\ b \in Seq(Nat) /\ Len(admitted[k]) - Len(b) \in Nat
      /\ \A j \in 1..Len(b) : b[j] = admitted[k][Len(admitted[k]) - Len(b) + j]
      /\ \A i \in 1..(Len(admitted[k]) - Len(b)) : admitted[k][i] <= now - Window
  BY ExpiredKept DEF Refuse
<1>2. Len(b) >= Limit /\ hits' = WithBucket(k, b) /\ UNCHANGED <<now, admitted>>
  BY DEF Refuse
<1>3. Len(b) \in 1..Limit
  <2>1. Bucket(k) \in Seq(Nat) /\ Len(Bucket(k)) <= Limit
    BY <1>0, BucketType, LimiterAssumption DEF Bucket, LimiterTypeOK
  <2>2. Len(b) <= Len(Bucket(k))
    BY <2>1, KeptEnd
  <2> QED
    BY <1>1, <1>2, <2>1, <2>2, LimiterAssumption
<1>4. /\ DOMAIN hits' \subseteq Caller /\ hits' \in [DOMAIN hits' -> Seq(Nat)]
      /\ \A h \in DOMAIN hits' : Len(hits'[h]) \in 1..Limit
      /\ \A h \in Caller : Bucket(h)' = IF h = k THEN b ELSE Bucket(h)
  BY <1>0, <1>1, <1>2, <1>3, BucketReplaced
<1>5. LimiterTypeOK'
  <2>1. asked' \in [Caller -> Seq(Nat)]
    BY <1>0 DEF Refuse, LimiterTypeOK
  <2>2. promised' \in [Caller -> Nat]
    <3>1. PICK wait \in Tenths(b[1] + Window - now) :
             promised' = [promised EXCEPT ![k] = now + Second * Header(wait)]
      BY DEF Refuse
    <3>2. wait \in Nat
      BY <3>1 DEF Tenths
    <3>3. now + Second * Header(wait) \in Nat
      <4>1. Header(wait) \in Nat
        BY <3>2, LimiterAssumption DEF Header
      <4>2. Second * Header(wait) \in Nat
        BY <4>1, LimiterAssumption
      <4> QED
        BY <1>0, <4>2 DEF LimiterTypeOK
    <3> QED
      BY <1>0, <3>1, <3>3 DEF LimiterTypeOK
  <2> QED
    BY <1>0, <1>2, <1>4, <2>1, <2>2 DEF LimiterTypeOK
<1> HIDE DEF b
<1>6. BucketInv'
  <2> SUFFICES ASSUME NEW h \in Caller
               PROVE  LET c == admitted'[h]
                          l == Len(c) - Len(Bucket(h)')
                      IN  /\ l >= 0
                          /\ \A j \in 1..Len(Bucket(h)') : Bucket(h)'[j] = c[l + j]
                          /\ \A i \in 1..l : c[i] <= now' - Window
    BY DEF BucketInv, HoldsLast
  <2>1. CASE h = k
    BY <1>1, <1>2, <1>4, <2>1, SMTT(30)
  <2>2. CASE h # k
    <3>1. HoldsLast(Bucket(h), admitted[h], now)
      BY DEF LimiterInv, BucketInv
    <3>2. Bucket(h)' = Bucket(h) /\ admitted'[h] = admitted[h] /\ now' = now
      BY <1>2, <1>4, <2>2
    <3> QED
      BY <3>1, <3>2, Zenon DEF HoldsLast
  <2> QED
    BY <2>1, <2>2
<1>7. WindowRespected'
  BY <1>2 DEF LimiterInv, WindowRespected
<1> QED
  BY <1>5, <1>6, <1>7 DEF LimiterInv

\* Every step keeps the invariant.
LEMMA NextInv == LimiterInv /\ [LimiterNext]_limiterVars => LimiterInv'
<1> SUFFICES ASSUME LimiterInv, [LimiterNext]_limiterVars PROVE LimiterInv'
  OBVIOUS
<1>1. ASSUME NEW k \in Caller, Check(k) PROVE LimiterInv'
  BY <1>1, AdmitInv, RefuseInv DEF Check
<1>2. CASE Tick
  <2>1. LimiterTypeOK'
    BY <1>2 DEF Tick, LimiterInv, LimiterTypeOK
  <2>2. \A k \in Caller : Bucket(k)' = Bucket(k)
    BY <1>2 DEF Tick, Bucket
  <2>3. now' - Window >= now - Window /\ now \in Nat
    BY <1>2, LimiterAssumption DEF Tick, LimiterInv, LimiterTypeOK
  <2>4. BucketInv'
    <3> SUFFICES ASSUME NEW k \in Caller,
                        NEW i \in 1..(Len(admitted[k]) - Len(Bucket(k)))
                 PROVE  admitted[k][i] <= now' - Window
      BY <1>2, <2>2 DEF Tick, LimiterInv, BucketInv, HoldsLast
    <3>1. admitted[k] \in Seq(Nat) /\ Bucket(k) \in Seq(Nat)
      BY BucketType DEF LimiterInv, LimiterTypeOK
    <3>2. admitted[k][i] \in Nat
      BY <3>1
    <3>3. admitted[k][i] <= now - Window
      BY DEF LimiterInv, BucketInv, HoldsLast
    <3> QED
      BY <1>2, <2>3, <3>2, <3>3, LimiterAssumption DEF Tick
  <2> QED
    BY <1>2, <2>1, <2>4 DEF Tick, LimiterInv, WindowRespected
<1>3. CASE UNCHANGED limiterVars
  BY <1>3 DEF limiterVars, LimiterInv, LimiterTypeOK, BucketInv, HoldsLast, WindowRespected, Bucket
<1> QED
  BY <1>1, <1>2, <1>3 DEF LimiterNext, Rest

-----------------------------------------------------------------------------
\* The limiter's dict stays one of buckets that are neither empty nor longer
\* than the limit.
THEOREM TypeCorrect == LimiterSpec => []LimiterTypeOK
<1>1. LimiterInv => LimiterTypeOK
  BY DEF LimiterInv
<1> QED
  BY <1>1, InitInv, NextInv, PTL DEF LimiterSpec

\* Whatever comes when, and whatever is expired and reclaimed, no caller gets
\* more than Limit calls through in a window.
THEOREM WindowIsRespected == LimiterSpec => []WindowRespected
<1>1. LimiterInv => WindowRespected
  BY DEF LimiterInv
<1> QED
  BY <1>1, InitInv, NextInv, PTL DEF LimiterSpec
-----------------------------------------------------------------------------
(* Refusals.  The clock does not run backwards, so the admitted calls that *)
(* are still within the window are the last ones, and a promise, which is  *)
(* made from the oldest of the Limit calls that refuse, is kept as long as *)
(* no later call of the key is admitted.                                   *)

\* The admitted calls are in the order of their moments, and none is later
\* than the clock.
Ordered ==
    \A k \in Caller : \A i \in 1..Len(admitted[k]) :
        /\ admitted[k][i] <= now
        /\ \A j \in 1..i : admitted[k][j] <= admitted[k][i]

\* The Limit-th last call that was admitted, and all before it, have left the
\* window when the caller is told to come back.
Promised ==
    \A k \in Caller : promised[k] # 0 =>
        /\ Len(admitted[k]) >= Limit
        /\ admitted[k][Len(admitted[k]) - Limit + 1] + Window <= promised[k]

RefusalInv == LimiterInv /\ Ordered /\ Promised

\* Rounding the wait to tenths and cutting the tenths off never loses more
\* than the second the header adds.
LEMMA HeaderCovers ==
  ASSUME NEW x \in Int, NEW wait \in Tenths(x)
  PROVE  wait \in Nat /\ Header(wait) \in Nat /\ x <= Second * Header(wait)
                      /\ Second * Header(wait) \in Nat \ {0}
<1>1. /\ Grain \in Nat \ {0} /\ Second \in Nat \ {0} /\ Second % Grain = 0
  BY LimiterAssumption
<1>2. wait \in Nat /\ wait % Grain = 0 /\ 2 * (x - wait) <= Grain
  BY <1>1 DEF Tenths
<1> DEFINE q == wait \div Second
           s == Second \div Grain
           w == wait \div Grain
<1>3. q \in Nat /\ wait < Second * (q + 1)
  BY <1>1, <1>2
<1>4. s \in Nat /\ Second = Grain * s
  BY <1>1
<1>5. w \in Nat /\ wait = Grain * w
  BY <1>1, <1>2
<1>7. Header(wait) = q + 1
  BY DEF Header
<1> HIDE DEF q, s, w
<1>6. wait + Grain <= Second * (q + 1)
  <2> DEFINE e == s * (q + 1)
  <2>1. e \in Nat
    BY <1>3, <1>4
  <2>2. Second * (q + 1) = Grain * e
    BY <1>1, <1>3, <1>4
  <2> HIDE DEF e
  <2>3. Grain * w < Grain * e
    BY <1>3, <1>5, <2>2
  <2>4. w < e
    BY <1>1, <1>5, <2>1, <2>3
  <2>5. Grain * (w + 1) <= Grain * e
    BY <1>1, <1>5, <2>1, <2>4
  <2>6. Grain * (w + 1) = wait + Grain
    BY <1>1, <1>5
  <2> QED
    BY <2>2, <2>5, <2>6
<1>8. Second * (q + 1) \in Nat \ {0}
  BY <1>1, <1>3
<1> DEFINE p == Second * (q + 1)
<1>9. p \in Nat \ {0} /\ wait + Grain <= p
  BY <1>6, <1>8
<1> HIDE DEF p
<1>10. x <= p
  BY <1>1, <1>2, <1>9
<1> QED
  BY <1>2, <1>3, <1>7, <1>9, <1>10 DEF p

\* What a refusal finds: Limit calls in the bucket, the last ones admitted, all
\* within the window.
LEMMA RefuseFinds ==
  ASSUME RefusalInv, NEW k \in Caller, NEW n \in 0..Len(Bucket(k)), Refuse(k, n)
  PROVE  LET a == admitted[k]
             b == Kept(Bucket(k), n)
             m == Len(a) - Limit
         IN  /\ Len(b) = Limit /\ m \in Nat /\ a \in Seq(Nat)
             /\ b[1] = a[m + 1] /\ b[1] \in Nat /\ b[1] > now - Window
             /\ \A i \in 1..m : a[i] <= now - Window
<1> DEFINE a == admitted[k]
           b == Kept(Bucket(k), n)
<1>0. LimiterTypeOK /\ a \in Seq(Nat)
  BY DEF RefusalInv, LimiterInv, LimiterTypeOK
<1>1. /\ b \in Seq(Nat) /\ Len(a) - Len(b) \in Nat
      /\ \A j \in 1..Len(b) : b[j] = a[Len(a) - Len(b) + j]
      /\ \A i \in 1..(Len(a) - Len(b)) : a[i] <= now - Window
  BY ExpiredKept DEF Refuse, RefusalInv
<1>2. Bucket(k) \in Seq(Nat) /\ Len(Bucket(k)) <= Limit
  BY <1>0, BucketType, LimiterAssumption DEF Bucket, LimiterTypeOK
<1>3. /\ Len(b) = Len(Bucket(k)) - n
      /\ \A j \in 1..(Len(Bucket(k)) - n) : b[j] = Bucket(k)[n + j]
  BY <1>2, KeptEnd
<1>4. Len(b) >= Limit
  BY DEF Refuse
<1>5. Len(b) = Limit /\ n < Len(Bucket(k)) /\ 1 \in 1..Len(b)
  BY <1>2, <1>3, <1>4, LimiterAssumption
<1>6. b[1] = Bucket(k)[n + 1]
  BY <1>3, <1>5
<1>7. Bucket(k)[n + 1] > now - Window
  BY <1>5 DEF Refuse, Expires
<1>8. b[1] = a[Len(a) - Limit + 1] /\ b[1] \in Nat
  BY <1>1, <1>5
<1> QED
  BY <1>0, <1>1, <1>5, <1>6, <1>7, <1>8

\* A refusal leaves the log of admissions alone, and its promise covers the
\* oldest of the calls that refuse.
LEMMA RefuseKeeps ==
  ASSUME RefusalInv, NEW k \in Caller, NEW n \in 0..Len(Bucket(k)), Refuse(k, n)
  PROVE  RefusalInv'
<1> DEFINE b == Kept(Bucket(k), n)
           m == Len(admitted[k]) - Limit
<1>1. LimiterInv'
  BY RefuseInv DEF RefusalInv
<1>2. UNCHANGED <<now, admitted>> /\ now \in Nat /\ promised \in [Caller -> Nat]
  BY DEF Refuse, RefusalInv, LimiterInv, LimiterTypeOK
<1>3. Ordered'
  BY <1>2 DEF RefusalInv, Ordered
<1>4. /\ m \in Nat /\ b[1] = admitted[k][m + 1] /\ b[1] \in Nat
  BY RefuseFinds
<1>5. PICK wait \in Tenths(b[1] + Window - now) :
         promised' = [promised EXCEPT ![k] = now + Second * Header(wait)]
  BY DEF Refuse
<1>6. b[1] + Window - now \in Int
  <2> DEFINE first == b[1]
  <2>1. first \in Nat /\ now \in Nat
    BY <1>2, <1>4
  <2>2. Window \in Nat
    BY LimiterAssumption
  <2> HIDE DEF first
  <2>3. first + Window - now \in Int
    BY <2>1, <2>2
  <2> QED
    BY <2>3 DEF first
<1>7. /\ b[1] + Window - now <= Second * Header(wait)
      /\ Second * Header(wait) \in Nat
  BY <1>6, HeaderCovers
<1>8. admitted[k][m + 1] + Window <= promised'[k]
  <2> DEFINE p == Second * Header(wait)
  <2>1. promised'[k] = now + p
    BY <1>2, <1>5
  <2>2. p \in Nat /\ b[1] + Window - now <= p
    BY <1>7
  <2> HIDE DEF p, b
  <2> QED
    BY <1>2, <1>4, <2>1, <2>2, LimiterAssumption, SMTT(30)
<1>9. Promised'
  <2> SUFFICES ASSUME NEW h \in Caller, promised'[h] # 0
               PROVE  /\ Len(admitted[h]) >= Limit
                      /\ admitted[h][Len(admitted[h]) - Limit + 1] + Window <= promised'[h]
    BY <1>2 DEF Promised
  <2>1. CASE h = k
    <3>1. Len(admitted[k]) \in Nat
      BY DEF RefusalInv, LimiterInv, LimiterTypeOK
    <3> QED
      BY <1>4, <1>8, <2>1, <3>1, LimiterAssumption
  <2>2. CASE h # k
    BY <1>2, <1>5, <2>2 DEF RefusalInv, Promised
  <2> QED
    BY <2>1, <2>2
<1> QED
  BY <1>1, <1>3, <1>9 DEF RefusalInv

\* An admission is logged at the present moment and ends what was promised.
LEMMA AdmitKeeps ==
  ASSUME RefusalInv, NEW k \in Caller, NEW n \in 0..Len(Bucket(k)), Admit(k, n)
  PROVE  RefusalInv'
<1> DEFINE a == admitted[k]
<1>1. LimiterInv'
  BY AdmitInv DEF RefusalInv
<1>2. a \in Seq(Nat) /\ now \in Nat /\ Len(a) \in Nat
  BY DEF RefusalInv, LimiterInv, LimiterTypeOK
<1>3. /\ admitted'[k] = Append(a, now) /\ promised'[k] = 0 /\ now' = now
      /\ \A h \in Caller : h # k => admitted'[h] = admitted[h] /\ promised'[h] = promised[h]
  BY DEF Admit, RefusalInv, LimiterInv, LimiterTypeOK
<1>4. Ordered'
  <2> SUFFICES ASSUME NEW h \in Caller, NEW i \in 1..Len(admitted'[h]), NEW j \in 1..i
               PROVE  admitted'[h][i] <= now /\ admitted'[h][j] <= admitted'[h][i]
    BY <1>3 DEF Ordered
  <2>1. CASE h # k
    BY <1>3, <2>1 DEF RefusalInv, Ordered
  <2>2. CASE h = k
    <3>1. Len(Append(a, now)) = Len(a) + 1 /\ admitted'[h] = Append(a, now)
      BY <1>2, <1>3, <2>2
    <3>2. i \in 1..(Len(a) + 1) /\ j \in 1..(Len(a) + 1) /\ j <= i
      BY <1>2, <3>1
    <3>3. \A l \in 1..Len(a) : Append(a, now)[l] = a[l] /\ a[l] <= now
      BY <1>2 DEF RefusalInv, Ordered
    <3>4. Append(a, now)[Len(a) + 1] = now
      BY <1>2
    <3>5. CASE i = Len(a) + 1
      BY <1>2, <3>1, <3>2, <3>3, <3>4, <3>5
    <3>6. CASE i # Len(a) + 1
      <4>0. Len(a) \in Nat
        BY <1>2
      <4>1. i \in 1..Len(a) /\ j \in 1..Len(a)
        <5> DEFINE m == Len(a)
        <5>1. m \in Nat /\ i \in 1..(m + 1) /\ j \in 1..(m + 1) /\ j <= i /\ i # m + 1
          BY <3>2, <3>6, <4>0
        <5> HIDE DEF m
        <5>2. i \in 1..m /\ j \in 1..m
          BY <5>1
        <5> QED
          BY <5>2 DEF m
      <4>2. a[j] <= a[i]
        BY <4>1 DEF RefusalInv, Ordered
      <4> QED
        BY <3>1, <3>3, <4>1, <4>2
    <3> QED
      BY <3>5, <3>6
  <2> QED
    BY <2>1, <2>2
<1>5. Promised'
  BY <1>3 DEF RefusalInv, Promised
<1> QED
  BY <1>1, <1>4, <1>5 DEF RefusalInv

\* The invariant of refusals holds from the start on and is kept by every step.
LEMMA RefusalInitNext ==
  /\ LimiterInit => RefusalInv
  /\ RefusalInv /\ [LimiterNext]_limiterVars => RefusalInv'
<1>1. LimiterInit => RefusalInv
  BY InitInv DEF LimiterInit, RefusalInv, Ordered, Promised
<1>2. ASSUME RefusalInv, [LimiterNext]_limiterVars PROVE RefusalInv'
  <2>1. ASSUME NEW k \in Caller, Check(k) PROVE RefusalInv'
    BY <1>2, <2>1, AdmitKeeps, RefuseKeeps DEF Check
  <2>2. CASE Tick
    <3>1. LimiterInv'
      BY <1>2, NextInv DEF RefusalInv
    <3>2. UNCHANGED <<admitted, promised>> /\ now' = now + 1 /\ now \in Nat
      BY <1>2, <2>2 DEF Tick, RefusalInv, LimiterInv, LimiterTypeOK
    <3>3. \A k \in Caller : admitted[k] \in Seq(Nat)
      BY <1>2 DEF RefusalInv, LimiterInv, LimiterTypeOK
    <3>4. Ordered'
      <4> SUFFICES ASSUME NEW k \in Caller, NEW i \in 1..Len(admitted[k])
                   PROVE  /\ admitted[k][i] <= now'
                          /\ \A j \in 1..i : admitted[k][j] <= admitted[k][i]
        BY <3>2 DEF Ordered
      <4>1. admitted[k][i] \in Nat
        BY <3>3
      <4> QED
        BY <1>2, <3>2, <4>1 DEF RefusalInv, Ordered
    <3> QED
      BY <1>2, <3>1, <3>2, <3>4 DEF RefusalInv, Promised
  <2>3. CASE UNCHANGED limiterVars
    BY <1>2, <2>3, NextInv DEF limiterVars, RefusalInv, Ordered, Promised
  <2> QED
    BY <1>2, <2>1, <2>2, <2>3 DEF LimiterNext, Rest
<1> QED
  BY <1>1, <1>2

\* A call that changes the log of calls and not that of admissions is a
\* refusal of that key.
LEMMA RefusedByRefuse ==
  ASSUME RefusalInv, [LimiterNext]_limiterVars, NEW k \in Caller, Refused(k)
  PROVE  \E n \in 0..Len(Bucket(k)) : Refuse(k, n)
<1>1. asked \in [Caller -> Seq(Nat)] /\ admitted \in [Caller -> Seq(Nat)]
  BY DEF RefusalInv, LimiterInv, LimiterTypeOK
<1>2. asked'[k] # asked[k] /\ admitted'[k] = admitted[k]
  BY DEF Refused
<1>3. PICK h \in Caller : Check(h)
  BY <1>2 DEF LimiterNext, Tick, Rest, limiterVars
<1>4. PICK n \in 0..Len(Bucket(h)) : Admit(h, n) \/ Refuse(h, n)
  BY <1>3 DEF Check
<1>5. h = k
  BY <1>1, <1>2, <1>4 DEF Admit, Refuse
<1>6. ~Admit(k, n)
  <2> SUFFICES ASSUME Admit(k, n) PROVE FALSE
    OBVIOUS
  <2>1. admitted'[k] = Append(admitted[k], now) /\ admitted[k] \in Seq(Nat)
    BY <1>1 DEF Admit
  <2>2. Len(Append(admitted[k], now)) = Len(admitted[k]) + 1 /\ Len(admitted[k]) \in Nat
    BY <2>1
  <2> QED
    BY <1>2, <2>1, <2>2
<1> QED
  BY <1>4, <1>5, <1>6

\* The calls that refuse are all the recent ones of that key.
LEMMA FullWhenRefused ==
  ASSUME RefusalInv, NEW k \in Caller, NEW n \in 0..Len(Bucket(k)), Refuse(k, n)
  PROVE  Cardinality(Recent(k)) = Limit
<1> DEFINE a == admitted[k]
           m == Len(a) - Limit
<1>1. /\ m \in Nat /\ a \in Seq(Nat) /\ now \in Nat
      /\ a[m + 1] \in Nat /\ a[m + 1] > now - Window
      /\ \A i \in 1..m : a[i] <= now - Window
  BY RefuseFinds DEF RefusalInv, LimiterInv, LimiterTypeOK
<1>2. Len(a) \in Nat /\ Len(a) = m + Limit /\ Limit \in Nat \ {0} /\ Window \in Nat
  <2>1. Len(a) \in Nat
    BY <1>1
  <2>2. Limit \in Nat \ {0} /\ Window \in Nat
    BY LimiterAssumption
  <2>3. Len(a) = m + Limit
    BY <2>1, <2>2
  <2> QED
    BY <2>1, <2>2, <2>3
<1>3. Recent(k) = {i \in 1..Len(a) : a[i] > now - Window}
  BY DEF Recent
<1>4. \A i \in 1..Len(a) : a[i] \in Nat /\ \A j \in 1..i : a[j] <= a[i]
  <2>1. \A i \in 1..Len(a) : \A j \in 1..i : a[j] <= a[i]
    BY DEF RefusalInv, Ordered
  <2> HIDE DEF a
  <2>2. \A i \in 1..Len(a) : a[i] \in Nat
    BY <1>1
  <2> QED
    BY <2>1, <2>2
<1> HIDE DEF a, m
<1>5. ASSUME NEW i \in (m + 1)..Len(a) PROVE i \in 1..Len(a) /\ a[i] > now - Window
  <2>1. i \in 1..Len(a) /\ m + 1 \in 1..i
    BY <1>1, <1>2
  <2>2. a[m + 1] <= a[i] /\ a[i] \in Nat
    BY <1>4, <2>1
  <2> QED
    BY <1>1, <1>2, <2>1, <2>2
<1>6. ASSUME NEW i \in 1..Len(a), a[i] > now - Window PROVE i \in (m + 1)..Len(a)
  <2>1. a[i] \in Nat
    BY <1>4
  <2>2. ~(i \in 1..m)
    BY <1>1, <1>2, <1>6, <2>1
  <2> QED
    BY <1>1, <1>2, <2>2
<1>7. Recent(k) = (m + 1)..Len(a)
  BY <1>3, <1>5, <1>6
<1>8. Cardinality((m + 1)..Len(a)) = Len(a) - (m + 1) + 1
  BY <1>1, <1>2, FS_Interval
<1> QED
  BY <1>1, <1>2, <1>7, <1>8

\* No caller is turned away on account of calls that are out of the window, of
\* refused ones, or of someone else's: a refusal finds exactly Limit admitted
\* calls of that key within the window.
THEOREM RefusalsAreDue == LimiterSpec => RefusedOnlyWhenFull
<1>1. RefusalInv /\ [LimiterNext]_limiterVars => [\A k \in Caller : Refused(k) => Cardinality(Recent(k)) = Limit]_limiterVars
  BY RefusedByRefuse, FullWhenRefused
<1> QED
  BY <1>1, RefusalInitNext, PTL DEF LimiterSpec, RefusedOnlyWhenFull

\* Coming back when Retry-After said is enough, whatever was rounded away, as
\* long as a second is a whole number of tenths.
THEOREM RetryAfterIsEnough == LimiterSpec => RetryAfterSuffices
<1>1. ASSUME RefusalInv, [LimiterNext]_limiterVars, NEW k \in Caller, Refused(k), promised[k] # 0
      PROVE  now < promised[k]
  <2>1. PICK n \in 0..Len(Bucket(k)) : Refuse(k, n)
    BY <1>1, RefusedByRefuse
  <2> DEFINE first == admitted[k][Len(admitted[k]) - Limit + 1]
  <2>2. first \in Nat /\ first > now - Window
    BY <1>1, <2>1, RefuseFinds
  <2>3. first + Window <= promised[k]
    BY <1>1 DEF RefusalInv, Promised
  <2>4. now \in Nat /\ promised[k] \in Nat
    BY <1>1 DEF RefusalInv, LimiterInv, LimiterTypeOK
  <2> HIDE DEF first
  <2> QED
    BY <2>2, <2>3, <2>4, LimiterAssumption
<1>2. RefusalInv /\ [LimiterNext]_limiterVars =>
         [\A k \in Caller : Refused(k) /\ promised[k] # 0 => now < promised[k]]_limiterVars
  BY <1>1
<1> QED
  BY <1>2, RefusalInitNext, PTL DEF LimiterSpec, RetryAfterSuffices
=============================================================================
