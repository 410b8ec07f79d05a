----------------------------- MODULE DataProofs ------------------------------
(***************************************************************************)
(* Proofs about what is computed from data of any length: each of the four *)
(* decisions of Rules is what it should be for every input, and Courses    *)
(* keeps every lesson of every timetable.                                  *)
(***************************************************************************)
EXTENDS Rules, Courses, FiniteSetTheorems, TLAPS

-----------------------------------------------------------------------------
(* Induction.  The library's rules for it take a predicate, and so do its   *)
(* theorems about recursive functions; here the predicate is a set, and a   *)
(* step of a fold is a function.                                           *)

\* Every non-empty set of natural numbers has a least element: the intervals
\* 1..k of its elements k are finite sets, which proper inclusion orders well.
LEMMA LeastNumber ==
  ASSUME NEW T, T \subseteq Nat, T # {}
  PROVE  \E n \in T : \A k \in T : n <= k
<1> DEFINE R == StrictSubsetOrdering(Nat)
           B == {1..k : k \in T}
<1>1. IsWellFoundedOn(R, FiniteSubsetsOf(Nat))
  BY FS_StrictSubsetOrderingWellFounded
<1>2. B \subseteq FiniteSubsetsOf(Nat)
  <2>1. ASSUME NEW k \in T PROVE 1..k \in FiniteSubsetsOf(Nat)
    <3>1. k \in Int /\ 1 \in Int
      OBVIOUS
    <3>2. IsFiniteSet(1..k)
      BY <3>1, FS_Interval
    <3> QED
      BY <3>2 DEF FiniteSubsetsOf
  <2> QED
    BY <2>1
<1>3. B # {}
  OBVIOUS
<1>4. PICK b \in B : \A c \in B : ~(<<c, b>> \in R)
  <2> HIDE DEF R, B
  <2> QED
    BY <1>1, <1>2, <1>3, WFMin
<1>5. PICK n \in T : b = 1..n
  BY <1>4
<1>6. ASSUME NEW k \in T, k < n PROVE FALSE
  <2>1. 1..k \subseteq 1..n /\ 1..k # 1..n
    <3>1. n \in 1..n /\ n \notin 1..k
      BY <1>6
    <3> QED
      BY <1>6, <3>1
  <2>2. <<1..k, 1..n>> \in R
    BY <2>1 DEF StrictSubsetOrdering
  <2> QED
    BY <1>4, <1>5, <2>2
<1> QED
  BY <1>6

\* Induction up to n, over a set of numbers.
LEMMA Induction ==
  ASSUME NEW n \in Nat, NEW P, 0 \in P, \A k \in 1..n : k - 1 \in P => k \in P
  PROVE  0..n \subseteq P
<1> SUFFICES ASSUME (0..n) \ P # {} PROVE FALSE
  OBVIOUS
<1>1. PICK m \in (0..n) \ P : \A k \in (0..n) \ P : m <= k
  <2> DEFINE T == (0..n) \ P
  <2>1. T \subseteq Nat /\ T # {}
    OBVIOUS
  <2> HIDE DEF T
  <2>2. \E m \in T : \A k \in T : m <= k
    BY <2>1, LeastNumber
  <2> QED
    BY <2>2 DEF T
<1>2. m # 0
  BY <1>1
<1>3. m \in 1..n /\ m - 1 \in 0..n
  BY <1>1, <1>2
<1>4. m - 1 \in P
  BY <1>1, <1>3
<1> QED
  BY <1>1, <1>3, <1>4

\* The recursive function of a fold: h is the operator, of a value and an index.
Follows(g, n, base, h) ==
  \A s \in SUBSET (1..n) :
     g[s] = IF s = {} THEN base ELSE h[<<g[s \ {Max(s)}], Max(s)>>]

\* The greatest of numbers up to m, if m is one of them, is m.
LEMMA MaxOfTop ==
  ASSUME NEW m \in Nat, NEW s \in SUBSET (1..m), m \in s
  PROVE  Max(s) = m
<1>1. m \in s /\ \A y \in s : m >= y
  OBVIOUS
<1>2. \A x \in s : (\A y \in s : x >= y) => x = m
  <2> SUFFICES ASSUME NEW x \in s, \A y \in s : x >= y PROVE x = m
    OBVIOUS
  <2>1. x >= m /\ m >= x /\ x \in Nat
    BY <1>1
  <2> QED
    BY <2>1
<1> QED
  BY <1>1, <1>2, Zenon DEF Max

\* There is such a function, by induction on n: a set with n in it goes back to
\* one without.
LEMMA FoldExists ==
  ASSUME NEW n \in Nat, NEW T, NEW base \in T, NEW h \in [T \X (1..n) -> T]
  PROVE  \E g \in [SUBSET (1..n) -> T] : Follows(g, n, base, h)
<1> DEFINE P == {m \in 0..n : \E g \in [SUBSET (1..m) -> T] : Follows(g, m, base, h)}
<1>1. 0 \in P
  <2> DEFINE g == [s \in SUBSET (1..0) |-> base]
  <2>1. g \in [SUBSET (1..0) -> T]
    OBVIOUS
  <2>2. Follows(g, 0, base, h)
    <3>1. 1..0 = {}
      OBVIOUS
    <3> QED
      BY <3>1 DEF Follows
  <2>3. 0 \in 0..n
    OBVIOUS
  <2> HIDE DEF g
  <2> QED
    BY <2>1, <2>2, <2>3
<1>2. ASSUME NEW k \in 1..n, k - 1 \in P PROVE k \in P
  <2>1. PICK g \in [SUBSET (1..k-1) -> T] : Follows(g, k - 1, base, h)
    BY <1>2
  <2> DEFINE f == [s \in SUBSET (1..k) |->
          IF k \in s THEN h[<<g[s \ {k}], k>>] ELSE g[s]]
  <2>2. \A s \in SUBSET (1..k) : /\ s \ {k} \in SUBSET (1..k-1)
                                 /\ k \notin s => s \in SUBSET (1..k-1)
    OBVIOUS
  <2>3. f \in [SUBSET (1..k) -> T]
    <3>1. ASSUME NEW s \in SUBSET (1..k)
          PROVE (IF k \in s THEN h[<<g[s \ {k}], k>>] ELSE g[s]) \in T
      <4>1. g[s \ {k}] \in T /\ (k \notin s => g[s] \in T)
        BY <2>2
      <4>2. h[<<g[s \ {k}], k>>] \in T
        BY <4>1
      <4> QED
        BY <4>1, <4>2
    <3> QED
      BY <3>1
  <2>4. ASSUME NEW s \in SUBSET (1..k)
        PROVE  f[s] = IF s = {} THEN base ELSE h[<<f[s \ {Max(s)}], Max(s)>>]
    <3>1. CASE k \in s
      <4>1. Max(s) = k
        <5>1. k \in Nat
          OBVIOUS
        <5> QED
          BY <3>1, <5>1, MaxOfTop
      <4>2. f[s \ {k}] = g[s \ {k}]
        BY <2>2
      <4>3. f[s] = h[<<g[s \ {k}], k>>]
        BY <3>1
      <4> QED
        BY <3>1, <4>1, <4>2, <4>3
    <3>2. CASE k \notin s
      <4>1. s \in SUBSET (1..k-1) /\ s \ {Max(s)} \in SUBSET (1..k-1)
        BY <2>2, <3>2
      <4>2. f[s] = g[s] /\ f[s \ {Max(s)}] = g[s \ {Max(s)}]
        <5>1. s \ {Max(s)} \in SUBSET (1..k) /\ k \notin s \ {Max(s)}
          BY <3>2
        <5> QED
          BY <3>2, <5>1
      <4>3. g[s] = IF s = {} THEN base ELSE h[<<g[s \ {Max(s)}], Max(s)>>]
        BY <2>1, <4>1 DEF Follows
      <4> HIDE DEF f
      <4> QED
        BY <4>2, <4>3
    <3> QED
      BY <3>1, <3>2
  <2>5. Follows(f, k, base, h)
    <3> HIDE DEF f
    <3> QED
      BY <2>4 DEF Follows
  <2> HIDE DEF f
  <2> QED
    BY <2>3, <2>5
<1> HIDE DEF P
<1>3. n \in P
  <2>1. 0..n \subseteq P
    BY <1>1, <1>2, Induction
  <2> QED
    BY <2>1
<1> QED
  BY <1>3 DEF P

\* A non-empty set of numbers up to n has a greatest element.
LEMMA MaxIsIn ==
  ASSUME NEW n \in Nat, NEW s \in SUBSET (1..n), s # {}
  PROVE  Max(s) \in 1..n
<1> DEFINE T == {n - x : x \in s}
<1>1. T \subseteq Nat /\ T # {}
  OBVIOUS
<1>2. PICK m \in T : \A k \in T : m <= k
  <2> HIDE DEF T
  <2> QED
    BY <1>1, LeastNumber
<1>3. PICK x \in s : m = n - x
  BY <1>2
<1>4. \A y \in s : x >= y
  <2> TAKE y \in s
  <2>1. n - y \in T
    OBVIOUS
  <2>2. n - x <= n - y
    BY <1>2, <1>3, <2>1
  <2>3. x \in Int /\ y \in Int
    OBVIOUS
  <2> QED
    BY <2>2, <2>3
<1>5. Max(s) \in s
  BY <1>4 DEF Max
<1> QED
  BY <1>5

\* A function that follows h as long as its values are in T.
FollowsIn(T, iter, n, base, h) ==
  /\ iter[{}] = base
  /\ \A s \in SUBSET (1..n) : s # {} /\ iter[s \ {Max(s)}] \in T =>
        iter[s] = h[<<iter[s \ {Max(s)}], Max(s)>>]

\* The values of a loop of n rounds.
IsLoop(v, T, n, base, h) ==
  v \in [0..n -> T] /\ v[0] = base /\ \A k \in 1..n : v[k] = h[<<v[k-1], k>>]

LoopEnds(T, n, base, h, last) == \E v : IsLoop(v, T, n, base, h) /\ v[n] = last

\* Its value for the numbers up to k is the k-th of a loop.
LEMMA FoldIsLoop ==
  ASSUME NEW n \in Nat, NEW T, NEW base \in T, NEW h \in [T \X (1..n) -> T],
         NEW iter, FollowsIn(T, iter, n, base, h)
  PROVE  LoopEnds(T, n, base, h, iter[1..n])
<1> DEFINE v == [k \in 0..n |-> iter[1..k]]
           P == {k \in 0..n : v[k] \in T}
<1>1. v[0] = base /\ 0 \in P
  <2>1. 1..0 = {} /\ 0 \in 0..n
    OBVIOUS
  <2> QED
    BY <2>1 DEF FollowsIn
<1>2. ASSUME NEW k \in 1..n, v[k-1] \in T PROVE v[k] = h[<<v[k-1], k>>] /\ v[k] \in T
  <2>1. 1..k \in SUBSET (1..n) /\ 1..k # {} /\ k \in 1..k /\ k \in Nat
    <3>1. k \in 1..k /\ k \in Nat /\ k <= n
      OBVIOUS
    <3>2. \A i \in 1..k : i \in 1..n
      BY <3>1
    <3> QED
      BY <3>1, <3>2
  <2>2. Max(1..k) = k
    BY <2>1, MaxOfTop
  <2>3. (1..k) \ {k} = 1..k-1 /\ k - 1 \in 0..n /\ k \in 0..n
    OBVIOUS
  <2>4. v[k-1] = iter[1..k-1] /\ v[k] = iter[1..k]
    BY <2>3
  <2> HIDE DEF v, P
  <2>5. v[k] = h[<<v[k-1], k>>]
    BY <1>2, <2>1, <2>2, <2>3, <2>4 DEF FollowsIn
  <2> QED
    BY <1>2, <2>5
<1>3. ASSUME NEW k \in 1..n, k - 1 \in P PROVE k \in P
  <2>1. v[k-1] \in T
    BY <1>3
  <2>2. v[k] \in T
    BY <1>2, <2>1
  <2> HIDE DEF v
  <2> QED
    BY <2>2
<1> HIDE DEF P
<1>4. 0..n \subseteq P
  BY <1>1, <1>3, Induction
<1>5. \A k \in 0..n : v[k] \in T
  BY <1>4 DEF P
<1>6. \A k \in 1..n : v[k] = h[<<v[k-1], k>>]
  <2> TAKE k \in 1..n
  <2>1. k - 1 \in 0..n
    OBVIOUS
  <2> QED
    BY <1>2, <1>5, <2>1
<1>7. v \in [0..n -> T] /\ v[n] = iter[1..n]
  BY <1>5
<1> HIDE DEF v
<1>8. IsLoop(v, T, n, base, h)
  BY <1>1, <1>6, <1>7 DEF IsLoop
<1> QED
  BY <1>7, <1>8 DEF LoopEnds

\* And there is such a loop.
LEMMA LoopExists ==
  ASSUME NEW n \in Nat, NEW T, NEW base \in T, NEW h \in [T \X (1..n) -> T]
  PROVE  \E v : IsLoop(v, T, n, base, h)
<1>1. PICK g \in [SUBSET (1..n) -> T] : Follows(g, n, base, h)
  BY FoldExists
<1>2. FollowsIn(T, g, n, base, h)
  BY <1>1 DEF Follows, FollowsIn
<1>3. LoopEnds(T, n, base, h, g[1..n])
  BY <1>2, FoldIsLoop, Zenon
<1> QED
  BY <1>3 DEF LoopEnds

\* w[k] is what the first k parts are together.
Joins(w, S, n, parts) ==
    w \in [0..n -> Seq(S)] /\ w[0] = <<>> /\ \A k \in 1..n : w[k] = w[k-1] \o parts[k]

\* Sequences one after the other are what a loop collects.
LEMMA FlattenIsLoop ==
  ASSUME NEW S, NEW n \in Nat \ {0}, NEW parts \in [1..n -> Seq(S)], NEW w, Joins(w, S, n, parts)
  PROVE  FlattenSeq(parts) = w[n]
<1>0. w \in [0..n -> Seq(S)] /\ w[0] = <<>> /\ \A k \in 1..n : w[k] = w[k-1] \o parts[k]
  BY DEF Joins
<1> DEFINE Body(f) == [i \in 1..n |-> IF i = 1 THEN parts[i] ELSE f[i-1] \o parts[i]]
           flatten == CHOOSE f : f = Body(f)
           u == [i \in 1..n |-> w[i]]
<1>1. Len(parts) = n
  OBVIOUS
<1>2. FlattenSeq(parts) = flatten[n]
  BY <1>1, Zenon DEF FlattenSeq
<1>3. w[1] = parts[1]
  <2>1. 1 \in 1..n /\ 1 - 1 = 0
    OBVIOUS
  <2>2. w[1] = w[0] \o parts[1] /\ parts[1] \in Seq(S)
    BY <1>0, <2>1
  <2> QED
    BY <1>0, <2>2
<1>4. u = Body(u)
  <2>1. ASSUME NEW i \in 1..n, i # 1 PROVE u[i] = u[i-1] \o parts[i]
    <3>1. i - 1 \in 1..n
      BY <2>1
    <3> QED
      BY <1>0, <3>1
  <2>2. u[1] = parts[1]
    BY <1>3
  <2> QED
    BY <2>1, <2>2
<1>5. flatten = Body(flatten)
  <2> HIDE DEF Body
  <2> QED
    BY <1>4
<1>6. \A i \in 1..n : flatten[i] = IF i = 1 THEN parts[i] ELSE flatten[i-1] \o parts[i]
  <2> HIDE DEF flatten
  <2> QED
    BY <1>5
<1> DEFINE P == {k \in 0..n : k = 0 \/ flatten[k] = w[k]}
<1> HIDE DEF flatten, u
<1>7. 0 \in P
  OBVIOUS
<1>8. ASSUME NEW k \in 1..n, k - 1 \in P PROVE k \in P
  <2>1. CASE k = 1
    BY <1>3, <1>6, <2>1
  <2>2. CASE k # 1
    <3>1. flatten[k-1] = w[k-1]
      BY <1>8, <2>2
    <3>2. flatten[k] = flatten[k-1] \o parts[k]
      BY <1>6, <2>2
    <3>3. w[k] = w[k-1] \o parts[k]
      BY <1>0
    <3>4. flatten[k] = w[k]
      BY <3>1, <3>2, <3>3
    <3> QED
      BY <3>4
  <2> QED
    BY <2>1, <2>2
<1> HIDE DEF P
<1>9. 0..n \subseteq P
  BY <1>7, <1>8, Induction
<1>10. flatten[n] = w[n]
  <2>1. n \in 0..n /\ n # 0
    OBVIOUS
  <2> QED
    BY <1>9, <2>1 DEF P
<1> QED
  BY <1>2, <1>10

-----------------------------------------------------------------------------
(* Access: the key that is found is the one that is shown.                 *)

\* The keys in the Authorization header, all that are shown, and those of
\* them that are good, as AccessFollowsPolicy tells them.
InHeader(q) == {k \in DOMAIN Keys : q.bearer = k /\ q.scheme \in {"bearer", "bare"}}
ShownKeys(q) == InHeader(q) \cup {k \in DOMAIN Keys : q.direct = k /\ InHeader(q) = {}}
ActiveKeys(q) == {k \in ShownKeys(q) : Keys[k].known /\ ~Keys[k].revoked}

\* No key is missing or blank.
LEMMA KeysAreKeys == NoValue \notin DOMAIN Keys
<1>1. DOMAIN Keys = {"rw", "ro", "revoked", "foreign"}
  BY DEF Keys
<1> QED
  BY <1>1 DEF NoValue

\* At most one key is shown: the one authenticate takes.
LEMMA ShownIsPresented ==
  ASSUME NEW x \in Requests
  PROVE  LET key == PresentedKey(x.request) IN
         /\ key \in DOMAIN Keys \cup {NoValue}
         /\ ShownKeys(x.request) = IF key = NoValue THEN {} ELSE {key}
<1> DEFINE q == x.request
<1>1. /\ q.scheme \in {"none", "bearer", "bare", "basic"}
      /\ q.bearer \in DOMAIN Keys \cup {NoValue} /\ q.direct \in DOMAIN Keys \cup {NoValue}
      /\ q.scheme = "bare" => q.bearer # NoValue
      /\ NoValue \notin DOMAIN Keys
  BY RequestsAreTyped, KeysAreKeys DEF IsRequest
<1> HIDE DEF q
<1>2. CASE q.scheme \in {"bearer", "bare"} /\ q.bearer # NoValue
  <2>1. PresentedKey(q) = q.bearer
    BY <1>1, <1>2 DEF PresentedKey
  <2>2. InHeader(q) = {q.bearer}
    BY <1>1, <1>2 DEF InHeader
  <2>3. ShownKeys(q) = {q.bearer}
    BY <2>2 DEF ShownKeys
  <2> QED
    BY <1>1, <1>2, <2>1, <2>3 DEF q
<1>3. CASE ~(q.scheme \in {"bearer", "bare"} /\ q.bearer # NoValue)
  <2>1. PresentedKey(q) = q.direct
    BY <1>1, <1>3 DEF PresentedKey
  <2>2. InHeader(q) = {}
    BY <1>1, <1>3 DEF InHeader
  <2>3. ShownKeys(q) = {k \in DOMAIN Keys : q.direct = k}
    BY <2>2 DEF ShownKeys
  <2> QED
    BY <1>1, <2>1, <2>3 DEF q
<1> QED
  BY <1>2, <1>3

\* Whoever is let in by a key, or by a cookie, is told apart.
LEMMA Kinds ==
  /\ \A b : [kind |-> "apikey", readOnly |-> b] # Anonymous
  /\ [kind |-> "session", readOnly |-> FALSE] # Anonymous
  BY DEF Anonymous

ByKey(q) == ActiveKeys(q) # {} /\ ShownKeys(q) = ActiveKeys(q)

ByCookie(x) ==
  LET q == x.request IN
  /\ ShownKeys(q) = {} /\ q.cookie.parts = 3
  /\ q.cookie.signed = x.secret /\ q.cookie.epoch = x.epoch
  /\ x.now <= q.cookie.expiry

\* What each of the two is let in for.
KeyMay(x) == \/ x.endpoint = "read"
             \/ x.endpoint = "write" /\ ~ \E k \in ActiveKeys(x.request) : Keys[k].readOnly

CookieMay(x) == x.endpoint \in {"write", "session_write"} => x.request.csrf = x.secret

Policy(x, code) ==
  /\ code = 401 <=> ~(ByKey(x.request) \/ ByCookie(x))
  /\ code = 200 <=> (ByKey(x.request) /\ KeyMay(x)) \/ (ByCookie(x) /\ CookieMay(x))

\* The decision is the policy's.
LEMMA DecisionFollowsPolicy ==
  ASSUME NEW x \in Requests
  PROVE  Policy(x, Decide(x.endpoint, x.request, x.secret, x.epoch, x.now))
<1> DEFINE q == x.request
           key == PresentedKey(q)
           who == Authenticate(q, x.secret, x.epoch, x.now)
           good == Keys[key].known /\ ~Keys[key].revoked
           code == Decide(x.endpoint, q, x.secret, x.epoch, x.now)
<1>1. /\ key \in DOMAIN Keys \cup {NoValue}
      /\ ShownKeys(q) = IF key = NoValue THEN {} ELSE {key}
  BY ShownIsPresented
<1>2. /\ x.endpoint \in {"read", "write", "session", "session_write"}
      /\ x.secret # NoValue /\ x.now \in Int /\ q.cookie.expiry \in Int
  BY RequestsAreTyped DEF IsRequest
<1>3. code = IF who = Anonymous THEN 401
             ELSE IF x.endpoint = "write" /\ who.readOnly THEN 403
             ELSE IF x.endpoint \in {"session", "session_write"} /\ who.kind # "session" THEN 403
             ELSE IF x.endpoint \in {"write", "session_write"} /\ who.kind = "session"
                     /\ q.csrf # x.secret THEN 403
             ELSE 200
  BY DEF Decide, CsrfFails
<1>4. CASE key # NoValue /\ good
  <2>1. key \in DOMAIN Keys /\ who = [kind |-> "apikey", readOnly |-> Keys[key].readOnly]
    BY <1>1, <1>4 DEF Authenticate
  <2>2. who # Anonymous /\ who.kind = "apikey" /\ who.readOnly = Keys[key].readOnly
    BY <2>1, Kinds
  <2>3. ActiveKeys(q) = {key} /\ ShownKeys(q) = {key}
    BY <1>1, <1>4 DEF ActiveKeys
  <2>4. code = IF x.endpoint = "write" /\ Keys[key].readOnly THEN 403
               ELSE IF x.endpoint \in {"session", "session_write"} THEN 403 ELSE 200
    BY <1>3, <2>2
  <2>5. ByKey(q) /\ ~ByCookie(x)
    BY <2>3 DEF ByKey, ByCookie
  <2>6. KeyMay(x) <=> x.endpoint = "read" \/ (x.endpoint = "write" /\ ~Keys[key].readOnly)
    BY <2>3 DEF KeyMay
  <2> HIDE DEF who, good, code
  <2>7. code # 401 /\ (code = 200 <=> KeyMay(x))
    <3> HIDE DEF key
    <3> QED
      BY <1>2, <2>4, <2>6
  <2> QED
    BY <2>5, <2>7 DEF Policy, code
<1>5. CASE key # NoValue /\ ~good
  <2>1. who = Anonymous
    BY <1>5 DEF Authenticate
  <2>2. code = 401
    BY <1>3, <2>1
  <2>3. ActiveKeys(q) = {} /\ ShownKeys(q) = {key}
    BY <1>1, <1>5 DEF ActiveKeys
  <2>4. ~ByKey(q) /\ ~ByCookie(x)
    BY <2>3 DEF ByKey, ByCookie
  <2> HIDE DEF key, who, good, code
  <2> QED
    BY <2>2, <2>4 DEF Policy, code
<1>6. CASE key = NoValue
  <2> DEFINE byCookie == /\ q.cookie.parts = 3
                         /\ q.cookie.signed = x.secret /\ q.cookie.epoch = x.epoch
                         /\ x.now <= q.cookie.expiry
  <2>1. ShownKeys(q) = {} /\ ActiveKeys(q) = {}
    BY <1>1, <1>6 DEF ActiveKeys
  <2>2. byCookie <=> VerifySession(q.cookie, x.secret, x.epoch, x.now)
    BY <1>2 DEF VerifySession
  <2>3. CASE byCookie
    <3>1. who = [kind |-> "session", readOnly |-> FALSE]
      BY <1>6, <2>2, <2>3 DEF Authenticate
    <3>2. who # Anonymous /\ who.kind = "session" /\ ~who.readOnly
      BY <3>1, Kinds
    <3>3. code = IF x.endpoint \in {"write", "session_write"} /\ q.csrf # x.secret THEN 403 ELSE 200
      BY <1>3, <3>2
    <3>4. /\ code # 401
          /\ code = 200 <=> CookieMay(x)
      <4> HIDE DEF code, who
      <4> QED
        BY <3>3 DEF CookieMay
    <3>5. ByCookie(x) /\ ~ByKey(q)
      BY <2>1, <2>3 DEF ByKey, ByCookie
    <3> HIDE DEF key, who, good, code
    <3> QED
      BY <3>4, <3>5 DEF Policy, code
  <2>4. CASE ~byCookie
    <3>1. who = Anonymous
      BY <1>6, <2>2, <2>4 DEF Authenticate
    <3>2. code = 401
      BY <1>3, <3>1
    <3>3. ~ByCookie(x) /\ ~ByKey(q)
      BY <2>1, <2>4 DEF ByKey, ByCookie
    <3> HIDE DEF key, who, good, code
    <3> QED
      BY <3>2, <3>3 DEF Policy, code
  <2> QED
    BY <2>3, <2>4
<1> QED
  BY <1>4, <1>5, <1>6

\* The answer is that of the function that was called.
AccessInv ==
  /\ input[1] = "access" => input[2] \in Requests
  /\ Replied("access") =>
        LET x == input[2] IN
        output[2] = Decide(x.endpoint, x.request, x.secret, x.epoch, x.now)

LEMMA AccessInvHolds == RulesSpec => []AccessInv
<1>1. RulesInit => AccessInv
  BY DEF RulesInit, AccessInv, Replied, NoAnswer
<1>2. AccessInv /\ [RulesNext]_rulesVars => AccessInv'
  <2> SUFFICES ASSUME AccessInv, [RulesNext]_rulesVars PROVE AccessInv'
    OBVIOUS
  <2>1. CASE Authorize
    BY <2>1 DEF Authorize, Asked, Answer, AccessInv, Replied
  <2>2. CASE Normalized \/ BuildContext \/ ReadReply
    BY <2>2 DEF Normalized, BuildContext, ReadReply, Asked, Answer, AccessInv, Replied
  <2>3. CASE UNCHANGED rulesVars
    BY <2>3 DEF rulesVars, AccessInv, Replied
  <2> QED
    BY <2>1, <2>2, <2>3 DEF RulesNext
<1> QED
  BY <1>1, <1>2, PTL DEF RulesSpec

\* Who is let in and what for, for every combination of credentials, epochs,
\* clocks and endpoints: a bad key is not made up for by a cookie, a read-only
\* key never writes, a key is never a browser, and a cookie alone never writes.
THEOREM AccessIsByPolicy == RulesSpec => []AccessFollowsPolicy
<1>1. AccessInv => AccessFollowsPolicy
  <2> SUFFICES ASSUME AccessInv, Replied("access") PROVE AccessFollowsPolicy
    BY DEF AccessFollowsPolicy
  <2>1. input[2] \in Requests
    BY DEF AccessInv, Replied
  <2>2. Policy(input[2], output[2])
    BY <2>1, DecisionFollowsPolicy DEF AccessInv
  <2> DEFINE x == input[2]
             q == x.request
             inHeader == {k \in DOMAIN Keys : q.bearer = k /\ q.scheme \in {"bearer", "bare"}}
             shown == inHeader \cup {k \in DOMAIN Keys : q.direct = k /\ inHeader = {}}
             active == {k \in shown : Keys[k].known /\ ~Keys[k].revoked}
  <2>3. ShownKeys(q) = shown /\ ActiveKeys(q) = active
    BY Zenon DEF InHeader, ShownKeys, ActiveKeys
  <2>4. /\ ByKey(q) <=> active # {} /\ shown = active
        /\ ByCookie(x) <=> /\ shown = {} /\ q.cookie.parts = 3
                           /\ q.cookie.signed = x.secret /\ q.cookie.epoch = x.epoch
                           /\ x.now <= q.cookie.expiry
    BY <2>3, Zenon DEF ByKey, ByCookie
  <2>5. KeyMay(x) <=> \/ x.endpoint = "read"
                      \/ x.endpoint = "write" /\ ~ \E k \in active : Keys[k].readOnly
    BY <2>3, Zenon DEF KeyMay
  <2> DEFINE byKey == active # {} /\ shown = active
             byCookie == /\ shown = {} /\ q.cookie.parts = 3
                         /\ q.cookie.signed = x.secret /\ q.cookie.epoch = x.epoch
                         /\ x.now <= q.cookie.expiry
             writes == x.endpoint \in {"write", "session_write"}
  <2>6. /\ (output[2] = 401) = ~(byKey \/ byCookie)
        /\ (output[2] = 200) =
              \/ byKey /\ x.endpoint = "read"
              \/ byKey /\ x.endpoint = "write" /\ ~ \E k \in active : Keys[k].readOnly
              \/ byCookie /\ (writes => q.csrf = x.secret)
    <3>1. (ByKey(q) <=> byKey) /\ (ByCookie(x) <=> byCookie)
      BY <2>4
    <3> HIDE DEF byKey, byCookie, active, q, x
    <3> QED
      BY <2>2, <2>5, <3>1 DEF Policy, CookieMay, q, x
  <2> QED
    BY <2>6, Zenon DEF AccessFollowsPolicy
<1> QED
  BY <1>1, AccessInvHolds, PTL
-----------------------------------------------------------------------------
(* The context.                                                            *)

Lines(x) == CourseLines(x.monday, x.day, x.minute, x.total, x.sessions)

WeekAt(x) == WeekOf(x.day, x.total)
DayAt(x) == Today(x.monday, x.day)
Todays(x) == {s \in x.sessions : s.weekday = DayAt(x) /\ SessionApplies(s, WeekAt(x))}
Rest(x) == {s \in x.sessions : s.weekday > DayAt(x) /\ SessionApplies(s, WeekAt(x))}
Told(x) == {s \in Todays(x) : StandingOf(s, x.minute) # "over"} \cup Rest(x)
SayingOf(x, s) == IF s \in Todays(x) THEN StandingOf(s, x.minute) ELSE "this week"

\* Each session that is told has one saying: today's are none of the rest.
LEMMA SaidIsTold ==
  ASSUME NEW x \in Moments
  PROVE  /\ Lines(x).failed <=> \E s \in Todays(x) : HasNoHour(s)
         /\ Lines(x).said = {<<s, SayingOf(x, s)>> : s \in Told(x)}
         /\ Told(x) \in SUBSET x.sessions
<1> DEFINE direct == {<<s, StandingOf(s, x.minute)>> :
                        s \in {t \in Todays(x) : StandingOf(t, x.minute) # "over"}}
                      \cup {<<s, "this week">> : s \in Rest(x)}
           fails == \E s \in Todays(x) : HasNoHour(s)
<1>1. Lines(x) = [failed |-> fails, said |-> direct]
  BY DEF Lines, CourseLines, WeekAt, DayAt, Todays, Rest
<1>2. \A s \in Rest(x) : s \notin Todays(x)
  <2>1. DayAt(x) \in Int /\ \A s \in x.sessions : s.weekday \in Int
    BY MomentsAreTyped DEF IsMoment, DayAt, Today, Session
  <2> QED
    BY <2>1 DEF Rest, Todays
<1>3. direct = {<<s, SayingOf(x, s)>> : s \in Told(x)}
  BY <1>2 DEF SayingOf, Told
<1>5. Told(x) \in SUBSET x.sessions
  BY DEF Told, Todays, Rest
<1> HIDE DEF direct, fails
<1>4. Lines(x).said = direct /\ Lines(x).failed = fails
  BY <1>1
<1>6. Lines(x).failed <=> \E s \in Todays(x) : HasNoHour(s)
  BY <1>4, Zenon DEF fails
<1> QED
  BY <1>3, <1>4, <1>5, <1>6

\* Who is told is told with its saying only.
LEMMA ToldAsIs ==
  ASSUME NEW x \in Moments
  PROVE  /\ \A s, v : <<s, v>> \in Lines(x).said <=> s \in Told(x) /\ v = SayingOf(x, s)
         /\ {p[1] : p \in Lines(x).said} = Told(x)
<1>1. Lines(x).said = {<<s, SayingOf(x, s)>> : s \in Told(x)}
  BY SaidIsTold
<1>2. \A p \in Lines(x).said : p[1] \in Told(x)
  BY <1>1
<1>3. ASSUME NEW s \in Told(x) PROVE \E p \in Lines(x).said : p[1] = s
  <2>1. <<s, SayingOf(x, s)>> \in Lines(x).said /\ <<s, SayingOf(x, s)>>[1] = s
    BY <1>1
  <2> QED
    BY <2>1
<1>4. {p[1] : p \in Lines(x).said} = Told(x)
  BY <1>2, <1>3
<1>5. ASSUME NEW s, NEW v
      PROVE  <<s, v>> \in Lines(x).said <=> s \in Told(x) /\ v = SayingOf(x, s)
  BY <1>1
<1> QED
  BY <1>4, <1>5

\* There are as many sayings as sessions that are told.
LEMMA ToldOnce ==
  ASSUME NEW x \in Moments
  PROVE  Cardinality({p[1] : p \in Lines(x).said}) = Cardinality(Lines(x).said)
<1> DEFINE said == Lines(x).said
           f == [s \in Told(x) |-> <<s, SayingOf(x, s)>>]
<1>1. IsFiniteSet(Told(x))
  <2>1. Told(x) \in SUBSET x.sessions
    BY SaidIsTold
  <2>2. IsFiniteSet(x.sessions)
    BY MomentsAreTyped DEF IsMoment
  <2> QED
    BY <2>1, <2>2, FS_Subset
<1>2. said = {<<s, SayingOf(x, s)>> : s \in Told(x)}
  BY SaidIsTold
<1>3. \A s \in Told(x) : f[s] = <<s, SayingOf(x, s)>> /\ f[s][1] = s
  OBVIOUS
<1>4. f \in [Told(x) -> said] /\ \A p \in said : \E s \in Told(x) : f[s] = p
  BY <1>2, <1>3
<1> HIDE DEF f, said
<1>5. f \in Surjection(Told(x), said)
  BY <1>4 DEF Surjection
<1>6. f \in Injection(Told(x), said)
  <2>1. ASSUME NEW a \in Told(x), NEW b \in Told(x), f[a] = f[b] PROVE a = b
    <3>1. f[a][1] = a /\ f[b][1] = b
      BY <1>3
    <3> QED
      BY <2>1, <3>1
  <2>2. f \in [Told(x) -> said] /\ \A a, b \in Told(x) : f[a] = f[b] => a = b
    BY <1>4, <2>1, Zenon
  <2> QED
    BY <2>2 DEF Injection, IsInjective
<1>7. Cardinality(said) = Cardinality(Told(x))
  BY <1>1, <1>5, <1>6, FS_Surjection
<1> QED
  BY <1>7, ToldAsIs DEF said

\* The week of a day of the term.
LEMMA WeekIsThatOfTheDay ==
  ASSUME NEW x \in Moments
  PROVE  /\ WeekAt(x) \in 0..x.total
         /\ \A w \in 1..x.total : (w - 1) * 7 <= x.day /\ x.day < w * 7 <=> w = WeekAt(x)
<1>1. x.day \in Int /\ x.total \in Nat \ {0}
  BY MomentsAreTyped DEF IsMoment
<1> QED
  BY <1>1 DEF WeekAt, WeekOf

\* In a term that begins on a Monday a day is that weekday of that week.
LEMMA DayIsThatOfTheWeek ==
  ASSUME NEW x \in Moments, x.monday = 1
  PROVE  /\ DayAt(x) \in 1..7
         /\ WeekAt(x) > 0 => x.day = (WeekAt(x) - 1) * 7 + DayAt(x) - 1
<1>1. x.day \in Int /\ x.total \in Nat \ {0}
  BY MomentsAreTyped DEF IsMoment
<1>2. DayAt(x) = (x.day % 7) + 1
  BY <1>1 DEF DayAt, Today
<1> QED
  BY <1>1, <1>2 DEF WeekAt, WeekOf

\* A session is held in the weeks it applies to.
LEMMA HeldWhenItApplies ==
  ASSUME NEW s \in Session, NEW total \in Nat, NEW w \in 1..total
  PROVE  w \in Held(s, total) <=> SessionApplies(s, w)
<1>1. /\ s.parity \in {"all", "odd", "even"} /\ s.first \in Nat /\ s.last \in Nat
      /\ w \in Nat /\ w > 0
  BY DEF Session
<1>2. (\E k \in 0..total : w = 2 * k + 1) <=> w % 2 = 1
  <2>1. ASSUME w % 2 = 1 PROVE w \div 2 \in 0..total /\ w = 2 * (w \div 2) + 1
    BY <1>1, <2>1
  <2> QED
    BY <1>1, <2>1
<1>3. (\E k \in 0..total : w = 2 * k) <=> w % 2 = 0
  <2>1. ASSUME w % 2 = 0 PROVE w \div 2 \in 0..total /\ w = 2 * (w \div 2)
    BY <1>1, <2>1
  <2> QED
    BY <1>1, <2>1
<1> QED
  BY <1>1, <1>2, <1>3 DEF Held, SessionApplies

\* So the week of a moment is the one week, if any, that the reference finds.
LEMMA WeeksOfSession ==
  ASSUME NEW x \in Moments, NEW s \in x.sessions
  PROVE  HeldAt(s, x) = IF SessionApplies(s, WeekAt(x)) THEN {WeekAt(x)} ELSE {}
<1>1. s \in Session /\ x.total \in Nat
  BY MomentsAreTyped DEF IsMoment
<1>2. Held(s, x.total) \subseteq 1..x.total
  BY DEF Held
<1>3. SessionApplies(s, WeekAt(x)) => WeekAt(x) \in 1..x.total
  BY <1>1, WeekIsThatOfTheDay DEF SessionApplies
<1> QED
  BY <1>1, <1>2, <1>3, WeekIsThatOfTheDay, HeldWhenItApplies DEF HeldAt

\* What the reference says of a session and one week: whether it is told,
\* whether as on, whether as to come.
ToldInTime(x, s, w) ==
  s \in Told(x)
    <=> \/ x.day * Minutes + x.minute < BeginsAt(s, w)
        \/ /\ x.day * Minutes <= EndsAt(s, w)
           /\ (x.day * Minutes + x.minute) - JustEndedWindow <= EndsAt(s, w)

CurrentIsOn(x, s, w) ==
  <<s, "current">> \in Lines(x).said
    <=> /\ BeginsAt(s, w) <= x.day * Minutes + x.minute
        /\ x.day * Minutes + x.minute <= EndsAt(s, w)

UpcomingIsToCome(x, s, w) ==
  <<s, "upcoming">> \in Lines(x).said
    => BeginsAt(s, w) - (x.day * Minutes + x.minute) \in 1..UpcomingWindow

ToldRight(x, s, w) ==
  /\ ToldInTime(x, s, w)
  /\ s.start >= 0 => CurrentIsOn(x, s, w) /\ UpcomingIsToCome(x, s, w)

\* The hours of a session are numbers.
LEMMA SessionType ==
  ASSUME NEW s \in Session
  PROVE  /\ s.weekday \in 1..7
         /\ s.start \in Int /\ -1 <= s.start /\ s.start <= 1439
         /\ s.end \in Int /\ 0 <= s.end /\ s.end <= 1439
<1>1. s.weekday \in 1..7
  BY DEF Session
<1>2. s.start \in -1..1439
  BY DEF Session
<1>3. s.end \in 0..1439
  BY DEF Session
<1>4. s.start \in Int
  <2> DEFINE t == s.start
  <2>1. t \in -1..1439
    BY <1>2
  <2> HIDE DEF t
  <2>2. t \in Int
    BY <2>1
  <2> QED
    BY <2>2 DEF t
<1>5. -1 <= s.start /\ s.start <= 1439
  <2> DEFINE t == s.start
  <2>1. t \in -1..1439
    BY <1>2
  <2> HIDE DEF t
  <2>2. -1 <= t /\ t <= 1439
    BY <2>1, SMTT(30)
  <2> QED
    BY <2>2 DEF t
<1>6. s.end \in Int
  BY <1>3, SMTT(30)
<1>7. 0 <= s.end /\ s.end <= 1439
  <2> DEFINE t == s.end
  <2>1. t \in 0..1439
    BY <1>3
  <2> HIDE DEF t
  <2>2. 0 <= t /\ t <= 1439
    BY <2>1, SMTT(30)
  <2> QED
    BY <2>2 DEF t
<1> QED
  BY <1>1, <1>4, <1>5, <1>6, <1>7

\* Where a session stands is told by its hours.
LEMMA StandingByHours ==
  ASSUME NEW s, s.start \in Int, s.end \in Int, NEW m \in Int
  PROVE  /\ StandingOf(s, m) # "over" <=> m < s.start \/ m - 60 <= s.end
         /\ StandingOf(s, m) = "current" <=> s.start <= m /\ m <= s.end
         /\ StandingOf(s, m) = "upcoming" => s.start - m \in 1..60
<1>1. CASE s.start <= m /\ m <= s.end
  <2>1. StandingOf(s, m) = "current"
    BY <1>1 DEF StandingOf
  <2> QED
    BY <1>1, <2>1
<1>2. CASE m < s.start /\ s.start - m <= 60
  <2>1. StandingOf(s, m) = "upcoming"
    BY <1>2 DEF StandingOf, UpcomingWindow
  <2> QED
    BY <1>2, <2>1
<1>3. CASE m < s.start /\ s.start - m > 60
  <2>1. StandingOf(s, m) = "later"
    BY <1>3 DEF StandingOf, UpcomingWindow
  <2> QED
    BY <1>3, <2>1
<1>4. CASE s.start <= m /\ s.end < m /\ m - s.end <= 60
  <2>1. StandingOf(s, m) = "just ended"
    BY <1>4 DEF StandingOf, JustEndedWindow
  <2>2. m - 60 <= s.end /\ ~(m <= s.end) /\ ~(m < s.start)
    BY <1>4
  <2> QED
    BY <2>1, <2>2
<1>5. CASE s.start <= m /\ s.end < m /\ m - s.end > 60
  <2>1. StandingOf(s, m) = "over"
    BY <1>5 DEF StandingOf, JustEndedWindow
  <2> QED
    BY <1>5, <2>1
<1> QED
  BY <1>1, <1>2, <1>3, <1>4, <1>5

\* A session of this week is told as the reference says: for one of today in
\* the minutes of the day, for one of another day whatever the minute is.
LEMMA HeldIsToldRight ==
  ASSUME NEW x \in Moments, x.monday = 1, NEW s \in x.sessions, ~Lines(x).failed,
         SessionApplies(s, WeekAt(x))
  PROVE  ToldRight(x, s, WeekAt(x))
<1> DEFINE W == WeekAt(x)
           T == DayAt(x)
           D == x.day * Minutes
           m == x.minute
           away == (s.weekday - T) * Minutes
<1>0. s \in Session /\ x.minute \in 0..1439
  BY MomentsAreTyped DEF IsMoment
<1>1. x.day \in Int /\ m \in Int /\ 0 <= m /\ m <= 1439
  <2>1. x.day \in Int
    BY MomentsAreTyped DEF IsMoment
  <2>2. m \in 0..1439
    BY <1>0
  <2> HIDE DEF m
  <2>3. m \in Int /\ 0 <= m /\ m <= 1439
    BY <2>2
  <2> QED
    BY <2>1, <2>3
<1>2. /\ s.weekday \in 1..7
      /\ s.start \in Int /\ -1 <= s.start /\ s.start <= 1439
      /\ s.end \in Int /\ 0 <= s.end /\ s.end <= 1439
  BY <1>0, SessionType
<1>3. W \in Nat /\ W > 0 /\ T \in 1..7 /\ x.day = (W - 1) * 7 + T - 1
  <2>1. W \in Nat /\ W > 0
    BY <1>1, WeekIsThatOfTheDay DEF SessionApplies
  <2> QED
    BY <2>1, DayIsThatOfTheWeek
<1>4. /\ s \in Todays(x) <=> s.weekday = T
      /\ s \in Rest(x) <=> s.weekday > T
  BY DEF Todays, Rest
<1>5. \A v : <<s, v>> \in Lines(x).said <=> s \in Told(x) /\ v = SayingOf(x, s)
  BY ToldAsIs
<1>6. /\ ToldInTime(x, s, W)
        <=> (s \in Told(x)
               <=> \/ D + m < BeginsAt(s, W)
                   \/ D <= EndsAt(s, W) /\ (D + m) - JustEndedWindow <= EndsAt(s, W))
      /\ CurrentIsOn(x, s, W)
        <=> (<<s, "current">> \in Lines(x).said
               <=> BeginsAt(s, W) <= D + m /\ D + m <= EndsAt(s, W))
      /\ UpcomingIsToCome(x, s, W)
        <=> (<<s, "upcoming">> \in Lines(x).said
               => BeginsAt(s, W) - (D + m) \in 1..UpcomingWindow)
  BY Zenon DEF ToldInTime, CurrentIsOn, UpcomingIsToCome
<1>7. /\ BeginsAt(s, W) = ((W - 1) * 7 + s.weekday - 1) * Minutes + s.start
      /\ EndsAt(s, W) = BeginsAt(s, W) + s.end - s.start
  BY DEF BeginsAt, EndsAt
<1>14. Minutes = 1440 /\ UpcomingWindow = 60 /\ JustEndedWindow = 60
  BY DEF Minutes, UpcomingWindow, JustEndedWindow
<1>8. D \in Int /\ away \in Int /\ ((W - 1) * 7 + s.weekday - 1) * Minutes = D + away
  <2> HIDE DEF W, T
  <2> QED
    BY <1>2, <1>3, <1>14
<1>9. /\ s.weekday = T => away = 0
      /\ s.weekday > T => away >= 1440
      /\ s.weekday < T => away <= -1440
  <2> HIDE DEF W, T
  <2> QED
    BY <1>2, <1>3, <1>14
<1> HIDE DEF W, T, D, m, away
<1>10. BeginsAt(s, W) = D + away + s.start /\ EndsAt(s, W) = D + away + s.end
  <2> DEFINE b == ((W - 1) * 7 + s.weekday - 1) * Minutes
  <2>1. b = D + away /\ BeginsAt(s, W) = b + s.start
    BY <1>7, <1>8
  <2> HIDE DEF b
  <2> QED
    BY <1>2, <1>7, <1>8, <2>1
<1>11. CASE s.weekday = T
  <2>1. s \in Todays(x) /\ s \notin Rest(x) /\ away = 0
    BY <1>2, <1>3, <1>4, <1>9, <1>11
  <2>2. s.start >= 0
    <3>1. ~HasNoHour(s)
      BY <2>1, SaidIsTold
    <3> QED
      BY <1>2, <3>1 DEF HasNoHour
  <2>3. s \in Told(x) <=> StandingOf(s, m) # "over"
    BY <2>1 DEF Told, m
  <2>4. SayingOf(x, s) = StandingOf(s, m)
    BY <2>1 DEF SayingOf, m
  <2>5. /\ StandingOf(s, m) # "over" <=> m < s.start \/ m - 60 <= s.end
        /\ StandingOf(s, m) = "current" <=> s.start <= m /\ m <= s.end
        /\ StandingOf(s, m) = "upcoming" => s.start - m \in 1..60
    BY <1>1, <1>2, StandingByHours
  <2>6. /\ <<s, "current">> \in Lines(x).said <=> StandingOf(s, m) = "current"
        /\ <<s, "upcoming">> \in Lines(x).said => StandingOf(s, m) = "upcoming"
    BY <1>5, <2>3, <2>4
  <2>7. BeginsAt(s, W) = D + s.start /\ EndsAt(s, W) = D + s.end
    BY <1>2, <1>8, <1>10, <2>1
  <2>8. /\ D + m < BeginsAt(s, W) <=> m < s.start
        /\ D <= EndsAt(s, W)
        /\ (D + m) - JustEndedWindow <= EndsAt(s, W) <=> m - 60 <= s.end
        /\ BeginsAt(s, W) <= D + m <=> s.start <= m
        /\ D + m <= EndsAt(s, W) <=> m <= s.end
        /\ BeginsAt(s, W) - (D + m) = s.start - m
    BY <1>1, <1>2, <1>8, <1>14, <2>7
  <2>9. s \in Told(x)
           <=> \/ D + m < BeginsAt(s, W)
               \/ D <= EndsAt(s, W) /\ (D + m) - JustEndedWindow <= EndsAt(s, W)
    BY <2>3, <2>5, <2>8, Zenon
  <2>10. <<s, "current">> \in Lines(x).said
            <=> BeginsAt(s, W) <= D + m /\ D + m <= EndsAt(s, W)
    BY <2>5, <2>6, <2>8, Zenon
  <2>11. <<s, "upcoming">> \in Lines(x).said
            => BeginsAt(s, W) - (D + m) \in 1..UpcomingWindow
    BY <1>14, <2>5, <2>6, <2>8, Zenon
  <2> QED
    BY <1>6, <2>9, <2>10, <2>11, Zenon DEF ToldRight, W
<1>12. CASE s.weekday > T
  <2>1. s \in Rest(x) /\ s \notin Todays(x) /\ away >= 1440
    BY <1>2, <1>3, <1>4, <1>9, <1>12
  <2>2. s \in Told(x) /\ SayingOf(x, s) = "this week"
    BY <2>1 DEF Told, SayingOf
  <2>3. <<s, "current">> \notin Lines(x).said
    BY <1>5, <2>2, "current" # "this week"
  <2>4. <<s, "upcoming">> \notin Lines(x).said
    BY <1>5, <2>2, "upcoming" # "this week"
  <2>5. D <= EndsAt(s, W) /\ (D + m) - JustEndedWindow <= EndsAt(s, W)
    BY <1>1, <1>2, <1>8, <1>10, <1>14, <2>1
  <2>6. s.start >= 0 => ~(BeginsAt(s, W) <= D + m)
    BY <1>1, <1>2, <1>8, <1>10, <2>1
  <2> QED
    BY <1>6, <2>2, <2>3, <2>4, <2>5, <2>6, Zenon DEF ToldRight, W
<1>13. CASE s.weekday < T
  <2>1. s \notin Rest(x) /\ s \notin Todays(x) /\ away <= -1440
    BY <1>2, <1>3, <1>4, <1>9, <1>13
  <2>2. s \notin Told(x)
    BY <2>1 DEF Told
  <2>3. <<s, "current">> \notin Lines(x).said
    BY <1>5, <2>2, "current" # "this week"
  <2>4. <<s, "upcoming">> \notin Lines(x).said
    BY <1>5, <2>2, "upcoming" # "this week"
  <2>5. /\ ~(D + m < BeginsAt(s, W)) /\ ~(D <= EndsAt(s, W))
        /\ ~(D + m <= EndsAt(s, W))
    BY <1>1, <1>2, <1>8, <1>10, <2>1
  <2> QED
    BY <1>6, <2>2, <2>3, <2>4, <2>5, Zenon DEF ToldRight, W
<1> QED
  BY <1>2, <1>3, <1>11, <1>12, <1>13 DEF W

\* The answer is that of the function that was called.
ContextInv ==
  /\ input[1] = "context" => input[2] \in Moments
  /\ Replied("context") => output[2] = Lines(input[2])

\* It is an invariant.
LEMMA ContextInvHolds == RulesSpec => []ContextInv
<1>1. RulesInit => ContextInv
  BY DEF RulesInit, ContextInv, Replied, NoAnswer
<1>2. ContextInv /\ [RulesNext]_rulesVars => ContextInv'
  <2> SUFFICES ASSUME ContextInv, [RulesNext]_rulesVars PROVE ContextInv'
    OBVIOUS
  <2>1. CASE BuildContext
    BY <2>1 DEF BuildContext, Asked, Answer, ContextInv, Replied, Lines
  <2>2. CASE Normalized \/ Authorize \/ ReadReply
    BY <2>2 DEF Normalized, Authorize, ReadReply, Asked, Answer, ContextInv, Replied
  <2>3. CASE UNCHANGED rulesVars
    BY <2>3 DEF rulesVars, ContextInv, Replied
  <2> QED
    BY <2>1, <2>2, <2>3 DEF RulesNext
<1> QED
  BY <1>1, <1>2, PTL DEF RulesSpec

\* What the model is told of the timetable, for every day, minute, length of
\* term and set of sessions: each lesson of the week once, on, over or to come
\* as it is, and no lesson of another week.
THEOREM ContextIsRight == RulesSpec => []ContextTellsTheWeek
<1>1. ContextInv => ContextTellsTheWeek
  <2> SUFFICES ASSUME ContextInv, Replied("context") PROVE ContextTellsTheWeek
    BY DEF ContextTellsTheWeek
  <2> DEFINE x == input[2]
  <2>1. x \in Moments /\ output[2] = Lines(x)
    BY DEF ContextInv, Replied
  <2>2. output[2].failed => \E s \in x.sessions : s.start < 0
    BY <2>1, SaidIsTold DEF Todays, HasNoHour
  <2>3. Cardinality({p[1] : p \in output[2].said}) = Cardinality(output[2].said)
    BY <2>1, ToldOnce
  <2>4. {p[1] : p \in output[2].said} = Told(x)
    BY <2>1, ToldAsIs
  <2>5. output[2].said = Lines(x).said
    BY <2>1
  <2>6. ASSUME x.monday = 1, ~output[2].failed, NEW s \in x.sessions
        PROVE  /\ s \notin Told(x) \/ HeldAt(s, x) # {}
               /\ HeldAt(s, x) \subseteq {WeekAt(x)}
               /\ \A w \in HeldAt(s, x) : ToldRight(x, s, w)
    <3>1. CASE SessionApplies(s, WeekAt(x))
      BY <2>1, <2>6, <3>1, WeeksOfSession, HeldIsToldRight
    <3>2. CASE ~SessionApplies(s, WeekAt(x))
      BY <2>1, <3>2, WeeksOfSession DEF Told, Todays, Rest
    <3> QED
      BY <3>1, <3>2
  <2> HIDE DEF x
  <2>7. ASSUME x.monday = 1, ~output[2].failed, NEW s \in x.sessions
        PROVE  s \in {p[1] : p \in output[2].said} <=> \E w \in HeldAt(s, x) :
                  \/ x.day * Minutes + x.minute < BeginsAt(s, w)
                  \/ /\ x.day * Minutes <= EndsAt(s, w)
                     /\ (x.day * Minutes + x.minute) - JustEndedWindow <= EndsAt(s, w)
    <3>1. \A w \in HeldAt(s, x) : ToldInTime(x, s, w)
      BY <2>6, <2>7 DEF ToldRight
    <3>2. s \in Told(x) => HeldAt(s, x) # {}
      BY <2>6, <2>7
    <3> QED
      BY <2>4, <3>1, <3>2, Zenon DEF ToldInTime
  <2>8. ASSUME x.monday = 1, ~output[2].failed,
               NEW s \in x.sessions, NEW w \in HeldAt(s, x), s.start >= 0
        PROVE  /\ <<s, "current">> \in output[2].said <=>
                     BeginsAt(s, w) <= x.day * Minutes + x.minute
                       /\ x.day * Minutes + x.minute <= EndsAt(s, w)
               /\ <<s, "upcoming">> \in output[2].said =>
                     BeginsAt(s, w) - (x.day * Minutes + x.minute) \in 1..UpcomingWindow
    <3>1. CurrentIsOn(x, s, w) /\ UpcomingIsToCome(x, s, w)
      BY <2>6, <2>8 DEF ToldRight
    <3> QED
      BY <2>5, <3>1, Zenon DEF CurrentIsOn, UpcomingIsToCome
  <2>9. output[2].failed => \E s \in x.sessions : s.start < 0
    BY <2>2 DEF x
  <2> QED
    BY <2>3, <2>7, <2>8, <2>9, Zenon DEF ContextTellsTheWeek, x
<1> QED
  BY <1>1, ContextInvHolds, PTL

-----------------------------------------------------------------------------
(* What becomes of the items of a model.                                   *)

\* A single item is as the rules say.
LEMMA ItemFollowsRules ==
  ASSUME NEW raw \in RawItem, raw.object
  PROVE  IsRuleOf(raw, Item(raw))
<1> DEFINE n == raw.priority.value
           it == Item(raw)
           dated == raw.due.kind = "moment"
           usable == raw.priority.kind = "number"
<1>0. raw.due \in RawDue /\ raw.priority \in RawPriority
  <2>1. raw # NotAnObject
    BY DEF NotAnObject
  <2>2. raw \in RawObject
    BY <2>1 DEF RawItem
  <2> QED
    BY <2>2 DEF RawObject
<1>1. /\ dated => raw.due.at # NoDue
      /\ raw.priority.kind \in {"empty", "unparsable", "infinite", "number"}
  <2>1. dated => raw.due.at # NoDue
    BY <1>0 DEF RawDue
  <2>2. raw.priority.kind \in {"empty", "unparsable", "infinite", "number"}
    BY <1>0 DEF RawPriority
  <2> QED
    BY <2>1, <2>2
<1>2. n \in Int
  BY <1>0 DEF RawPriority
<1>3. /\ it.category = CategoryOf(raw) /\ it.due = DueOf(raw) /\ it.priority = PriorityOf(raw)
      /\ it.needsPriority <=> ~dated /\ Coerced(raw.priority) = NoPriority
      /\ it.adjustments = Adjustments(raw)
  BY DEF Item
<1> DEFINE c == Coerced(raw.priority)
<1>4. /\ usable => c \in 1..5 /\ (1 <= n /\ n <= 5 => c = n) /\ (n < 1 => c = 1) /\ (n > 5 => c = 5)
      /\ ~usable => c = NoPriority
  BY <1>2 DEF Coerced
<1>5. /\ "category_downgraded" \in it.adjustments <=> raw.category \notin Categories \cup {""}
      /\ "priority_clamped" \in it.adjustments <=>
            c # NoPriority /\ ~(raw.priority.exact /\ n = c)
      /\ "priority_dropped" \in it.adjustments <=> dated /\ c # NoPriority
      /\ "priority_defaulted" \in it.adjustments <=> ~dated /\ c = NoPriority
  BY <1>3 DEF Adjustments
<1>5a. usable <=> c # NoPriority
  BY <1>4 DEF NoPriority
<1>6. (it.due = NoDue) # (it.priority = NoPriority)
  <2>1. CASE dated
    BY <1>1, <1>3, <2>1 DEF DueOf, PriorityOf, NoPriority
  <2>2. CASE ~dated
    BY <1>1, <1>3, <1>4, <2>2 DEF DueOf, PriorityOf, NoPriority, DefaultPriority
  <2> QED
    BY <2>1, <2>2
<1>7. /\ it.due # NoDue <=> dated
      /\ dated => it.due = raw.due.at
  BY <1>1, <1>3 DEF DueOf
<1>8. ~dated /\ usable => it.priority = c
  BY <1>1, <1>3, <1>4 DEF PriorityOf, NoPriority
<1>9. ~dated /\ usable => \A k \in 1..5 : Distance(it.priority, n) <= Distance(k, n)
  <2> SUFFICES ASSUME ~dated, usable, NEW k \in 1..5
               PROVE  Distance(c, n) <= Distance(k, n)
    BY <1>8
  <2> HIDE DEF c, n
  <2> QED
    BY <1>2, <1>4 DEF Distance
<1>10. it.priority \in 0..5
  BY <1>3, <1>4 DEF PriorityOf, NoPriority, DefaultPriority
<1>11. it.needsPriority <=> ~dated /\ ~usable
  BY <1>3, <1>5a, Zenon
<1>12. it.category \in Categories
  BY <1>3 DEF CategoryOf, Categories
<1>13. (it.category # raw.category /\ raw.category # "")
          <=> "category_downgraded" \in it.adjustments
  BY <1>3, <1>5 DEF CategoryOf, Categories
<1>14. usable /\ dated <=> "priority_dropped" \in it.adjustments
  BY <1>5, <1>5a, Zenon
<1>15. usable /\ ~dated /\ it.priority # n => "priority_clamped" \in it.adjustments
  BY <1>5, <1>8, <1>5a, Zenon
<1>16. it.needsPriority <=> "priority_defaulted" \in it.adjustments
  BY <1>5, <1>11, <1>5a, Zenon
<1> HIDE DEF it
<1> QED
  BY <1>6, <1>7, <1>9, <1>10, <1>11, <1>12, <1>13, <1>14, <1>15, <1>16 DEF IsRuleOf, it

\* What the loop has found after some of the items: one of these.
Results(raws, n) == [failed : BOOLEAN, items : Seq({Item(raws[i]) : i \in 1..n})]

\* A round keeps it so.
LEMMA RoundType ==
  ASSUME NEW n \in Nat, NEW raws, NEW limit, NEW r \in Results(raws, n), NEW i \in 1..n
  PROVE  Round(r, raws[i], limit) \in Results(raws, n)
<1> DEFINE I == {Item(raws[k]) : k \in 1..n}
<1>1. r \in [failed : BOOLEAN, items : Seq(I)]
  BY DEF Results
<1>2. Item(raws[i]) \in I
  OBVIOUS
<1> HIDE DEF I
<1>3. [r EXCEPT !.failed = TRUE] \in [failed : BOOLEAN, items : Seq(I)]
  BY <1>1
<1>4. [r EXCEPT !.items = Append(@, Item(raws[i]))] \in [failed : BOOLEAN, items : Seq(I)]
  <2>1. Append(r.items, Item(raws[i])) \in Seq(I)
    BY <1>1, <1>2
  <2> QED
    BY <1>1, <2>1
<1> QED
  BY <1>1, <1>3, <1>4 DEF Round, Results, I

\* The fold is a loop: v[k] is the result after k items.
LEMMA LoopOfNormalizeItems ==
  ASSUME NEW n \in Nat, NEW raws, DOMAIN raws = 1..n, NEW limit
  PROVE  \E v \in [0..n -> Results(raws, n)] :
            /\ v[0] = [failed |-> FALSE, items |-> <<>>]
            /\ \A k \in 1..n : v[k] = Round(v[k-1], raws[k], limit)
            /\ v[n] = NormalizeItems(raws, limit)
<1> DEFINE T == Results(raws, n)
           base == [failed |-> FALSE, items |-> <<>>]
           h == [p \in T \X (1..n) |-> Round(p[1], raws[p[2]], limit)]
           Body(f) == [s \in SUBSET (1..n) |->
                         IF s = {} THEN base
                         ELSE Round(f[s \ {Max(s)}], raws[Max(s)], limit)]
           iter == CHOOSE f : f = Body(f)
<1>1. base \in T
  BY DEF Results
<1>2. h \in [T \X (1..n) -> T]
  BY RoundType
<1>3. PICK g \in [SUBSET (1..n) -> T] : Follows(g, n, base, h)
  <2> HIDE DEF T, base, h
  <2> QED
    BY <1>1, <1>2, FoldExists
<1>4. g = Body(g)
  <2>1. ASSUME NEW s \in SUBSET (1..n), s # {}
        PROVE  g[s] = Round(g[s \ {Max(s)}], raws[Max(s)], limit)
    <3>1. Max(s) \in 1..n
      BY <2>1, MaxIsIn
    <3>2. g[s \ {Max(s)}] \in T
      OBVIOUS
    <3>3. g[s] = h[<<g[s \ {Max(s)}], Max(s)>>]
      BY <1>3, <2>1 DEF Follows
    <3> HIDE DEF T
    <3> QED
      BY <3>1, <3>2, <3>3
  <2>2. g[{}] = base
    BY <1>3 DEF Follows
  <2> HIDE DEF base, h, T
  <2> QED
    BY <2>1, <2>2
<1>5. iter = Body(iter)
  <2> HIDE DEF Body
  <2> QED
    BY <1>4
<1>6. NormalizeItems(raws, limit) = iter[1..n]
  BY Zenon DEF NormalizeItems, FoldLeft, MapThenFoldSet
<1>7. iter[{}] = base
  <2> HIDE DEF iter, base
  <2> QED
    BY <1>5
<1>8. ASSUME NEW s \in SUBSET (1..n), s # {}, iter[s \ {Max(s)}] \in T
      PROVE  iter[s] = h[<<iter[s \ {Max(s)}], Max(s)>>]
  <2>1. iter[s] = Round(iter[s \ {Max(s)}], raws[Max(s)], limit)
    <3> HIDE DEF iter
    <3> QED
      BY <1>5, <1>8
  <2>2. Max(s) \in 1..n
    BY <1>8, MaxIsIn
  <2> HIDE DEF iter
  <2> QED
    BY <1>8, <2>1, <2>2
<1> HIDE DEF iter, base, T
<1>9. LoopEnds(T, n, base, h, iter[1..n])
  <2>1. FollowsIn(T, iter, n, base, h)
    <3> HIDE DEF h
    <3> QED
      BY <1>7, <1>8 DEF FollowsIn
  <2> HIDE DEF h
  <2> QED
    BY <1>1, <1>2, <2>1, FoldIsLoop, Zenon
<1>10. PICK v : IsLoop(v, T, n, base, h) /\ v[n] = iter[1..n]
  BY <1>9 DEF LoopEnds
<1>11. ASSUME NEW k \in 1..n PROVE v[k] = Round(v[k-1], raws[k], limit)
  <2>1. v[k-1] \in T /\ v[k] = h[<<v[k-1], k>>]
    <3> HIDE DEF h
    <3>1. k - 1 \in 0..n
      OBVIOUS
    <3>2. v \in [0..n -> T] /\ v[k] = h[<<v[k-1], k>>]
      BY <1>10 DEF IsLoop
    <3> QED
      BY <3>1, <3>2
  <2> QED
    BY <2>1
<1> HIDE DEF h
<1>12. v \in [0..n -> T] /\ v[0] = base
  BY <1>10 DEF IsLoop
<1> QED
  BY <1>6, <1>10, <1>11, <1>12 DEF base, T

\* The items with a title among the first k, and how many they are.
Titled(raws, k) == {i \in 1..k : raws[i].object /\ raws[i].title # ""}
Place(raws, k) == Cardinality(Titled(raws, k))

\* Titled is what is not dropped.
LEMMA TitledAreNotDropped ==
  ASSUME NEW raws, NEW k
  PROVE  \A i : i \in Titled(raws, k) <=> i \in 1..k /\ ~Dropped(raws[i])
BY Zenon DEF Titled, Dropped

\* The next item takes the next place, or none.
LEMMA PlaceSteps ==
  ASSUME NEW raws, NEW k \in Nat
  PROVE  /\ IsFiniteSet(Titled(raws, k)) /\ Place(raws, k) \in Nat
         /\ k = 0 => Place(raws, k) = 0
         /\ k > 0 /\ Dropped(raws[k]) =>
              Titled(raws, k) = Titled(raws, k - 1) /\ Place(raws, k) = Place(raws, k - 1)
         /\ k > 0 /\ ~Dropped(raws[k]) =>
              /\ Titled(raws, k) = Titled(raws, k - 1) \cup {k}
              /\ Place(raws, k) = Place(raws, k - 1) + 1
<1>1. ASSUME NEW m \in Nat PROVE IsFiniteSet(Titled(raws, m)) /\ Place(raws, m) \in Nat
  <2>1. m \in Int /\ 1 \in Int
    OBVIOUS
  <2>2. IsFiniteSet(1..m)
    BY <2>1, FS_Interval
  <2>3. Titled(raws, m) \subseteq 1..m
    BY DEF Titled
  <2>4. IsFiniteSet(Titled(raws, m))
    BY <2>2, <2>3, FS_Subset
  <2> QED
    BY <2>4, FS_CardinalityType DEF Place
<1>2. k = 0 => Titled(raws, k) = {}
  BY DEF Titled
<1>3. k = 0 => Place(raws, k) = 0
  BY <1>2, FS_EmptySet DEF Place
<1>8. k > 0 => /\ \A i : i \in 1..k <=> i \in 1..k-1 \/ i = k
               /\ k \notin 1..k-1 /\ k - 1 \in Nat
  OBVIOUS
<1>4. k > 0 /\ Dropped(raws[k]) => Titled(raws, k) = Titled(raws, k - 1)
  BY <1>8, TitledAreNotDropped
<1>5. k > 0 /\ ~Dropped(raws[k]) => Titled(raws, k) = Titled(raws, k - 1) \cup {k}
  BY <1>8, TitledAreNotDropped
<1>6. k > 0 => k \notin Titled(raws, k - 1) /\ k - 1 \in Nat
  BY <1>8, TitledAreNotDropped
<1>7. k > 0 /\ ~Dropped(raws[k]) => Place(raws, k) = Place(raws, k - 1) + 1
  BY <1>1, <1>5, <1>6, FS_AddElement DEF Place
<1> QED
  BY <1>1, <1>3, <1>4, <1>5, <1>7 DEF Place

\* Places only grow.
LEMMA PlaceGrows ==
  ASSUME NEW raws, NEW k \in Nat, NEW i \in 1..k
  PROVE  Place(raws, i) \in Nat /\ Place(raws, i) <= Place(raws, k)
<1>1. Titled(raws, i) \subseteq Titled(raws, k)
  <2>1. 1..i \subseteq 1..k
    OBVIOUS
  <2> QED
    BY <2>1, TitledAreNotDropped
<1>2. i \in Nat
  OBVIOUS
<1>3. IsFiniteSet(Titled(raws, k)) /\ Place(raws, i) \in Nat
  BY <1>2, PlaceSteps
<1> QED
  BY <1>1, <1>3, FS_Subset DEF Place

\* After k items: the titled ones that are among the first `limit' have been
\* kept, each in its place, or one of them overflowed.
LoopInv(r, raws, limit, k) ==
  /\ r.failed <=> \E i \in Titled(raws, k) : Place(raws, i) <= limit /\ Overflows(raws[i])
  /\ ~r.failed =>
        /\ Len(r.items) = IF Place(raws, k) <= limit THEN Place(raws, k) ELSE limit
        /\ \A i \in Titled(raws, k) :
              Place(raws, i) <= limit => r.items[Place(raws, i)] = Item(raws[i])

\* A round keeps it: the item is dropped, comes after a failure or too late,
\* overflows, or is appended in its place.
LEMMA RoundKeepsLoopInv ==
  ASSUME NEW n \in Nat, NEW raws, NEW limit \in Nat \ {0}, NEW k \in 1..n,
         NEW r \in Results(raws, n), LoopInv(r, raws, limit, k - 1)
  PROVE  LoopInv(Round(r, raws[k], limit), raws, limit, k)
<1> DEFINE p == Place(raws, k - 1)
           after == Round(r, raws[k], limit)
<1>1. /\ k \in Nat /\ k > 0 /\ k - 1 \in Nat /\ limit \in Nat /\ limit > 0 /\ p \in Nat
  <2>1. k \in Nat /\ k > 0 /\ k - 1 \in Nat
    OBVIOUS
  <2> QED
    BY <2>1, PlaceSteps
<1>2. \A i \in Titled(raws, k - 1) : Place(raws, i) \in Nat /\ Place(raws, i) <= p
  <2>1. Titled(raws, k - 1) \subseteq 1..k-1
    BY DEF Titled
  <2> QED
    BY <1>1, <2>1, PlaceGrows
<1>3. /\ Dropped(raws[k]) =>
           Titled(raws, k) = Titled(raws, k - 1) /\ Place(raws, k) = p
      /\ ~Dropped(raws[k]) =>
           Titled(raws, k) = Titled(raws, k - 1) \cup {k} /\ Place(raws, k) = p + 1
  BY <1>1, PlaceSteps
<1>4. \A i \in Titled(raws, k - 1) : i # k
  <2>1. k \notin 1..k-1
    BY <1>1
  <2> QED
    BY <2>1, TitledAreNotDropped
<1>5. /\ r.failed \in BOOLEAN /\ r.items \in Seq({Item(raws[i]) : i \in 1..n})
      /\ Len(r.items) \in Nat
  <2>1. r.failed \in BOOLEAN /\ r.items \in Seq({Item(raws[i]) : i \in 1..n})
    BY DEF Results
  <2> QED
    BY <2>1
<1> HIDE DEF p
<1>6. CASE Dropped(raws[k])
  <2>1. after = r
    BY <1>6 DEF Round
  <2> QED
    BY <1>3, <1>6, <2>1 DEF LoopInv, p
<1>7. CASE ~Dropped(raws[k]) /\ r.failed
  <2>1. after = r
    BY <1>7 DEF Round
  <2>2. \E i \in Titled(raws, k) : Place(raws, i) <= limit /\ Overflows(raws[i])
    BY <1>3, <1>7 DEF LoopInv
  <2> QED
    BY <1>7, <2>1, <2>2 DEF LoopInv
<1>8. CASE ~Dropped(raws[k]) /\ ~r.failed /\ p >= limit
  <2>1. Len(r.items) = limit
    BY <1>1, <1>8 DEF LoopInv, p
  <2>2. after = r
    BY <1>1, <2>1 DEF Round
  <2>3. ~(Place(raws, k) <= limit)
    BY <1>1, <1>3, <1>8
  <2> QED
    BY <1>3, <1>8, <2>1, <2>2, <2>3 DEF LoopInv
<1>9. CASE ~Dropped(raws[k]) /\ ~r.failed /\ p < limit
  <2>1. Len(r.items) = p /\ Place(raws, k) = p + 1 /\ p + 1 <= limit
    BY <1>1, <1>3, <1>9 DEF LoopInv, p
  <2>2. after = IF Overflows(raws[k]) THEN [r EXCEPT !.failed = TRUE]
                ELSE [r EXCEPT !.items = Append(r.items, Item(raws[k]))]
    BY <1>1, <1>5, <1>9, <2>1 DEF Round
  <2>3. k \in Titled(raws, k)
    BY <1>3, <1>9
  <2>4. CASE Overflows(raws[k])
    <3>1. after.failed
      BY <2>2, <2>4 DEF Results
    <3> QED
      BY <2>1, <2>3, <2>4, <3>1 DEF LoopInv
  <2>5. CASE ~Overflows(raws[k])
    <3>1. ~after.failed /\ after.items = Append(r.items, Item(raws[k]))
      BY <1>9, <2>2, <2>5 DEF Results
    <3>2. /\ Len(after.items) = p + 1 /\ after.items[p + 1] = Item(raws[k])
          /\ \A j \in 1..p : after.items[j] = r.items[j]
      BY <1>5, <2>1, <3>1
    <3>3. \A i \in Titled(raws, k - 1) : Place(raws, i) \in 1..p
      <4>1. ASSUME NEW i \in Titled(raws, k - 1) PROVE Place(raws, i) >= 1
        <5>1. i \in Nat /\ i > 0 /\ i - 1 \in Nat /\ ~Dropped(raws[i])
          <6>1. i \in 1..k-1 /\ ~Dropped(raws[i])
            BY TitledAreNotDropped
          <6> QED
            BY <1>1, <6>1
        <5> QED
          BY <5>1, PlaceSteps
      <4> QED
        BY <1>1, <1>2, <4>1
    <3>4. ~ \E i \in Titled(raws, k) : Place(raws, i) <= limit /\ Overflows(raws[i])
      BY <1>3, <1>9, <2>5 DEF LoopInv
    <3>5. \A i \in Titled(raws, k) : after.items[Place(raws, i)] = Item(raws[i])
      <4>1. \A i \in Titled(raws, k - 1) : r.items[Place(raws, i)] = Item(raws[i])
        BY <1>1, <1>2, <1>9 DEF LoopInv
      <4> QED
        BY <1>3, <1>9, <2>1, <3>2, <3>3, <4>1
    <3>6. Len(after.items) = IF Place(raws, k) <= limit THEN Place(raws, k) ELSE limit
      BY <2>1, <3>2
    <3> HIDE DEF after
    <3>7. LoopInv(after, raws, limit, k)
      BY <3>1, <3>4, <3>5, <3>6, Zenon DEF LoopInv
    <3> QED
      BY <3>7 DEF after
  <2> QED
    BY <2>4, <2>5
<1> QED
  BY <1>1, <1>6, <1>7, <1>8, <1>9

\* So every sequence of items is normalized as the rules say.
LEMMA NormalizedAsRules ==
  ASSUME NEW raws \in Raws
  PROVE  LoopInv(NormalizeItems(raws, Limit), raws, Limit, Len(raws))
<1> DEFINE n == Len(raws)
<1>1. n \in Nat /\ DOMAIN raws = 1..n
  BY RawsAreTyped
<1>2. Limit \in Nat \ {0}
  BY LimitAssumption
<1> HIDE DEF n
<1>3. PICK v \in [0..n -> Results(raws, n)] :
         /\ v[0] = [failed |-> FALSE, items |-> <<>>]
         /\ \A k \in 1..n : v[k] = Round(v[k-1], raws[k], Limit)
         /\ v[n] = NormalizeItems(raws, Limit)
  BY <1>1, LoopOfNormalizeItems
<1> DEFINE P == {k \in 0..n : LoopInv(v[k], raws, Limit, k)}
<1>4. 0 \in P
  <2>1. Titled(raws, 0) = {} /\ Place(raws, 0) = 0
    <3>1. 1..0 = {} /\ 0 \in Nat
      OBVIOUS
    <3> QED
      BY <3>1, PlaceSteps, TitledAreNotDropped
  <2>2. ~v[0].failed /\ Len(v[0].items) = 0
    BY <1>3
  <2>3. 0 \in 0..n
    BY <1>1
  <2> QED
    BY <1>2, <2>1, <2>2, <2>3 DEF LoopInv
<1>5. ASSUME NEW k \in 1..n, k - 1 \in P PROVE k \in P
  <2>1. v[k-1] \in Results(raws, n) /\ LoopInv(v[k-1], raws, Limit, k - 1)
    BY <1>3, <1>5
  <2>2. LoopInv(Round(v[k-1], raws[k], Limit), raws, Limit, k)
    BY <1>1, <1>2, <2>1, RoundKeepsLoopInv
  <2>3. v[k] = Round(v[k-1], raws[k], Limit)
    BY <1>3
  <2> QED
    BY <2>2, <2>3
<1> HIDE DEF P
<1>6. 0..n \subseteq P
  BY <1>1, <1>4, <1>5, Induction
<1>7. LoopInv(v[n], raws, Limit, n)
  BY <1>1, <1>6 DEF P
<1> QED
  BY <1>3, <1>7 DEF n

\* The answer is that of the function that was called.
NormalizeInv ==
  /\ input[1] = "normalize" => input[2] \in Raws
  /\ Replied("normalize") => output[2] = NormalizeItems(input[2], Limit)

\* It is an invariant.
LEMMA NormalizeInvHolds == RulesSpec => []NormalizeInv
<1>1. RulesInit => NormalizeInv
  BY DEF RulesInit, NormalizeInv, Replied, NoAnswer
<1>2. NormalizeInv /\ [RulesNext]_rulesVars => NormalizeInv'
  <2> SUFFICES ASSUME NormalizeInv, [RulesNext]_rulesVars PROVE NormalizeInv'
    OBVIOUS
  <2>1. CASE Normalized
    BY <2>1 DEF Normalized, Asked, Answer, NormalizeInv, Replied
  <2>2. CASE BuildContext \/ Authorize \/ ReadReply
    BY <2>2 DEF BuildContext, Authorize, ReadReply, Asked, Answer, NormalizeInv, Replied
  <2>3. CASE UNCHANGED rulesVars
    BY <2>3 DEF rulesVars, NormalizeInv, Replied
  <2> QED
    BY <2>1, <2>2, <2>3 DEF RulesNext
<1> QED
  BY <1>1, <1>2, PTL DEF RulesSpec

\* What becomes of the items of a model, for every sequence of them and every
\* limit: the first Limit that have a title, in their order, each as the rules
\* say, unless one of them overflows.
THEOREM ItemsFollowRules == RulesSpec => []NormalizedFollowsRules
<1>1. NormalizeInv => NormalizedFollowsRules
  <2> SUFFICES ASSUME NormalizeInv, Replied("normalize") PROVE NormalizedFollowsRules
    BY DEF NormalizedFollowsRules
  <2> DEFINE raws == input[2]
             n == Len(raws)
             head == {i \in DOMAIN raws : (raws[i].object /\ raws[i].title # "")
                                          /\ Place(raws, i) <= Limit}
  <2>1. raws \in Raws /\ output[2] = NormalizeItems(raws, Limit)
    BY DEF NormalizeInv, Replied
  <2>2. raws \in Seq(RawItem) /\ n \in Nat /\ DOMAIN raws = 1..n
    BY <2>1, RawsAreTyped
  <2>3. LoopInv(output[2], raws, Limit, n)
    BY <2>1, NormalizedAsRules
  <2>4. head = {i \in Titled(raws, n) : Place(raws, i) <= Limit}
    BY <2>2 DEF Titled
  <2>5. Min({Limit, Place(raws, n)}) = IF Place(raws, n) <= Limit THEN Place(raws, n) ELSE Limit
    <3>1. Place(raws, n) \in Nat /\ Limit \in Nat
      BY <2>2, PlaceSteps, LimitAssumption
    <3> HIDE DEF n, raws
    <3> QED
      BY <3>1 DEF Min
  <2>6. \A i \in head : IsRuleOf(raws[i], Item(raws[i]))
    <3>1. ASSUME NEW i \in head PROVE raws[i] \in RawItem /\ raws[i].object
      <4>1. i \in 1..n /\ raws[i].object
        BY <2>2
      <4>2. raws[i] \in RawItem
        <5> HIDE DEF raws, head
        <5> QED
          BY <2>2, <4>1
      <4> QED
        BY <4>1, <4>2, Zenon
    <3> QED
      BY <3>1, ItemFollowsRules
  <2> HIDE DEF raws, n
  <2>7. output[2].failed <=> \E i \in head : Overflows(raws[i])
    BY <2>3, <2>4 DEF LoopInv
  <2>8. ~output[2].failed => Len(output[2].items) = Min({Limit, Place(raws, n)})
    BY <2>3, <2>5 DEF LoopInv
  <2>9. ~output[2].failed => \A i \in head : IsRuleOf(raws[i], output[2].items[Place(raws, i)])
    BY <2>3, <2>4, <2>6 DEF LoopInv
  <2> QED
    BY <2>7, <2>8, <2>9 DEF NormalizedFollowsRules, Place, Titled, raws, n
<1> QED
  BY <1>1, NormalizeInvHolds, PTL

-----------------------------------------------------------------------------
(* What a reply holds.                                                     *)

\* What the loop over the calls may have found.
Found == [outcome : {"items", "rejected", "raised"}, items : Seq(Nat)]
Call == [name : STRING, args : Arguments]

\* One call.
LEMMA ReadCallAsIs ==
  ASSUME NEW call \in Call
  PROVE  /\ ReadCall(call) \in Found
         /\ ReadCall(call).outcome = "items" <=> IsRead(call)
         /\ IsRead(call) => ReadCall(call).items = call.args.items
         /\ ReadCall(call).outcome = "raised"
              <=> call.name = ToolName /\ call.args.kind = "not a string"
<1>1. call.args.items \in Seq(Nat)
  BY DEF Call, Arguments
<1>2. <<>> \in Seq(Nat)
  OBVIOUS
<1>3. CASE call.name # ToolName
  <2>1. ReadCall(call) = [outcome |-> "rejected", items |-> <<>>]
    BY <1>3 DEF ReadCall, Error
  <2>2. ReadCall(call) \in Found /\ ReadCall(call).outcome = "rejected"
    BY <1>2, <2>1 DEF Found
  <2> QED
    BY <1>3, <2>2 DEF IsRead
<1>4. CASE call.name = ToolName /\ call.args.kind = "not a string"
  <2>1. ReadCall(call) = [outcome |-> "raised", items |-> <<>>]
    BY <1>4 DEF ReadCall, Error
  <2>2. ReadCall(call) \in Found /\ ReadCall(call).outcome = "raised"
    BY <1>2, <2>1 DEF Found
  <2> QED
    BY <1>4, <2>2 DEF IsRead
<1>5. CASE call.name = ToolName /\ call.args.kind = "items"
  <2>1. ReadCall(call) = [outcome |-> "items", items |-> call.args.items]
    BY <1>5 DEF ReadCall, Items
  <2> QED
    BY <1>1, <1>5, <2>1 DEF IsRead, Found
<1>6. CASE call.name = ToolName /\ call.args.kind \notin {"items", "not a string"}
  <2>1. ReadCall(call) = [outcome |-> "rejected", items |-> <<>>]
    BY <1>6 DEF ReadCall, Error
  <2>2. ReadCall(call) \in Found /\ ReadCall(call).outcome = "rejected"
    BY <1>2, <2>1 DEF Found
  <2> QED
    BY <1>6, <2>2 DEF IsRead
<1> QED
  BY <1>3, <1>4, <1>5, <1>6

\* One more call.
LEMMA MergeAsIs ==
  ASSUME NEW r \in Found, NEW call \in Call
  PROVE  /\ Merge(r, call) \in Found
         /\ r.outcome # "items" => Merge(r, call) = r
         /\ r.outcome = "items" /\ IsRead(call) =>
               Merge(r, call) = Items(r.items \o call.args.items)
         /\ r.outcome = "items" /\ ~IsRead(call) => Merge(r, call) = ReadCall(call)
<1>1. r.items \in Seq(Nat) /\ call.args.items \in Seq(Nat)
  BY DEF Found, Call, Arguments
<1>2. r.outcome = "items" /\ IsRead(call) =>
        Merge(r, call) = Items(r.items \o call.args.items)
  BY ReadCallAsIs DEF Merge
<1>3. Items(r.items \o call.args.items) \in Found
  <2>1. r.items \o call.args.items \in Seq(Nat)
    BY <1>1
  <2> QED
    BY <2>1 DEF Items, Found
<1>4. r.outcome = "items" /\ ~IsRead(call) => Merge(r, call) = ReadCall(call)
  BY ReadCallAsIs DEF Merge
<1>5. r.outcome # "items" => Merge(r, call) = r
  BY DEF Merge
<1>6. ReadCall(call) \in Found
  BY ReadCallAsIs
<1> QED
  BY <1>2, <1>3, <1>4, <1>5, <1>6

\* The fold over the calls is a loop: v[k] is what is found in k of them.
LEMMA LoopOfParseToolCall ==
  ASSUME NEW n \in Nat, NEW calls \in Seq(Call), n = Len(calls)
  PROVE  \E v \in [0..n -> Found] :
            /\ v[0] = Items(<<>>)
            /\ \A k \in 1..n : v[k] = Merge(v[k-1], calls[k])
            /\ v[n] = FoldLeft(Merge, Items(<<>>), calls)
<1> DEFINE base == Items(<<>>)
           h == [p \in Found \X (1..n) |-> Merge(p[1], calls[p[2]])]
           Body(f) == [s \in SUBSET (1..n) |->
                         IF s = {} THEN base
                         ELSE Merge(f[s \ {Max(s)}], calls[Max(s)])]
           iter == CHOOSE f : f = Body(f)
<1>0. DOMAIN calls = 1..n /\ \A k \in 1..n : calls[k] \in Call
  OBVIOUS
<1>1. base \in Found
  BY DEF Items, Found
<1>2. h \in [Found \X (1..n) -> Found]
  BY <1>0, MergeAsIs
<1>3. PICK g \in [SUBSET (1..n) -> Found] : Follows(g, n, base, h)
  <2> HIDE DEF base, h
  <2> QED
    BY <1>1, <1>2, FoldExists
<1>4. g = Body(g)
  <2>1. ASSUME NEW s \in SUBSET (1..n), s # {}
        PROVE  g[s] = Merge(g[s \ {Max(s)}], calls[Max(s)])
    <3>1. Max(s) \in 1..n
      BY <2>1, MaxIsIn
    <3>2. g[s \ {Max(s)}] \in Found
      OBVIOUS
    <3>3. g[s] = h[<<g[s \ {Max(s)}], Max(s)>>]
      BY <1>3, <2>1 DEF Follows
    <3> QED
      BY <3>1, <3>2, <3>3
  <2>2. g[{}] = base
    BY <1>3 DEF Follows
  <2> HIDE DEF base, h
  <2> QED
    BY <2>1, <2>2
<1>5. iter = Body(iter)
  <2> HIDE DEF Body
  <2> QED
    BY <1>4
<1>6. FoldLeft(Merge, base, calls) = iter[1..n]
  BY <1>0, Zenon DEF FoldLeft, MapThenFoldSet
<1>7. iter[{}] = base
  <2> HIDE DEF iter, base
  <2> QED
    BY <1>5
<1>8. ASSUME NEW s \in SUBSET (1..n), s # {}, iter[s \ {Max(s)}] \in Found
      PROVE  iter[s] = h[<<iter[s \ {Max(s)}], Max(s)>>]
  <2>1. iter[s] = Merge(iter[s \ {Max(s)}], calls[Max(s)])
    <3> HIDE DEF iter
    <3> QED
      BY <1>5, <1>8
  <2>2. Max(s) \in 1..n
    BY <1>8, MaxIsIn
  <2> HIDE DEF iter
  <2> QED
    BY <1>8, <2>1, <2>2
<1> HIDE DEF iter, base
<1>9. LoopEnds(Found, n, base, h, iter[1..n])
  <2>1. FollowsIn(Found, iter, n, base, h)
    <3> HIDE DEF h
    <3> QED
      BY <1>7, <1>8 DEF FollowsIn
  <2> HIDE DEF h
  <2> QED
    BY <1>1, <1>2, <2>1, FoldIsLoop, Zenon
<1>10. PICK v : IsLoop(v, Found, n, base, h) /\ v[n] = iter[1..n]
  BY <1>9 DEF LoopEnds
<1>11. ASSUME NEW k \in 1..n PROVE v[k] = Merge(v[k-1], calls[k])
  <2>1. v[k-1] \in Found /\ v[k] = h[<<v[k-1], k>>]
    <3> HIDE DEF h
    <3>1. k - 1 \in 0..n
      OBVIOUS
    <3>2. v \in [0..n -> Found] /\ v[k] = h[<<v[k-1], k>>]
      BY <1>10 DEF IsLoop
    <3> QED
      BY <3>1, <3>2
  <2> QED
    BY <2>1
<1> HIDE DEF h
<1>12. v \in [0..n -> Found] /\ v[0] = base
  BY <1>10 DEF IsLoop
<1> QED
  BY <1>6, <1>10, <1>11, <1>12 DEF base

\* Items that have been read.
LEMMA ItemsAsIs ==
  ASSUME NEW x
  PROVE  Items(x).outcome = "items" /\ Items(x).items = x
BY DEF Items

\* After k calls: all have been read, or the first that cannot be has decided.
CallsInv(r, calls, k) ==
  \/ r.outcome = "items" /\ \A i \in 1..k : IsRead(calls[i])
  \/ \E j \in 1..k : /\ ~IsRead(calls[j]) /\ \A i \in 1..j-1 : IsRead(calls[i])
                     /\ r = ReadCall(calls[j])

\* All items of all calls, or what the first call that cannot be read gives.
LEMMA ParseToolCallAsIs ==
  ASSUME NEW calls \in Seq(Call), calls # <<>>
  PROVE  LET r == ParseToolCall(calls)
             unread == {i \in DOMAIN calls : ~IsRead(calls[i])}
         IN  /\ r.outcome = "items" <=> unread = {}
             /\ unread = {} => r.items = FlattenSeq([i \in DOMAIN calls |-> calls[i].args.items])
             /\ unread # {} => r = ReadCall(calls[Min(unread)])
<1> DEFINE n == Len(calls)
           r == ParseToolCall(calls)
           unread == {i \in DOMAIN calls : ~IsRead(calls[i])}
           parts == [i \in DOMAIN calls |-> calls[i].args.items]
<1>1. n \in Nat \ {0} /\ DOMAIN calls = 1..n /\ \A k \in 1..n : calls[k] \in Call
  OBVIOUS
<1>2. PICK v \in [0..n -> Found] :
         /\ v[0] = Items(<<>>)
         /\ \A k \in 1..n : v[k] = Merge(v[k-1], calls[k])
         /\ v[n] = FoldLeft(Merge, Items(<<>>), calls)
  BY <1>1, LoopOfParseToolCall
<1>3. r = v[n]
  BY <1>2 DEF ParseToolCall
<1> HIDE DEF n, r
<1>4. ASSUME NEW k \in 1..n PROVE /\ k - 1 \in 0..n /\ v[k-1] \in Found
                                  /\ calls[k] \in Call /\ v[k] = Merge(v[k-1], calls[k])
  <2>1. k - 1 \in 0..n
    BY <1>1
  <2> QED
    BY <1>1, <1>2, <2>1
<1> DEFINE P == {k \in 0..n : CallsInv(v[k], calls, k)}
<1>5. 0 \in P
  <2>1. 0 \in 0..n /\ 1..0 = {}
    BY <1>1
  <2> QED
    BY <1>2, <2>1 DEF CallsInv, Items
<1>6. ASSUME NEW k \in 1..n, k - 1 \in P PROVE k \in P
  <2>1. CallsInv(v[k-1], calls, k - 1)
    BY <1>6
  <2>2. k \in 0..n /\ k \in 1..k /\ 1..k-1 \subseteq 1..k /\ \A i \in 1..k : i = k \/ i \in 1..k-1
    BY <1>1
  <2>3. CASE v[k-1].outcome = "items" /\ \A i \in 1..k-1 : IsRead(calls[i])
    <3>1. CASE IsRead(calls[k])
      <4>1. v[k].outcome = "items"
        <5>1. v[k] = Items(v[k-1].items \o calls[k].args.items)
          BY <1>4, <2>3, <3>1, MergeAsIs
        <5> QED
          BY <5>1, ItemsAsIs
      <4> QED
        BY <2>2, <2>3, <3>1, <4>1 DEF CallsInv
    <3>2. CASE ~IsRead(calls[k])
      <4>1. v[k] = ReadCall(calls[k])
        BY <1>4, <2>3, <3>2, MergeAsIs
      <4> QED
        BY <2>2, <2>3, <3>2, <4>1 DEF CallsInv
    <3> QED
      BY <3>1, <3>2
  <2>4. ASSUME NEW j \in 1..k-1, ~IsRead(calls[j]), \A i \in 1..j-1 : IsRead(calls[i]),
               v[k-1] = ReadCall(calls[j])
        PROVE  k \in P
    <3>1. calls[j] \in Call /\ j \in 1..k
      BY <1>1, <2>2
    <3>2. v[k-1].outcome # "items"
      BY <2>4, <3>1, ReadCallAsIs
    <3>3. v[k] = v[k-1]
      BY <1>4, <3>2, MergeAsIs
    <3> QED
      BY <2>2, <2>4, <3>1, <3>3 DEF CallsInv
  <2> QED
    BY <2>1, <2>3, <2>4 DEF CallsInv
<1> HIDE DEF P
<1>7. \A k \in 0..n : CallsInv(v[k], calls, k)
  <2>1. 0..n \subseteq P
    BY <1>1, <1>5, <1>6, Induction
  <2> QED
    BY <2>1 DEF P
<1>8. CallsInv(r, calls, n)
  <2>1. n \in 0..n
    BY <1>1
  <2> QED
    BY <1>3, <1>7, <2>1
<1>9. ASSUME NEW j \in 1..n, ~IsRead(calls[j]), \A i \in 1..j-1 : IsRead(calls[i]),
             r = ReadCall(calls[j])
      PROVE  unread # {} /\ r.outcome # "items" /\ r = ReadCall(calls[Min(unread)])
  <2>1. j \in unread
    BY <1>1, <1>9
  <2>2. \A i \in unread : j <= i
    BY <1>1, <1>9
  <2>3. unread \subseteq Nat
    BY <1>1
  <2>4. Min(unread) = j
    <3> HIDE DEF unread
    <3>1. \A x \in unread : (\A y \in unread : x <= y) => x = j
      <4> SUFFICES ASSUME NEW x \in unread, \A y \in unread : x <= y PROVE x = j
        OBVIOUS
      <4>1. x <= j /\ j <= x /\ x \in Nat /\ j \in Nat
        BY <2>1, <2>2, <2>3
      <4> QED
        BY <4>1
    <3> QED
      BY <2>1, <2>2, <3>1, Zenon DEF Min
  <2>5. r.outcome # "items"
    BY <1>1, <1>9, ReadCallAsIs
  <2> QED
    BY <1>9, <2>1, <2>4, <2>5
<1>10. ASSUME \A i \in 1..n : IsRead(calls[i]) PROVE r.items = FlattenSeq(parts)
  <2> DEFINE w == [k \in 0..n |-> v[k].items]
  <2>1. \A k \in 0..n : v[k] \in Found /\ v[k].outcome = "items"
    <3> TAKE k \in 0..n
    <3>1. 1..k \subseteq 1..n
      BY <1>1
    <3> QED
      BY <1>2, <1>7, <1>10, <3>1 DEF CallsInv
  <2>2. w \in [0..n -> Seq(Nat)]
    BY <2>1 DEF Found
  <2>3. w[0] = <<>>
    BY <1>1, <1>2 DEF Items
  <2>4. parts \in [1..n -> Seq(Nat)]
    BY <1>1 DEF Call, Arguments
  <2>5. ASSUME NEW k \in 1..n PROVE w[k] = w[k-1] \o parts[k]
    <3>1. k \in 0..n /\ k - 1 \in 0..n
      BY <1>1
    <3>2. v[k] = Items(v[k-1].items \o calls[k].args.items)
      BY <1>4, <1>10, <2>1, <3>1, MergeAsIs
    <3>3. v[k].items = v[k-1].items \o calls[k].args.items
      BY <3>2, ItemsAsIs
    <3> QED
      BY <1>1, <3>1, <3>3
  <2>6. w[n] = r.items
    BY <1>1, <1>3
  <2>7. Joins(w, Nat, n, parts)
    <3> HIDE DEF w, parts
    <3> QED
      BY <2>2, <2>3, <2>5 DEF Joins
  <2> HIDE DEF w, parts
  <2> QED
    BY <1>1, <2>4, <2>6, <2>7, FlattenIsLoop
<1>11. CASE r.outcome = "items" /\ \A i \in 1..n : IsRead(calls[i])
  <2>1. unread = {}
    BY <1>1, <1>11
  <2> QED
    BY <1>10, <1>11, <2>1 DEF r
<1>12. CASE \E j \in 1..n : /\ ~IsRead(calls[j]) /\ \A i \in 1..j-1 : IsRead(calls[i])
                            /\ r = ReadCall(calls[j])
  <2>1. unread # {} /\ r.outcome # "items" /\ r = ReadCall(calls[Min(unread)])
    BY <1>9, <1>12
  <2> QED
    BY <2>1 DEF r
<1> QED
  BY <1>8, <1>11, <1>12 DEF CallsInv

\* A reply is taken for whole, or for what its status says.
IsWhole(body) ==
  IF body.api = "responses" THEN body.status = "completed"
  ELSE body.finish \in {"stop", "tool_calls"}

ReplyError(body) == IF body.api = "responses" THEN StatusError(body) ELSE FinishError(body)

\* Every status is that of a whole reply or an error.
LEMMA ErrorUnlessWhole ==
  ASSUME NEW x \in Bodies
  PROVE  IF IsWhole(x.body) THEN ReplyError(x.body) = "none"
         ELSE ReplyError(x.body) \in {"transient", "truncated", "failed"}
<1> DEFINE body == x.body
<1>1. \/ body.api = "responses" /\ body.status \in {"completed", "failed", "incomplete"}
      \/ /\ body.api = "chat"
         /\ body.finish \in {"stop", "tool_calls", "length", "content_filter",
                             "insufficient_system_resource"}
  BY BodiesAreTyped DEF IsReply
<1> HIDE DEF body
<1>2. CASE body.api = "responses" /\ body.status \in {"completed", "failed", "incomplete"}
  <2>1. ReplyError(body) = StatusError(body) /\ (IsWhole(body) <=> body.status = "completed")
    BY <1>2 DEF ReplyError, IsWhole
  <2>2. CASE body.status = "completed"
    BY <2>1, <2>2 DEF StatusError, body
  <2>3. CASE body.status = "failed"
    BY <2>1, <2>3 DEF StatusError, body
  <2>4. CASE body.status = "incomplete" /\ body.reason = "max_output_tokens"
    BY <2>1, <2>4 DEF StatusError, body
  <2>5. CASE body.status = "incomplete" /\ body.reason # "max_output_tokens"
    BY <2>1, <2>5 DEF StatusError, body
  <2> QED
    BY <1>2, <2>2, <2>3, <2>4, <2>5
<1>3. CASE /\ body.api = "chat"
           /\ body.finish \in {"stop", "tool_calls", "length", "content_filter",
                               "insufficient_system_resource"}
  <2>1. /\ ReplyError(body) = FinishError(body)
        /\ IsWhole(body) <=> body.finish \in {"stop", "tool_calls"}
    BY <1>3 DEF ReplyError, IsWhole
  <2>2. CASE body.finish \in {"stop", "tool_calls"}
    BY <2>1, <2>2 DEF FinishError, body
  <2>3. CASE body.finish = "length"
    BY <2>1, <2>3 DEF FinishError, body
  <2>4. CASE body.finish = "content_filter"
    BY <2>1, <2>4 DEF FinishError, body
  <2>5. CASE body.finish = "insufficient_system_resource"
    BY <2>1, <2>5 DEF FinishError, body
  <2> QED
    BY <1>3, <2>2, <2>3, <2>4, <2>5
<1> QED
  BY <1>1, <1>2, <1>3

\* The JSON of a text, with or without something around it.
LEMMA ParseJsonAsIs ==
  ASSUME NEW text \in Text
  PROVE  LET r == ParseJson(text) IN
         /\ r.outcome \in {"items", "rejected"}
         /\ r.outcome = "items" => text.json.kind = "items" /\ r.items = text.json.items
         /\ text.json.kind = "items" /\ text.wrapping \in {"bare", "fence", "words"} =>
               r.outcome = "items"
<1>1. CASE text.wrapping \in {"fence on one line", "several objects"}
  <2>1. LoadsLenient(text).kind = "malformed"
    BY <1>1 DEF LoadsLenient
  <2>2. ParseJson(text).outcome = "rejected"
    BY <2>1 DEF ParseJson, Error
  <2>3. text.wrapping \notin {"bare", "fence", "words"}
    BY <1>1
  <2> QED
    BY <2>2, <2>3
<1>2. CASE text.wrapping \notin {"fence on one line", "several objects"}
  <2>1. LoadsLenient(text) = text.json
    BY <1>2 DEF LoadsLenient
  <2>2. CASE text.json.kind = "items"
    <3>1. ParseJson(text) = Items(text.json.items)
      BY <2>1, <2>2 DEF ParseJson
    <3> QED
      BY <2>2, <3>1, ItemsAsIs
  <2>3. CASE text.json.kind # "items"
    <3>1. ParseJson(text).outcome = "rejected"
      BY <2>1, <2>3 DEF ParseJson, Error
    <3> QED
      BY <2>3, <3>1
  <2> QED
    BY <2>2, <2>3
<1> QED
  BY <1>1, <1>2

\* The answer is that of the function that was called.
ReplyInv ==
  /\ input[1] = "reply" => input[2] \in Bodies
  /\ Replied("reply") => output[2] = ParseResponse(input[2].tier, input[2].body)

\* It is an invariant.
LEMMA ReplyInvHolds == RulesSpec => []ReplyInv
<1>1. RulesInit => ReplyInv
  BY DEF RulesInit, ReplyInv, Replied, NoAnswer
<1>2. ReplyInv /\ [RulesNext]_rulesVars => ReplyInv'
  <2> SUFFICES ASSUME ReplyInv, [RulesNext]_rulesVars PROVE ReplyInv'
    OBVIOUS
  <2>1. CASE ReadReply
    BY <2>1 DEF ReadReply, Asked, Answer, ReplyInv, Replied
  <2>2. CASE BuildContext \/ Authorize \/ Normalized
    BY <2>2 DEF BuildContext, Authorize, Normalized, Asked, Answer, ReplyInv, Replied
  <2>3. CASE UNCHANGED rulesVars
    BY <2>3 DEF rulesVars, ReplyInv, Replied
  <2> QED
    BY <2>1, <2>2, <2>3 DEF RulesNext
<1> QED
  BY <1>1, <1>2, PTL DEF RulesSpec

\* What is read from a reply, for every reply of either transport and any
\* number of calls: all items of all calls in their order, or the error of the
\* first call that cannot be read, and nothing from what was cut off.
THEOREM RepliesAreReadWhole == RulesSpec => []RepliesAreRead
<1>1. ReplyInv => RepliesAreRead
  <2> SUFFICES ASSUME ReplyInv, Replied("reply") PROVE RepliesAreRead
    BY DEF RepliesAreRead
  <2> DEFINE x == input[2]
             body == x.body
             calls == body.calls
             unread == {i \in DOMAIN calls : ~IsRead(calls[i])}
             result == output[2]
  <2>1. x \in Bodies /\ result = ParseResponse(x.tier, body)
    BY DEF ReplyInv, Replied
  <2>2. calls \in Seq(Call) /\ body.text \in Text /\ x.tier \in {"tool_call", "json"}
    BY <2>1, BodiesAreTyped DEF IsReply, Call
  <2>3. IF IsWhole(body) THEN ReplyError(body) = "none"
        ELSE ReplyError(body) \in {"transient", "truncated", "failed"}
    BY <2>1, ErrorUnlessWhole
  <2> HIDE DEF x
  <2>4. CASE ~IsWhole(body)
    <3>1. result = Error(ReplyError(body))
      BY <2>1, <2>3, <2>4 DEF ParseResponse, ReplyError
    <3>2. result.outcome \in {"transient", "truncated", "failed"}
      BY <2>3, <2>4, <3>1 DEF Error
    <3> QED
      BY <2>4, <3>2 DEF RepliesAreRead, IsWhole, x
  <2>5. CASE IsWhole(body) /\ x.tier # "tool_call"
    <3>1. result = ParseJson(body.text)
      BY <2>1, <2>3, <2>5 DEF ParseResponse, ReplyError
    <3> HIDE DEF result
    <3>2. /\ result.outcome \in {"items", "rejected"}
          /\ result.outcome = "items" =>
                body.text.json.kind = "items" /\ result.items = body.text.json.items
          /\ body.text.json.kind = "items" /\ body.text.wrapping \in {"bare", "fence", "words"} =>
                result.outcome = "items"
      BY <2>2, <3>1, ParseJsonAsIs
    <3> QED
      BY <2>5, <3>2 DEF RepliesAreRead, IsWhole, x, result
  <2>6. CASE IsWhole(body) /\ x.tier = "tool_call"
    <3>1. result = ParseToolCall(calls)
      BY <2>1, <2>3, <2>6 DEF ParseResponse, ReplyError
    <3>2. /\ result.outcome = "items" <=> calls # <<>> /\ unread = {}
          /\ result.outcome = "items" =>
                result.items = FlattenSeq([i \in DOMAIN calls |-> calls[i].args.items])
          /\ result.outcome = "raised" <=>
                /\ unread # {}
                /\ LET first == calls[Min(unread)] IN
                   first.name = ToolName /\ first.args.kind = "not a string"
          /\ result.outcome \notin {"transient", "truncated", "failed"}
      <4>1. CASE calls = <<>>
        <5>1. result.outcome = "rejected" /\ unread = {}
          BY <3>1, <4>1 DEF ParseToolCall, Error
        <5> HIDE DEF result, unread
        <5> QED
          BY <4>1, <5>1
      <4>2. CASE calls # <<>>
        <5>1. /\ result.outcome = "items" <=> unread = {}
              /\ unread = {} =>
                    result.items = FlattenSeq([i \in DOMAIN calls |-> calls[i].args.items])
              /\ unread # {} => result = ReadCall(calls[Min(unread)])
          <6> HIDE DEF calls, result
          <6> QED
            BY <2>2, <3>1, <4>2, ParseToolCallAsIs
        <5>2. ASSUME unread # {} PROVE calls[Min(unread)] \in Call
          <6>1. unread \subseteq 1..Len(calls) /\ Len(calls) \in Nat
            BY <2>2
          <6>2. PICK m \in unread : \A k \in unread : m <= k
            <7> HIDE DEF unread
            <7>1. unread \subseteq Nat
              BY <6>1
            <7> QED
              BY <5>2, <7>1, LeastNumber
          <6>3. Min(unread) \in unread
            <7> HIDE DEF unread
            <7> QED
              BY <6>2 DEF Min
          <6>4. Min(unread) \in DOMAIN calls
            BY <6>3
          <6> HIDE DEF calls, unread
          <6> QED
            BY <2>2, <6>4
        <5> HIDE DEF result, unread, calls
        <5>3. CASE unread = {}
          <6>1. result.outcome = "items"
            BY <5>1, <5>3
          <6> QED
            BY <4>2, <5>1, <5>3, <6>1
        <5>4. CASE unread # {}
          <6> DEFINE first == calls[Min(unread)]
          <6>1. first \in Call /\ result = ReadCall(first)
            BY <5>1, <5>2, <5>4
          <6> HIDE DEF first
          <6>2. /\ ReadCall(first).outcome \in {"items", "rejected", "raised"}
                /\ ReadCall(first).outcome = "raised"
                      <=> first.name = ToolName /\ first.args.kind = "not a string"
            BY <6>1, ReadCallAsIs DEF Found
          <6>3. result.outcome # "items"
            BY <5>1, <5>4
          <6>4. result.outcome \notin {"transient", "truncated", "failed"}
            BY <6>1, <6>2
          <6> QED
            BY <5>4, <6>1, <6>2, <6>3, <6>4 DEF first
        <5> QED
          BY <5>3, <5>4
      <4> QED
        BY <4>1, <4>2
    <3> QED
      BY <2>6, <3>2 DEF RepliesAreRead, IsWhole, x
  <2> QED
    BY <2>2, <2>4, <2>5, <2>6
<1> QED
  BY <1>1, ReplyInvHolds, PTL
-----------------------------------------------------------------------------
(* Sequences.                                                              *)

\* A sequence is a function on an interval.
LEMMA SeqIsFunction ==
  ASSUME NEW T, NEW s \in Seq(T)
  PROVE  /\ Len(s) \in Nat /\ DOMAIN s = 1..Len(s) /\ s \in [1..Len(s) -> T]
         /\ \A i \in 1..Len(s) : s[i] \in T
  OBVIOUS

\* And the other way round.
LEMMA FunctionIsSeq ==
  ASSUME NEW T, NEW n \in Nat, NEW s \in [1..n -> T]
  PROVE  s \in Seq(T) /\ Len(s) = n
  OBVIOUS

\* What stands where in two sequences that are put together.
Follow(both, s, t) ==
  /\ Len(both) = Len(s) + Len(t)
  /\ \A j \in 1..Len(s) : both[j] = s[j]
  /\ \A j \in (Len(s) + 1)..(Len(s) + Len(t)) : both[j] = t[j - Len(s)]

\* It is what concatenation does.
LEMMA ConcatAsIs ==
  ASSUME NEW T, NEW s \in Seq(T), NEW t \in Seq(T)
  PROVE  s \o t \in Seq(T) /\ Follow(s \o t, s, t)
<1>1. s \o t \in Seq(T) /\ Len(s \o t) = Len(s) + Len(t)
  OBVIOUS
<1>2. ASSUME NEW j \in 1..Len(s) PROVE (s \o t)[j] = s[j]
  OBVIOUS
<1>3. ASSUME NEW j \in (Len(s) + 1)..(Len(s) + Len(t)) PROVE (s \o t)[j] = t[j - Len(s)]
  OBVIOUS
<1> QED
  BY <1>1, <1>2, <1>3, Zenon DEF Follow

\* Putting any number of sequences together is a loop.
LEMMA LoopOfFlatten ==
  ASSUME NEW S, NEW n \in Nat, NEW parts \in [1..n -> Seq(S)]
  PROVE  \E w : Joins(w, S, n, parts) /\ w[n] = FlattenSeq(parts)
<1> DEFINE h == [p \in Seq(S) \X (1..n) |-> p[1] \o parts[p[2]]]
<1>1. h \in [Seq(S) \X (1..n) -> Seq(S)] /\ <<>> \in Seq(S)
  OBVIOUS
<1>2. PICK w : IsLoop(w, Seq(S), n, <<>>, h)
  <2> HIDE DEF h
  <2> QED
    BY <1>1, LoopExists
<1>3. /\ w \in [0..n -> Seq(S)] /\ w[0] = <<>>
      /\ \A k \in 1..n : w[k] = h[<<w[k-1], k>>]
  BY <1>2 DEF IsLoop
<1>4. ASSUME NEW k \in 1..n PROVE w[k] = w[k-1] \o parts[k]
  <2>1. k - 1 \in 0..n
    OBVIOUS
  <2>2. w[k-1] \in Seq(S) /\ w[k] = h[<<w[k-1], k>>]
    BY <1>3, <2>1
  <2> QED
    BY <2>2
<1>5. w[n] = FlattenSeq(parts)
  <2>1. CASE n = 0
    <3>1. parts = <<>> /\ Len(parts) = 0
      BY <2>1
    <3>2. FlattenSeq(parts) = <<>>
      BY <3>1 DEF FlattenSeq
    <3> QED
      BY <1>3, <2>1, <3>2
  <2>2. CASE n # 0
    <3>1. n \in Nat \ {0}
      BY <2>2
    <3> HIDE DEF h
    <3>2. Joins(w, S, n, parts)
      BY <1>3, <1>4 DEF Joins
    <3> QED
      BY <3>1, <3>2, FlattenIsLoop
  <2> QED
    BY <2>1, <2>2
<1> HIDE DEF h
<1> QED
  BY <1>3, <1>4, <1>5 DEF Joins

-----------------------------------------------------------------------------
(* Courses: what is stored of what has been parsed.                        *)

\* What a parser or an array gives, of whatever names, places and sessions.
Parsing(U) == Seq([name : U, location : U, sessions : Seq(U)])

\* The rows of the first k courses: those of each course are as many as its
\* sessions.
RowsOfFirst(rows, parsed, k) ==
    /\ \A j \in 1..Len(rows) : rows[j].course \in 1..k
    /\ \A i \in 1..k : Cardinality({j \in 1..Len(rows) : rows[j].course = i})
                         = Len(parsed[i].sessions)

\* The rows of the k-th course are put behind those of the others.
LEMMA NextRows ==
  ASSUME NEW U, NEW S, NEW parsed, NEW k \in Nat \ {0}, NEW rows \in Seq(S), NEW own \in Seq(S),
         RowsOfFirst(rows, parsed, k - 1), Len(own) = Len(parsed[k].sessions),
         \A j \in 1..Len(own) : own[j].course = k
  PROVE  RowsOfFirst(rows \o own, parsed, k)
<1> DEFINE n == Len(rows)
           m == Len(own)
           all == rows \o own
           Of(i) == {j \in 1..Len(all) : all[j].course = i}
<1>1. /\ n \in Nat /\ m \in Nat /\ Len(all) = n + m /\ k \in Nat
      /\ \A j \in 1..n : all[j] = rows[j]
      /\ \A j \in (n+1)..(n+m) : all[j] = own[j - n]
  <2>1. n \in Nat /\ m \in Nat /\ k \in Nat
    OBVIOUS
  <2>2. /\ Len(all) = n + m
        /\ \A j \in 1..n : all[j] = rows[j]
        /\ \A j \in (n+1)..(n+m) : all[j] = own[j - n]
    <3>1. Follow(all, rows, own)
      BY ConcatAsIs
    <3> QED
      BY <3>1 DEF Follow
  <2> QED
    BY <2>1, <2>2
<1>2. \A j \in (n+1)..(n+m) : all[j].course = k
  <2> TAKE j \in (n+1)..(n+m)
  <2>1. j - n \in 1..m
    BY <1>1
  <2> HIDE DEF all
  <2> QED
    BY <1>1, <2>1
<1> HIDE DEF all
<1>3. \A j \in 1..n : all[j].course \in 1..k-1
  BY <1>1 DEF RowsOfFirst
<1>4. \A j \in 1..Len(all) : j \in 1..n \/ j \in (n+1)..(n+m)
  <2> HIDE DEF n, m
  <2> QED
    BY <1>1
<1>5. \A j : /\ j \in 1..n => j \in 1..Len(all)
             /\ j \in (n+1)..(n+m) => j \in 1..Len(all) /\ j \notin 1..n
  <2> HIDE DEF n, m
  <2> QED
    BY <1>1
<1>6. ASSUME NEW j \in 1..Len(all) PROVE all[j].course \in 1..k
  <2>1. k \in 1..k /\ \A x \in 1..k-1 : x \in 1..k
    OBVIOUS
  <2> QED
    BY <1>2, <1>3, <1>4, <2>1
<1>7. ASSUME NEW i \in 1..k, i # k PROVE Cardinality(Of(i)) = Len(parsed[i].sessions)
  <2>1. i \in 1..k-1
    BY <1>7
  <2>2. Of(i) = {j \in 1..n : rows[j].course = i}
    BY <1>1, <1>2, <1>4, <1>5, <1>7
  <2> QED
    BY <2>1, <2>2 DEF RowsOfFirst
<1>8. Cardinality(Of(k)) = Len(parsed[k].sessions)
  <2>1. \A j \in 1..n : all[j].course # k
    <3>1. k \notin 1..k-1
      OBVIOUS
    <3> QED
      BY <1>3, <3>1
  <2>2. Of(k) = (n+1)..(n+m)
    BY <1>2, <1>4, <1>5, <2>1
  <2>3. n + 1 \in Int /\ n + m \in Int
    BY <1>1
  <2>4. Cardinality((n+1)..(n+m)) = IF n + 1 > n + m THEN 0 ELSE (n + m) - (n + 1) + 1
    BY <2>3, FS_Interval
  <2>5. Cardinality((n+1)..(n+m)) = m
    <3> HIDE DEF n, m
    <3> QED
      BY <1>1, <2>4
  <2> QED
    BY <2>2, <2>5
<1> HIDE DEF n, m
<1> QED
  BY <1>6, <1>7, <1>8 DEF RowsOfFirst, all

\* A table: sessions are of courses that are there.
IsTable(rows, lessons) ==
    \E U : /\ rows \in Seq([name : U, location : U])
           /\ lessons \in Seq([course : 1..Len(rows), session : U])

\* What replace_all stores is a table, with every course and, for each, as many
\* sessions as were parsed.
LEMMA StoredRows ==
  ASSUME NEW U, NEW parsed \in Parsing(U)
  PROVE  /\ IsTable(CourseRows(parsed), SessionRows(parsed))
         /\ Len(CourseRows(parsed)) = Len(parsed)
         /\ \A i \in 1..Len(parsed) : CourseRows(parsed)[i].name = parsed[i].name
         /\ RowsOfFirst(SessionRows(parsed), parsed, Len(parsed))
<1> DEFINE n == Len(parsed)
           S == [course : 1..n, session : U]
           parts == [i \in 1..n |-> [j \in DOMAIN parsed[i].sessions |->
                        [course |-> i, session |-> parsed[i].sessions[j]]]]
<1>1. n \in Nat /\ DOMAIN parsed = 1..n
      /\ \A i \in 1..n : parsed[i] \in [name : U, location : U, sessions : Seq(U)]
  <2> DEFINE T == [name : U, location : U, sessions : Seq(U)]
  <2>1. parsed \in Seq(T)
    BY DEF Parsing
  <2> HIDE DEF T
  <2>2. n \in Nat /\ DOMAIN parsed = 1..n /\ \A i \in 1..n : parsed[i] \in T
    BY <2>1, SeqIsFunction
  <2> QED
    BY <2>2 DEF T
<1>2. /\ CourseRows(parsed) \in Seq([name : U, location : U])
      /\ Len(CourseRows(parsed)) = n
      /\ \A i \in 1..n : CourseRows(parsed)[i].name = parsed[i].name
  <2> DEFINE rows == [i \in 1..n |-> [name |-> parsed[i].name, location |-> parsed[i].location]]
  <2> HIDE DEF n
  <2>1. rows \in [1..n -> [name : U, location : U]]
    BY <1>1
  <2>2. \A i \in 1..n : rows[i].name = parsed[i].name
    OBVIOUS
  <2>3. CourseRows(parsed) = rows
    BY <1>1 DEF CourseRows
  <2> HIDE DEF rows
  <2>4. rows \in Seq([name : U, location : U]) /\ Len(rows) = n
    BY <1>1, <2>1, FunctionIsSeq, Zenon
  <2> QED
    BY <2>2, <2>3, <2>4
<1>3. SessionRows(parsed) = FlattenSeq(parts)
  BY <1>1 DEF SessionRows
<1>4. ASSUME NEW i \in 1..n
      PROVE  /\ parts[i] \in Seq(S) /\ Len(parts[i]) = Len(parsed[i].sessions)
             /\ \A j \in 1..Len(parts[i]) : parts[i][j].course = i
  <2> DEFINE own == parsed[i].sessions
             rows == [j \in 1..Len(own) |-> [course |-> i, session |-> own[j]]]
  <2>1. own \in Seq(U)
    BY <1>1
  <2>2. DOMAIN own = 1..Len(own) /\ Len(own) \in Nat /\ \A j \in 1..Len(own) : own[j] \in U
    BY <2>1
  <2>3. parts[i] = rows
    BY <2>2
  <2>4. rows \in [1..Len(own) -> S] /\ \A j \in 1..Len(own) : rows[j].course = i
    BY <2>2
  <2> HIDE DEF rows, S, n, parts
  <2>5. rows \in Seq(S) /\ Len(rows) = Len(own)
    BY <2>2, <2>4
  <2> QED
    BY <2>3, <2>4, <2>5
<1> HIDE DEF parts
<1>5. SessionRows(parsed) \in Seq(S) /\ RowsOfFirst(SessionRows(parsed), parsed, n)
  <2>1. parts \in [1..n -> Seq(S)]
    <3>1. DOMAIN parts = 1..n /\ parts = [i \in DOMAIN parts |-> parts[i]]
      BY DEF parts
    <3> QED
      BY <1>4, <3>1
  <2> HIDE DEF S, n
  <2>0. PICK w : Joins(w, S, n, parts) /\ w[n] = FlattenSeq(parts)
    BY <1>1, <2>1, LoopOfFlatten
  <2>2. /\ w \in [0..n -> Seq(S)] /\ w[0] = <<>> /\ w[n] = FlattenSeq(parts)
        /\ \A k \in 1..n : w[k] = w[k-1] \o parts[k]
    BY <2>0 DEF Joins
  <2> DEFINE P == {k \in 0..n : RowsOfFirst(w[k], parsed, k)}
  <2>3. 0 \in P
    <3>1. 0 \in 0..n
      BY <1>1
    <3> QED
      BY <2>2, <3>1 DEF RowsOfFirst
  <2>4. ASSUME NEW k \in 1..n, k - 1 \in P PROVE k \in P
    <3>1. RowsOfFirst(w[k-1], parsed, k - 1) /\ k - 1 \in 0..n /\ k \in 0..n
          /\ k \in Nat \ {0}
      BY <1>1, <2>4
    <3>2. w[k-1] \in Seq(S)
      BY <2>2, <3>1
    <3>3. RowsOfFirst(w[k-1] \o parts[k], parsed, k)
      BY <1>4, <3>1, <3>2, NextRows
    <3> QED
      BY <2>2, <3>1, <3>3
  <2> HIDE DEF P
  <2>5. 0..n \subseteq P
    BY <1>1, <2>3, <2>4, Induction
  <2>6. RowsOfFirst(w[n], parsed, n) /\ w[n] \in Seq(S)
    <3>1. n \in 0..n
      BY <1>1
    <3> QED
      BY <2>2, <2>5, <3>1 DEF P
  <2> QED
    BY <1>3, <2>2, <2>6
<1>6. IsTable(CourseRows(parsed), SessionRows(parsed))
  <2> HIDE DEF n
  <2> QED
    BY <1>2, <1>5 DEF IsTable
<1> QED
  BY <1>2, <1>5, <1>6

-----------------------------------------------------------------------------
(* Timetable: what is parsed of a text.                                    *)

\* The lines among the first k that are neither blank nor comments, and those
\* of them that name a course.
ContentOf(text, k) == {m \in 1..k : IsContent(text[m])}
LinesOf(text, k, name) == {m \in ContentOf(text, k) : NameOf(text[m]) = name}

\* The courses of the first k lines: one for every name, with a session for
\* every line of that name.
KeepsLines(parsed, text, k) ==
    /\ \A i, j \in 1..Len(parsed) : parsed[i].name = parsed[j].name => i = j
    /\ {parsed[i].name : i \in 1..Len(parsed)} = {NameOf(text[m]) : m \in ContentOf(text, k)}
    /\ \A i \in 1..Len(parsed) :
          Len(parsed[i].sessions) = Cardinality(LinesOf(text, k, parsed[i].name))

\* The next line counts for its name, if it has one.
LEMMA LinesStep ==
  ASSUME NEW text, NEW k \in Nat \ {0}, NEW name
  PROVE  /\ Cardinality(LinesOf(text, k - 1, name)) \in Nat
         /\ IsContent(text[k]) /\ NameOf(text[k]) = name =>
               Cardinality(LinesOf(text, k, name)) = Cardinality(LinesOf(text, k - 1, name)) + 1
         /\ ~(IsContent(text[k]) /\ NameOf(text[k]) = name) =>
               LinesOf(text, k, name) = LinesOf(text, k - 1, name)
<1>1. \A m : m \in 1..k <=> m \in 1..k-1 \/ m = k
  OBVIOUS
<1>2. k \notin 1..k-1
  OBVIOUS
<1>3. IsFiniteSet(LinesOf(text, k - 1, name))
  <2>1. k - 1 \in Int /\ 1 \in Int
    OBVIOUS
  <2>2. IsFiniteSet(1..k-1)
    BY <2>1, FS_Interval
  <2>3. LinesOf(text, k - 1, name) \subseteq 1..k-1
    BY DEF LinesOf, ContentOf
  <2> QED
    BY <2>2, <2>3, FS_Subset
<1>4. \A m : m \in LinesOf(text, k, name) <=>
                 m \in 1..k /\ IsContent(text[m]) /\ NameOf(text[m]) = name
  BY Zenon DEF LinesOf, ContentOf
<1>5. \A m : m \in LinesOf(text, k - 1, name) <=>
                 m \in 1..k-1 /\ IsContent(text[m]) /\ NameOf(text[m]) = name
  BY Zenon DEF LinesOf, ContentOf
<1>6. CASE IsContent(text[k]) /\ NameOf(text[k]) = name
  <2>1. LinesOf(text, k, name) = LinesOf(text, k - 1, name) \cup {k}
    BY <1>1, <1>4, <1>5, <1>6
  <2>2. k \notin LinesOf(text, k - 1, name)
    BY <1>2, <1>5
  <2> QED
    BY <1>3, <1>6, <2>1, <2>2, FS_AddElement, FS_CardinalityType
<1>7. CASE ~(IsContent(text[k]) /\ NameOf(text[k]) = name)
  <2>1. LinesOf(text, k, name) = LinesOf(text, k - 1, name)
    BY <1>1, <1>4, <1>5, <1>7
  <2> QED
    BY <1>3, <1>7, <2>1, FS_CardinalityType
<1> QED
  BY <1>6, <1>7

\* The session of the k-th line.
SessionOf(text, k, total) == ParseLine(Tokenize(text[k]), total)

\* Whatever names, places and sessions the lines of a text give.
Given(text, n, total) ==
    {NameOf(text[m]) : m \in 1..n}
      \cup {SessionOf(text, m, total) : m \in 1..n}
      \cup {SessionOf(text, m, total).location : m \in 1..n}

\* A course is put behind the others, with one session.
Opened(parsed, name, place, session) ==
    Append(parsed, [name |-> name, location |-> place, sessions |-> <<session>>])

\* A line of a new course opens it.
LEMMA OpensCourse ==
  ASSUME NEW U, NEW parsed \in Parsing(U), NEW text, NEW k \in Nat \ {0},
         IsContent(text[k]),
         NEW place \in U, NEW session \in U, NameOf(text[k]) \in U,
         \A i \in 1..Len(parsed) : parsed[i].name # NameOf(text[k])
  PROVE  /\ Opened(parsed, NameOf(text[k]), place, session) \in Parsing(U)
         /\ KeepsLines(parsed, text, k - 1) =>
               KeepsLines(Opened(parsed, NameOf(text[k]), place, session), text, k)
<1> DEFINE name == NameOf(text[k])
           new == [name |-> name, location |-> place, sessions |-> <<session>>]
           all == Opened(parsed, name, place, session)
           n == Len(parsed)
           C == [name : U, location : U, sessions : Seq(U)]
<1>1. new \in C /\ new.name = name /\ Len(new.sessions) = 1
  <2>1. <<session>> \in Seq(U) /\ Len(<<session>>) = 1
    OBVIOUS
  <2> QED
    BY <2>1
<1> HIDE DEF new
<1>2. /\ n \in Nat /\ all \in Seq(C) /\ Len(all) = n + 1
      /\ all[n + 1] = new /\ \A i \in 1..n : all[i] = parsed[i]
  <2> HIDE DEF C
  <2>1. parsed \in Seq(C)
    BY DEF Parsing, C
  <2>2. all = Append(parsed, new)
    BY DEF Opened, new
  <2> QED
    BY <1>1, <2>1, <2>2
<1>3. \A i : i \in 1..Len(all) <=> i \in 1..n \/ i = n + 1
  <2> HIDE DEF n, all
  <2> QED
    BY <1>2
<1>7. all \in Parsing(U)
  BY <1>2 DEF Parsing
<1> SUFFICES ASSUME KeepsLines(parsed, text, k - 1) PROVE KeepsLines(all, text, k)
  BY <1>7
<1> HIDE DEF all, n
<1>4. ASSUME NEW i \in 1..Len(all), NEW j \in 1..Len(all), all[i].name = all[j].name
      PROVE  i = j
  BY <1>1, <1>2, <1>3, <1>4, ZenonT(30) DEF KeepsLines, n
<1>5. {all[i].name : i \in 1..Len(all)} = {NameOf(text[m]) : m \in ContentOf(text, k)}
  <2>1. {all[i].name : i \in 1..Len(all)} = {parsed[i].name : i \in 1..n} \cup {name}
    <3> DEFINE names == {all[i].name : i \in 1..Len(all)}
    <3>1. ASSUME NEW i \in 1..n PROVE parsed[i].name \in names
      <4>1. i \in 1..Len(all) /\ all[i].name = parsed[i].name
        BY <1>2, <1>3
      <4> QED
        BY <4>1
    <3>2. name \in names
      <4>1. n + 1 \in 1..Len(all) /\ all[n + 1].name = name
        BY <1>1, <1>2, <1>3
      <4> QED
        BY <4>1
    <3>3. ASSUME NEW i \in 1..Len(all)
          PROVE  all[i].name \in {parsed[l].name : l \in 1..n} \cup {name}
      <4>1. CASE i \in 1..n
        BY <1>2, <4>1
      <4>2. CASE i = n + 1
        BY <1>1, <1>2, <4>2
      <4> QED
        BY <1>3, <4>1, <4>2
    <3> QED
      BY <3>1, <3>2, <3>3
  <2>2. ContentOf(text, k) = ContentOf(text, k - 1) \cup {k}
    <3>1. \A m : m \in 1..k <=> m \in 1..k-1 \/ m = k
      OBVIOUS
    <3> QED
      BY <3>1 DEF ContentOf
  <2> QED
    BY <2>1, <2>2 DEF KeepsLines, n
<1>6. ASSUME NEW i \in 1..Len(all)
      PROVE  Len(all[i].sessions) = Cardinality(LinesOf(text, k, all[i].name))
  <2>1. CASE i \in 1..n
    <3>1. all[i] = parsed[i] /\ parsed[i].name # name
      BY <1>2, <2>1 DEF n
    <3>2. LinesOf(text, k, parsed[i].name) = LinesOf(text, k - 1, parsed[i].name)
      BY <3>1, LinesStep
    <3> QED
      BY <2>1, <3>1, <3>2 DEF KeepsLines, n
  <2>2. CASE i = n + 1
    <3>1. LinesOf(text, k - 1, name) = {}
      <4> SUFFICES ASSUME NEW m \in LinesOf(text, k - 1, name) PROVE FALSE
        OBVIOUS
      <4>1. m \in ContentOf(text, k - 1) /\ NameOf(text[m]) = name
        BY DEF LinesOf
      <4>2. name \in {parsed[l].name : l \in 1..Len(parsed)}
        BY <4>1 DEF KeepsLines
      <4> QED
        BY <4>2
    <3>2. Cardinality(LinesOf(text, k - 1, name)) = 0
      BY <3>1, FS_EmptySet
    <3>3. Cardinality(LinesOf(text, k, name)) = 1
      BY <3>2, LinesStep
    <3> QED
      BY <1>1, <1>2, <2>2, <3>3
  <2> QED
    BY <1>3, <2>1, <2>2
<1> QED
  BY <1>4, <1>5, <1>6 DEF KeepsLines

\* A course gets a session more, and its place if it has none.
Extended(parsed, c, session, place) ==
    [parsed EXCEPT ![c].sessions = Append(@, session),
                   ![c].location = IF @ = <<>> THEN place ELSE @]

\* A line of a course that is there adds its session.
LEMMA AddsSession ==
  ASSUME NEW U, NEW parsed \in Parsing(U), NEW text, NEW k \in Nat \ {0},
         IsContent(text[k]),
         NEW place \in U, NEW session \in U, NEW c \in 1..Len(parsed),
         parsed[c].name = NameOf(text[k])
  PROVE  /\ Extended(parsed, c, session, place) \in Parsing(U)
         /\ KeepsLines(parsed, text, k - 1) =>
               KeepsLines(Extended(parsed, c, session, place), text, k)
<1> DEFINE name == NameOf(text[k])
           old == parsed[c]
           lessons == Append(old.sessions, session)
           where == IF old.location = <<>> THEN place ELSE old.location
           new == [[old EXCEPT !.sessions = Append(@, session)]
                        EXCEPT !.location = IF @ = <<>> THEN place ELSE @]
           all == Extended(parsed, c, session, place)
           n == Len(parsed)
           C == [name : U, location : U, sessions : Seq(U)]
<1>1. parsed \in Seq(C)
  BY DEF Parsing
<1>2. n \in Nat /\ DOMAIN parsed = 1..n /\ parsed \in [1..n -> C] /\ old \in C
  <2> HIDE DEF C
  <2> QED
    BY <1>1, SeqIsFunction
<1>3. new \in C /\ new.name = name /\ Len(new.sessions) = Len(old.sessions) + 1
  <2>1. old.sessions \in Seq(U) /\ old.location \in U /\ old.name = name /\ name \in U
    BY <1>2
  <2>2. lessons \in Seq(U) /\ Len(lessons) = Len(old.sessions) + 1
    BY <2>1
  <2>3. where \in U
    BY <2>1
  <2>4. old \in [name : U, location : U, sessions : Seq(U)]
    BY <1>2
  <2> HIDE DEF old
  <2>5. [old EXCEPT !.sessions = Append(@, session)]
          = [old EXCEPT !.sessions = lessons]
    OBVIOUS
  <2> DEFINE mid == [old EXCEPT !.sessions = lessons]
  <2> HIDE DEF lessons
  <2>6. /\ mid \in [name : U, location : U, sessions : Seq(U)]
        /\ mid.name = old.name /\ mid.sessions = lessons /\ mid.location = old.location
    BY <2>2, <2>4
  <2>7. new = [mid EXCEPT !.location = where]
    <3> HIDE DEF mid
    <3>1. new = [mid EXCEPT !.location = IF @ = <<>> THEN place ELSE @]
      BY <2>5, Zenon DEF mid
    <3> QED
      BY <2>6, <3>1
  <2> HIDE DEF mid, where, new
  <2> QED
    BY <2>1, <2>2, <2>3, <2>6, <2>7
<1>4. all = [parsed EXCEPT ![c] = new]
  BY Zenon DEF Extended
<1> HIDE DEF new, all
<1>5. /\ all \in [1..n -> C] /\ all[c] = new /\ \A i \in 1..n : i # c => all[i] = parsed[i]
  <2> HIDE DEF C
  <2> QED
    BY <1>2, <1>3, <1>4
<1>6. all \in Seq(C) /\ Len(all) = n
  <2> HIDE DEF C, n
  <2> QED
    BY <1>2, <1>5, FunctionIsSeq
<1>11. all \in Parsing(U)
  BY <1>6 DEF Parsing
<1> SUFFICES ASSUME KeepsLines(parsed, text, k - 1) PROVE KeepsLines(all, text, k)
  BY <1>11 DEF all
<1>7. \A i \in 1..n : all[i].name = parsed[i].name
  BY <1>3, <1>5
<1>8. \A i, j \in 1..n : all[i].name = all[j].name => i = j
  BY <1>7 DEF KeepsLines
<1>9. {all[i].name : i \in 1..n} = {NameOf(text[m]) : m \in ContentOf(text, k)}
  <2>1. {all[i].name : i \in 1..n} = {parsed[i].name : i \in 1..n}
    <3> HIDE DEF n
    <3> QED
      BY <1>7
  <2>2. ContentOf(text, k) = ContentOf(text, k - 1) \cup {k}
    <3>1. \A m : m \in 1..k <=> m \in 1..k-1 \/ m = k
      OBVIOUS
    <3> QED
      BY <3>1 DEF ContentOf
  <2>3. name \in {parsed[i].name : i \in 1..n}
    OBVIOUS
  <2> QED
    BY <2>1, <2>2, <2>3 DEF KeepsLines
<1>10. ASSUME NEW i \in 1..n
       PROVE  Len(all[i].sessions) = Cardinality(LinesOf(text, k, all[i].name))
  <2>1. Len(parsed[i].sessions) = Cardinality(LinesOf(text, k - 1, parsed[i].name))
    BY DEF KeepsLines
  <2>2. CASE i # c
    <3>1. all[i] = parsed[i] /\ parsed[i].name # name
      BY <1>5, <2>2 DEF KeepsLines
    <3>2. LinesOf(text, k, parsed[i].name) = LinesOf(text, k - 1, parsed[i].name)
      BY <3>1, LinesStep
    <3> QED
      BY <2>1, <3>1, <3>2
  <2>3. CASE i = c
    <3>1. Len(all[i].sessions) = Cardinality(LinesOf(text, k - 1, name)) + 1
      BY <1>3, <1>5, <2>1, <2>3
    <3>2. Cardinality(LinesOf(text, k, name)) = Cardinality(LinesOf(text, k - 1, name)) + 1
      BY LinesStep
    <3> QED
      BY <1>7, <2>3, <3>1, <3>2
  <2> QED
    BY <2>2, <2>3
<1> QED
  BY <1>6, <1>8, <1>9, <1>10 DEF KeepsLines

\* Each line keeps what the lines before it gave, and adds its own.
LEMMA LineKeepsLines ==
  ASSUME NEW n \in Nat, NEW text, NEW total, NEW k \in 1..n,
         NEW parsed \in Parsing(Given(text, n, total))
  PROVE  /\ WithLine(parsed, text[k], total) \in Parsing(Given(text, n, total))
         /\ KeepsLines(parsed, text, k - 1) =>
               KeepsLines(WithLine(parsed, text[k], total), text, k)
<1> DEFINE U == Given(text, n, total)
           session == SessionOf(text, k, total)
           name == NameOf(text[k])
           after == WithLine(parsed, text[k], total)
<1>1. name \in U /\ session \in U /\ session.location \in U /\ k \in Nat \ {0}
  BY DEF Given
<1>2. CASE ~IsContent(text[k])
  <2>1. after = parsed
    BY <1>2 DEF WithLine
  <2>2. ContentOf(text, k) = ContentOf(text, k - 1)
    <3>1. \A m : m \in 1..k <=> m \in 1..k-1 \/ m = k
      OBVIOUS
    <3> QED
      BY <1>2, <3>1 DEF ContentOf
  <2>3. \A x : LinesOf(text, k, x) = LinesOf(text, k - 1, x)
    BY <2>2 DEF LinesOf
  <2> QED
    BY <2>1, <2>2, <2>3 DEF KeepsLines
<1>3. CASE IsContent(text[k])
  <2> DEFINE same == {i \in DOMAIN parsed : parsed[i].name = name}
  <2>1. after = WithSession(parsed, name, session)
    BY <1>3 DEF WithLine, NameOf, SessionOf
  <2>2. DOMAIN parsed = 1..Len(parsed)
    BY DEF Parsing
  <2> HIDE DEF U, session, after, name
  <2>3. CASE same = {}
    <3>1. after = Opened(parsed, name, session.location, session)
      BY <2>1, <2>3 DEF WithSession, Opened
    <3>2. \A i \in 1..Len(parsed) : parsed[i].name # name
      BY <2>2, <2>3
    <3> QED
      BY <1>1, <1>3, <3>1, <3>2, OpensCourse DEF U, after, name
  <2>4. CASE same # {}
    <3> DEFINE c == CHOOSE i \in same : TRUE
    <3>1. c \in same
      BY <2>4
    <3>2. after = Extended(parsed, c, session, session.location)
      BY <2>1, <2>4, Zenon DEF WithSession, Extended
    <3> HIDE DEF c
    <3>3. c \in 1..Len(parsed) /\ parsed[c].name = name
      BY <2>2, <3>1
    <3> QED
      BY <1>1, <1>3, <3>2, <3>3, AddsSession DEF U, after, name
  <2> QED
    BY <2>3, <2>4
<1> QED
  BY <1>2, <1>3

\* The parsing of a text is a loop over its lines.
LEMMA LoopOfParse ==
  ASSUME NEW n \in Nat, NEW text, DOMAIN text = 1..n, NEW total
  PROVE  \E v \in [0..n -> Parsing(Given(text, n, total))] :
            /\ v[0] = <<>>
            /\ \A k \in 1..n : v[k] = WithLine(v[k-1], text[k], total)
            /\ v[n] = Parse(text, total)
<1> DEFINE T == Parsing(Given(text, n, total))
           base == <<>>
           h == [p \in T \X (1..n) |-> WithLine(p[1], text[p[2]], total)]
           Body(f) == [s \in SUBSET (1..n) |->
                         IF s = {} THEN base
                         ELSE WithLine(f[s \ {Max(s)}], text[Max(s)], total)]
           iter == CHOOSE f : f = Body(f)
<1>1. base \in T
  BY DEF Parsing
<1>2. h \in [T \X (1..n) -> T]
  BY LineKeepsLines
<1>3. PICK g \in [SUBSET (1..n) -> T] : Follows(g, n, base, h)
  <2> HIDE DEF T, base, h
  <2> QED
    BY <1>1, <1>2, FoldExists
<1>4. g = Body(g)
  <2>1. ASSUME NEW s \in SUBSET (1..n), s # {}
        PROVE  g[s] = WithLine(g[s \ {Max(s)}], text[Max(s)], total)
    <3>1. Max(s) \in 1..n
      BY <2>1, MaxIsIn
    <3>2. g[s \ {Max(s)}] \in T
      OBVIOUS
    <3>3. g[s] = h[<<g[s \ {Max(s)}], Max(s)>>]
      BY <1>3, <2>1 DEF Follows
    <3> HIDE DEF T
    <3> QED
      BY <3>1, <3>2, <3>3
  <2>2. g[{}] = base
    BY <1>3 DEF Follows
  <2> HIDE DEF base, h, T
  <2> QED
    BY <2>1, <2>2
<1>5. iter = Body(iter)
  <2> HIDE DEF Body
  <2> QED
    BY <1>4
<1>6. Parse(text, total) = iter[1..n]
  BY Zenon DEF Parse, FoldLeft, MapThenFoldSet
<1>7. iter[{}] = base
  <2> HIDE DEF iter, base
  <2> QED
    BY <1>5
<1>8. ASSUME NEW s \in SUBSET (1..n), s # {}, iter[s \ {Max(s)}] \in T
      PROVE  iter[s] = h[<<iter[s \ {Max(s)}], Max(s)>>]
  <2>1. iter[s] = WithLine(iter[s \ {Max(s)}], text[Max(s)], total)
    <3> HIDE DEF iter
    <3> QED
      BY <1>5, <1>8
  <2>2. Max(s) \in 1..n
    BY <1>8, MaxIsIn
  <2> HIDE DEF iter
  <2> QED
    BY <1>8, <2>1, <2>2
<1> HIDE DEF iter, base, T
<1>9. LoopEnds(T, n, base, h, iter[1..n])
  <2>1. FollowsIn(T, iter, n, base, h)
    <3> HIDE DEF h
    <3> QED
      BY <1>7, <1>8 DEF FollowsIn
  <2> HIDE DEF h
  <2> QED
    BY <1>1, <1>2, <2>1, FoldIsLoop, Zenon
<1>10. PICK v : IsLoop(v, T, n, base, h) /\ v[n] = iter[1..n]
  BY <1>9 DEF LoopEnds
<1>11. ASSUME NEW k \in 1..n PROVE v[k] = WithLine(v[k-1], text[k], total)
  <2>1. v[k-1] \in T /\ v[k] = h[<<v[k-1], k>>]
    <3> HIDE DEF h
    <3>1. k - 1 \in 0..n
      OBVIOUS
    <3>2. v \in [0..n -> T] /\ v[k] = h[<<v[k-1], k>>]
      BY <1>10 DEF IsLoop
    <3> QED
      BY <3>1, <3>2
  <2> QED
    BY <2>1
<1> HIDE DEF h
<1>12. v \in [0..n -> T] /\ v[0] = base
  BY <1>10 DEF IsLoop
<1> QED
  BY <1>6, <1>10, <1>11, <1>12 DEF base, T

\* So a text of any number of lines keeps them all.
LEMMA ParseKeepsLines ==
  ASSUME NEW n \in Nat, NEW text, DOMAIN text = 1..n, NEW total
  PROVE  /\ Parse(text, total) \in Parsing(Given(text, n, total))
         /\ KeepsLines(Parse(text, total), text, n)
<1> DEFINE T == Parsing(Given(text, n, total))
<1>1. PICK v \in [0..n -> T] :
         /\ v[0] = <<>>
         /\ \A k \in 1..n : v[k] = WithLine(v[k-1], text[k], total)
         /\ v[n] = Parse(text, total)
  BY LoopOfParse
<1> DEFINE P == {k \in 0..n : KeepsLines(v[k], text, k)}
<1>2. 0 \in P
  <2>1. ContentOf(text, 0) = {}
    BY DEF ContentOf
  <2>2. KeepsLines(<<>>, text, 0)
    BY <2>1 DEF KeepsLines
  <2> QED
    BY <1>1, <2>2
<1>3. ASSUME NEW k \in 1..n, k - 1 \in P PROVE k \in P
  <2>1. v[k-1] \in T /\ KeepsLines(v[k-1], text, k - 1) /\ k \in 0..n
    BY <1>1, <1>3
  <2>2. KeepsLines(WithLine(v[k-1], text[k], total), text, k)
    BY <2>1, LineKeepsLines
  <2>3. v[k] = WithLine(v[k-1], text[k], total)
    BY <1>1
  <2> QED
    BY <2>1, <2>2, <2>3
<1> HIDE DEF P, T
<1>4. 0..n \subseteq P
  BY <1>2, <1>3, Induction
<1>5. KeepsLines(v[n], text, n) /\ v[n] \in T
  <2>1. n \in 0..n
    OBVIOUS
  <2> QED
    BY <1>1, <1>4, <2>1 DEF P
<1> QED
  BY <1>1, <1>5 DEF T

-----------------------------------------------------------------------------
(* Courses: what is read and put back.                                     *)

IsSequence(x) == \E n \in Nat : DOMAIN x = 1..n

\* The sessions of a course are shown as a sequence.
LEMMA ShownIsSequence ==
  ASSUME NEW rows, IsSequence(rows), NEW i
  PROVE  IsSequence(OfCourse(rows, i))
<1> DEFINE own == {j \in DOMAIN rows : rows[j].course = i}
<1>1. PICK n \in Nat : DOMAIN rows = 1..n
  BY DEF IsSequence
<1>2. IsFiniteSet(own)
  <2>1. n \in Int /\ 1 \in Int
    OBVIOUS
  <2>2. IsFiniteSet(DOMAIN rows)
    BY <1>1, <2>1, FS_Interval
  <2> HIDE DEF own
  <2>3. own \subseteq DOMAIN rows
    BY DEF own
  <2> QED
    BY <2>2, <2>3, FS_Subset
<1>3. Cardinality(own) \in Nat
  <2> HIDE DEF own
  <2> QED
    BY <1>2, FS_CardinalityType
<1>4. DOMAIN OfCourse(rows, i) = 1..Cardinality(own)
  BY DEF OfCourse
<1> QED
  BY <1>3, <1>4 DEF IsSequence

\* What the page puts back is a text.
LEMMA TextIsSequence ==
  ASSUME NEW a, IsSequence(a.courses), IsSequence(a.sessions)
  PROVE  IsSequence(TextOf(a))
<1>1. PICK n \in Nat : DOMAIN a.courses = 1..n
  BY DEF IsSequence
<1> DEFINE shown == [i \in 1..n |-> OfCourse(a.sessions, i)]
           parts == [i \in 1..n |-> [j \in DOMAIN shown[i] |-> LineOf(a.courses[i], shown[i][j])]]
           V == UNION {{parts[i][j] : j \in DOMAIN parts[i]} : i \in 1..n}
<1>2. TextOf(a) = FlattenSeq(parts)
  BY <1>1, Zenon DEF TextOf, Format
<1>3. ASSUME NEW i \in 1..n PROVE parts[i] \in Seq(V)
  <2>1. DOMAIN parts[i] = DOMAIN shown[i] /\ shown[i] = OfCourse(a.sessions, i)
    OBVIOUS
  <2>2. PICK m \in Nat : DOMAIN parts[i] = 1..m
    BY <2>1, ShownIsSequence DEF IsSequence
  <2>3. parts[i] = [j \in DOMAIN parts[i] |-> parts[i][j]]
    OBVIOUS
  <2>4. \A j \in DOMAIN parts[i] : parts[i][j] \in V
    <3> HIDE DEF parts
    <3> QED
      OBVIOUS
  <2> HIDE DEF parts, V
  <2>5. parts[i] \in [1..m -> V]
    BY <2>2, <2>3, <2>4
  <2> QED
    BY <2>5, FunctionIsSeq
<1>4. parts \in [1..n -> Seq(V)]
  <2>1. DOMAIN parts = 1..n /\ parts = [i \in DOMAIN parts |-> parts[i]]
    OBVIOUS
  <2> HIDE DEF parts, V
  <2> QED
    BY <1>3, <2>1
<1> HIDE DEF parts, V, shown
<1>5. FlattenSeq(parts) \in Seq(V)
  <2>1. PICK w : Joins(w, V, n, parts) /\ w[n] = FlattenSeq(parts)
    BY <1>4, LoopOfFlatten
  <2>2. n \in 0..n
    OBVIOUS
  <2> QED
    BY <2>1, <2>2 DEF Joins
<1>6. DOMAIN FlattenSeq(parts) = 1..Len(FlattenSeq(parts)) /\ Len(FlattenSeq(parts)) \in Nat
  BY <1>5, SeqIsFunction
<1> QED
  BY <1>2, <1>6 DEF IsSequence

\* An answer has its five parts, whatever they are.
Parts(U) == [courses : U, sessions : U, courseCount : U, sessionCount : U, saved : U]
IsAnswer(a) == \E U : a \in Parts(U)

HasRead(a, c, s, m, n) ==
    IsAnswer(a) /\ a.courses = c /\ a.sessions = s /\ a.courseCount = m /\ a.sessionCount = n

\* Each is read by itself.
LEMMA ReadingAPart ==
  ASSUME NEW a, IsAnswer(a), NEW x
  PROVE  /\ HasRead([a EXCEPT !.courses = x], x, a.sessions, a.courseCount, a.sessionCount)
         /\ HasRead([a EXCEPT !.sessions = x], a.courses, x, a.courseCount, a.sessionCount)
         /\ HasRead([a EXCEPT !.courseCount = x], a.courses, a.sessions, x, a.sessionCount)
         /\ HasRead([a EXCEPT !.sessionCount = x], a.courses, a.sessions, a.courseCount, x)
         /\ HasRead([a EXCEPT !.saved = x], a.courses, a.sessions, a.courseCount, a.sessionCount)
<1>1. PICK U : a \in Parts(U) /\ x \in U
  <2>1. PICK T : a \in Parts(T)
    BY DEF IsAnswer
  <2>2. a \in Parts(T \cup {x})
    BY <2>1 DEF Parts
  <2> QED
    BY <2>2
<1>2. HasRead([a EXCEPT !.courses = x], x, a.sessions, a.courseCount, a.sessionCount)
  <2> DEFINE b == [a EXCEPT !.courses = x]
  <2>1. b \in Parts(U)
        /\ b.courses = x /\ b.sessions = a.sessions
        /\ b.courseCount = a.courseCount /\ b.sessionCount = a.sessionCount
    BY <1>1 DEF Parts
  <2> HIDE DEF b
  <2>2. HasRead(b, x, a.sessions, a.courseCount, a.sessionCount)
    BY <2>1 DEF HasRead, IsAnswer
  <2> QED
    BY <2>2 DEF b
<1>3. HasRead([a EXCEPT !.sessions = x], a.courses, x, a.courseCount, a.sessionCount)
  <2> DEFINE b == [a EXCEPT !.sessions = x]
  <2>1. b \in Parts(U)
        /\ b.courses = a.courses /\ b.sessions = x
        /\ b.courseCount = a.courseCount /\ b.sessionCount = a.sessionCount
    BY <1>1 DEF Parts
  <2> HIDE DEF b
  <2>2. HasRead(b, a.courses, x, a.courseCount, a.sessionCount)
    BY <2>1 DEF HasRead, IsAnswer
  <2> QED
    BY <2>2 DEF b
<1>4. HasRead([a EXCEPT !.courseCount = x], a.courses, a.sessions, x, a.sessionCount)
  <2> DEFINE b == [a EXCEPT !.courseCount = x]
  <2>1. b \in Parts(U)
        /\ b.courses = a.courses /\ b.sessions = a.sessions
        /\ b.courseCount = x /\ b.sessionCount = a.sessionCount
    BY <1>1 DEF Parts
  <2> HIDE DEF b
  <2>2. HasRead(b, a.courses, a.sessions, x, a.sessionCount)
    BY <2>1 DEF HasRead, IsAnswer
  <2> QED
    BY <2>2 DEF b
<1>5. HasRead([a EXCEPT !.sessionCount = x], a.courses, a.sessions, a.courseCount, x)
  <2> DEFINE b == [a EXCEPT !.sessionCount = x]
  <2>1. b \in Parts(U)
        /\ b.courses = a.courses /\ b.sessions = a.sessions
        /\ b.courseCount = a.courseCount /\ b.sessionCount = x
    BY <1>1 DEF Parts
  <2> HIDE DEF b
  <2>2. HasRead(b, a.courses, a.sessions, a.courseCount, x)
    BY <2>1 DEF HasRead, IsAnswer
  <2> QED
    BY <2>2 DEF b
<1>6. HasRead([a EXCEPT !.saved = x], a.courses, a.sessions, a.courseCount, a.sessionCount)
  <2> DEFINE b == [a EXCEPT !.saved = x]
  <2>1. b \in Parts(U)
        /\ b.courses = a.courses /\ b.sessions = a.sessions
        /\ b.courseCount = a.courseCount /\ b.sessionCount = a.sessionCount
    BY <1>1 DEF Parts
  <2> HIDE DEF b
  <2>2. HasRead(b, a.courses, a.sessions, a.courseCount, a.sessionCount)
    BY <2>1 DEF HasRead, IsAnswer
  <2> QED
    BY <2>2 DEF b
<1> QED
  BY <1>2, <1>3, <1>4, <1>5, <1>6

-----------------------------------------------------------------------------
(* Courses: what a PUT stores.                                             *)

\* The bodies that are served: an array of courses, a text, or neither.
IsBody(p) ==
    \/ p.form = "neither"
    \/ p.form = "text" /\ IsSequence(p.text)
    \/ p.form = "courses" /\ \E U : p \in [form : {"courses"}, courses : Parsing(U)]

\* What clients send is one.
LEMMA SentIsBody ==
  ASSUME NEW p \in Put
  PROVE  IsBody(p)
<1>1. p \in Form
  BY PutsHaveForm
<1>2. CASE p \in [form : {"text"}, text : Seq(Phrase)]
  <2> DEFINE T == Phrase
  <2> HIDE DEF T
  <2>1. p.form = "text" /\ p.text \in Seq(T)
    BY <1>2 DEF T
  <2>2. IsSequence(p.text)
    BY <2>1, SeqIsFunction DEF IsSequence
  <2> QED
    BY <2>1, <2>2 DEF IsBody
<1>3. CASE p \in [form : {"courses"},
                  courses : Seq([name : Phrase, location : Phrase, sessions : Seq(Lesson)])]
  <2> DEFINE C == [name : Phrase, location : Phrase, sessions : Seq(Lesson)]
             U == Phrase \cup Lesson
             D == [name : U, location : U, sessions : Seq(U)]
  <2>1. C \subseteq D
    <3>1. Seq(Lesson) \subseteq Seq(U)
      <4> HIDE DEF U
      <4>1. Lesson \subseteq U
        BY DEF U
      <4> QED
        BY <4>1
    <3>2. Phrase \subseteq U
      OBVIOUS
    <3> HIDE DEF U
    <3> QED
      BY <3>1, <3>2
  <2>2. p.form = "courses" /\ p \in [form : {"courses"}, courses : Seq(C)]
    BY <1>3
  <2> HIDE DEF C, D, U
  <2>3. Seq(C) \subseteq Seq(D)
    BY <2>1
  <2>4. p \in [form : {"courses"}, courses : Seq(D)]
    BY <2>2, <2>3
  <2>5. Seq(D) = Parsing(U)
    BY Zenon DEF Parsing, D
  <2> QED
    BY <2>2, <2>4, <2>5 DEF IsBody
<1>4. CASE p \in [form : {"neither"}]
  BY <1>4 DEF IsBody
<1> QED
  BY <1>1, <1>2, <1>3, <1>4 DEF Form

\* The rows that keep every course, or every line, of a body.
KeepsBody(rows, lessons, p) ==
    IF p.form = "courses"
    THEN /\ Len(rows) = Len(p.courses)
         /\ \A i \in DOMAIN rows :
               Cardinality({j \in DOMAIN lessons : lessons[j].course = i})
                 = Len(p.courses[i].sessions)
    ELSE /\ {rows[i].name : i \in DOMAIN rows} = {NameOf(p.text[m]) : m \in ContentLines(p)}
         /\ \A i \in DOMAIN rows :
               Cardinality({m \in ContentLines(p) : NameOf(p.text[m]) = rows[i].name})
                 = Cardinality({j \in DOMAIN lessons : lessons[j].course = i})

\* The bodies that clear the table.
IsEmptyBody(p) ==
    \/ p \in {[form |-> "courses", courses |-> <<>>]}
    \/ \A i \in DOMAIN p.text : IsBlank(p.text[i])

LEMMA RowsAreSequences ==
  ASSUME NEW rows, NEW lessons, IsTable(rows, lessons)
  PROVE  DOMAIN rows = 1..Len(rows) /\ DOMAIN lessons = 1..Len(lessons)
<1>1. PICK V : /\ rows \in Seq([name : V, location : V])
               /\ lessons \in Seq([course : 1..Len(rows), session : V])
  BY DEF IsTable
<1> QED
  BY <1>1

\* A body that is not refused is stored as a table that keeps it, and as an
\* empty one only if it clears the table.
LEMMA BodyStored ==
  ASSUME NEW p, IsBody(p), ~Rejected(p)
  PROVE  /\ IsTable(CourseRows(Parsed(p)), SessionRows(Parsed(p)))
         /\ KeepsBody(CourseRows(Parsed(p)), SessionRows(Parsed(p)), p)
         /\ CourseRows(Parsed(p)) = <<>> => IsEmptyBody(p)
<1> DEFINE parsed == Parsed(p)
           rows == CourseRows(parsed)
           lessons == SessionRows(parsed)
<1>1. p.form # "neither" /\ (parsed = <<>> => Clears(p))
  BY DEF Rejected
<1>2. CASE p.form = "courses"
  <2>1. PICK U : p \in [form : {"courses"}, courses : Parsing(U)]
    BY <1>2 DEF IsBody
  <2>2. parsed = p.courses /\ p.courses \in Parsing(U)
    BY <1>2, <2>1 DEF Parsed
  <2> HIDE DEF parsed
  <2>3. /\ IsTable(rows, lessons) /\ Len(rows) = Len(parsed)
        /\ RowsOfFirst(lessons, parsed, Len(parsed))
    BY <2>2, StoredRows
  <2>4. KeepsBody(rows, lessons, p)
    <3> HIDE DEF rows, lessons
    <3>1. DOMAIN rows = 1..Len(rows) /\ DOMAIN lessons = 1..Len(lessons)
      BY <2>3, RowsAreSequences
    <3>2. ASSUME NEW i \in DOMAIN rows
          PROVE  Cardinality({j \in DOMAIN lessons : lessons[j].course = i})
                   = Len(p.courses[i].sessions)
      BY <2>2, <2>3, <3>1, <3>2 DEF RowsOfFirst
    <3> QED
      BY <1>2, <2>2, <2>3, <3>2, Zenon DEF KeepsBody
  <2>5. ASSUME rows = <<>> PROVE IsEmptyBody(p)
    <3> DEFINE C == [name : U, location : U, sessions : Seq(U)]
    <3>1. Len(parsed) = 0
      BY <2>3, <2>5
    <3>2. parsed \in Seq(C)
      BY <2>2 DEF Parsing
    <3> HIDE DEF C
    <3>3. parsed = <<>>
      BY <3>1, <3>2
    <3>4. p = [form |-> "courses", courses |-> <<>>]
      BY <2>1, <2>2, <3>3
    <3> QED
      BY <3>4 DEF IsEmptyBody
  <2> QED
    BY <2>3, <2>4, <2>5 DEF parsed
<1>3. CASE p.form = "text"
  <2>1. PICK n \in Nat : DOMAIN p.text = 1..n
    BY <1>2, <1>3 DEF IsBody, IsSequence
  <2> DEFINE U == Given(p.text, n, TotalWeeks)
  <2>2. parsed = Parse(p.text, TotalWeeks)
    BY <1>3 DEF Parsed
  <2> HIDE DEF parsed
  <2>3. parsed \in Parsing(U) /\ KeepsLines(parsed, p.text, n)
    BY <2>1, <2>2, ParseKeepsLines
  <2> HIDE DEF U
  <2>4. /\ IsTable(rows, lessons) /\ Len(rows) = Len(parsed)
        /\ \A i \in 1..Len(parsed) : rows[i].name = parsed[i].name
        /\ RowsOfFirst(lessons, parsed, Len(parsed))
    BY <2>3, StoredRows
  <2>5. DOMAIN rows = 1..Len(rows) /\ DOMAIN lessons = 1..Len(lessons)
    <3> HIDE DEF rows, lessons
    <3> QED
      BY <2>4, RowsAreSequences
  <2>6. ContentLines(p) = ContentOf(p.text, n)
    BY <2>1 DEF ContentLines, ContentOf
  <2>7. KeepsBody(rows, lessons, p)
    <3> HIDE DEF rows, lessons
    <3>1. {rows[i].name : i \in DOMAIN rows} = {parsed[i].name : i \in 1..Len(parsed)}
      BY <2>4, <2>5
    <3>2. ASSUME NEW i \in DOMAIN rows
          PROVE  Cardinality({m \in ContentLines(p) : NameOf(p.text[m]) = rows[i].name})
                   = Cardinality({j \in DOMAIN lessons : lessons[j].course = i})
      <4>1. i \in 1..Len(parsed) /\ rows[i].name = parsed[i].name
        BY <2>4, <2>5
      <4>2. {m \in ContentLines(p) : NameOf(p.text[m]) = rows[i].name}
              = LinesOf(p.text, n, parsed[i].name)
        BY <2>6, <4>1, Zenon DEF LinesOf
      <4>3. Cardinality({j \in 1..Len(lessons) : lessons[j].course = i}) = Len(parsed[i].sessions)
        BY <2>4, <4>1 DEF RowsOfFirst
      <4>4. Len(parsed[i].sessions) = Cardinality(LinesOf(p.text, n, parsed[i].name))
        BY <2>3, <4>1 DEF KeepsLines
      <4>5. {j \in DOMAIN lessons : lessons[j].course = i}
              = {j \in 1..Len(lessons) : lessons[j].course = i}
        BY <2>5
      <4> QED
        BY <4>2, <4>3, <4>4, <4>5
    <3>3. {parsed[i].name : i \in 1..Len(parsed)} = {NameOf(p.text[m]) : m \in ContentOf(p.text, n)}
      BY <2>3 DEF KeepsLines
    <3>4. {rows[i].name : i \in DOMAIN rows} = {NameOf(p.text[m]) : m \in ContentLines(p)}
      BY <2>6, <3>1, <3>3
    <3>5. p.form # "courses"
      BY <1>3
    <3> QED
      BY <3>2, <3>4, <3>5, Zenon DEF KeepsBody
  <2>8. ASSUME rows = <<>> PROVE IsEmptyBody(p)
    <3> DEFINE C == [name : U, location : U, sessions : Seq(U)]
    <3>1. Len(parsed) = 0
      BY <2>4, <2>8
    <3>2. parsed \in Seq(C)
      BY <2>3 DEF Parsing
    <3> HIDE DEF C
    <3>3. parsed = <<>>
      BY <3>1, <3>2
    <3> QED
      BY <1>1, <1>3, <3>3 DEF Clears, IsEmptyBody, parsed
  <2> QED
    BY <2>4, <2>7, <2>8 DEF parsed
<1> QED
  BY <1>1, <1>2, <1>3 DEF IsBody

-----------------------------------------------------------------------------
(* Courses: what the requests have read.                                   *)

\* The text of an answer can be put back.
LEMMA PutBackIsBody ==
  ASSUME NEW r, IsSequence(answer[r].courses), IsSequence(answer[r].sessions)
  PROVE  IsBody(PutBack(r))
<1>1. IsSequence(TextOf(answer[r]))
  BY TextIsSequence
<1>2. PutBack(r).form = "text" /\ PutBack(r).text = TextOf(answer[r])
  BY DEF PutBack
<1> QED
  BY <1>1, <1>2 DEF IsBody

\* What a request has read is a sequence of rows.
ReadSoFar(r) ==
    /\ pc[r] \in {"sessions", "courseCount", "sessionCount"} => IsSequence(answer[r].courses)
    /\ pc[r] \in {"courseCount", "sessionCount"} => IsSequence(answer[r].sessions)
    /\ answer[r].sessionCount # NotRead =>
          IsSequence(answer[r].courses) /\ IsSequence(answer[r].sessions)

\* What a request has read, no PUT having come between, is in the table still.
StillRight(r) ==
    /\ pc[r] \in {"sessions", "courseCount", "sessionCount", "done"}
    /\ answer[r].courses = courses
    /\ pc[r] \in {"courseCount", "sessionCount", "done"} => answer[r].sessions = sessions
    /\ pc[r] \in {"sessionCount", "done"} => answer[r].courseCount = Len(courses)
    /\ pc[r] = "done" => answer[r].sessionCount = Len(sessions)

CoursesInv ==
    /\ pc \in [Req -> {"idle", "courses", "sessions", "courseCount", "sessionCount", "done"}]
    /\ quiet \subseteq Req
    /\ DOMAIN put = Req /\ DOMAIN answer = Req
    /\ IsTable(courses, sessions)
    /\ \A r \in Req : IsAnswer(answer[r]) /\ ReadSoFar(r)
    /\ \A r \in quiet : StillRight(r)

\* The rows of a table have the parts their tables have.
LEMMA TableRows ==
  ASSUME NEW rows, NEW lessons, IsTable(rows, lessons)
  PROVE  /\ IsSequence(rows) /\ IsSequence(lessons)
         /\ \A i \in DOMAIN rows : DOMAIN rows[i] = {"name", "location"}
         /\ \A j \in DOMAIN lessons : /\ DOMAIN lessons[j] = {"course", "session"}
                                      /\ lessons[j].course \in DOMAIN rows
<1>1. PICK U : /\ rows \in Seq([name : U, location : U])
               /\ lessons \in Seq([course : 1..Len(rows), session : U])
  BY DEF IsTable
<1> DEFINE R == [name : U, location : U]
           L == [course : 1..Len(rows), session : U]
<1>2. /\ DOMAIN rows = 1..Len(rows) /\ Len(rows) \in Nat /\ \A i \in DOMAIN rows : rows[i] \in R
      /\ DOMAIN lessons = 1..Len(lessons) /\ Len(lessons) \in Nat
      /\ \A j \in DOMAIN lessons : lessons[j] \in L
  <2>1. rows \in Seq(R) /\ lessons \in Seq(L)
    BY <1>1
  <2> HIDE DEF R, L
  <2> QED
    BY <2>1
<1>3. ASSUME NEW i \in DOMAIN rows PROVE DOMAIN rows[i] = {"name", "location"}
  <2>1. rows[i] \in R
    BY <1>2
  <2> QED
    BY <2>1
<1>4. ASSUME NEW j \in DOMAIN lessons
      PROVE  DOMAIN lessons[j] = {"course", "session"} /\ lessons[j].course \in 1..Len(rows)
  <2>1. lessons[j] \in L
    BY <1>2
  <2> QED
    BY <2>1
<1> QED
  BY <1>2, <1>3, <1>4 DEF IsSequence

LEMMA CoursesInvInit ==
  ASSUME Init
  PROVE  CoursesInv
<1>1. IsTable(courses, sessions)
  <2>1. courses \in Seq([name : {}, location : {}])
        /\ sessions \in Seq([course : 1..Len(courses), session : {}])
    BY DEF Init
  <2> QED
    BY <2>1 DEF IsTable
<1>2. ASSUME NEW r \in Req PROVE IsAnswer(answer[r]) /\ ReadSoFar(r)
  <2>1. answer[r] = Unread /\ pc[r] = "idle"
    BY DEF Init
  <2>2. Unread \in Parts({NotRead})
    BY DEF Unread, Parts
  <2>3. answer[r].sessionCount = NotRead
    BY <2>1 DEF Unread
  <2> QED
    BY <2>1, <2>2, <2>3 DEF IsAnswer, ReadSoFar
<1> QED
  BY <1>1, <1>2 DEF CoursesInv, Init

\* A body that can be sent is one.
LEMMA SendableIsBody ==
  ASSUME CoursesInv, NEW p \in Sendable
  PROVE  IsBody(p)
<1>1. CASE p \in Put
  BY <1>1, SentIsBody
<1>2. ASSUME NEW r \in Req, Answered(r), p = PutBack(r) PROVE IsBody(p)
  <2>1. IsSequence(answer[r].courses) /\ IsSequence(answer[r].sessions)
    BY <1>2, Zenon DEF CoursesInv, ReadSoFar, Answered
  <2> QED
    BY <1>2, <2>1, PutBackIsBody
<1> QED
  BY <1>1, <1>2 DEF Sendable

\* The steps that read, or refuse, leave the table as it is.  What the other
\* requests have read is left alone by every step.
LEMMA OthersAsTheyWere ==
  ASSUME CoursesInv, NEW q \in Req, NEW r \in Req, q # r,
         pc'[q] = pc[q], answer'[q] = answer[q]
  PROVE  /\ IsAnswer(answer'[q]) /\ ReadSoFar(q)'
         /\ UNCHANGED <<courses, sessions>> /\ q \in quiet => StillRight(q)'
<1>1. IsAnswer(answer'[q])
  BY DEF CoursesInv
<1>2. ReadSoFar(q)'
  BY DEF CoursesInv, ReadSoFar
<1>3. ASSUME UNCHANGED <<courses, sessions>>, q \in quiet PROVE StillRight(q)'
  BY <1>3 DEF CoursesInv, StillRight
<1> QED
  BY <1>1, <1>2, <1>3

LEMMA CoursesInvNext ==
  ASSUME CoursesInv, [Next]_vars
  PROVE  CoursesInv'
<1> DEFINE Steps == {"idle", "courses", "sessions", "courseCount", "sessionCount", "done"}
<1>1. CASE UNCHANGED vars
  <2>1. ASSUME NEW r \in Req PROVE IsAnswer(answer'[r]) /\ ReadSoFar(r)'
    BY <1>1 DEF CoursesInv, vars, ReadSoFar
  <2>2. ASSUME NEW r \in quiet PROVE StillRight(r)'
    BY <1>1, <2>2 DEF CoursesInv, vars, StillRight
  <2> QED
    BY <1>1, <2>1, <2>2 DEF CoursesInv, vars
<1>2. ASSUME NEW r \in Req, PutRejected(r) \/ PutFails(r) PROVE CoursesInv'
  <2>1. /\ pc[r] = "idle" /\ pc' = [pc EXCEPT ![r] = "done"]
        /\ DOMAIN put' = DOMAIN put
        /\ UNCHANGED <<courses, sessions, answer, quiet>>
    BY <1>2 DEF PutRejected, PutFails
  <2>2. r \notin quiet
    BY <2>1 DEF CoursesInv, StillRight
  <2>3. IsAnswer(answer'[r]) /\ ReadSoFar(r)'
    BY <2>1 DEF CoursesInv, ReadSoFar
  <2>4. ASSUME NEW q \in Req, q # r PROVE pc'[q] = pc[q] /\ answer'[q] = answer[q]
    BY <2>1, <2>4 DEF CoursesInv
  <2>5. \A q \in Req : IsAnswer(answer'[q]) /\ ReadSoFar(q)'
    BY <2>3, <2>4, OthersAsTheyWere
  <2>6. \A q \in quiet' : StillRight(q)'
    BY <2>1, <2>2, <2>4, OthersAsTheyWere DEF CoursesInv
  <2> QED
    BY <2>1, <2>5, <2>6 DEF CoursesInv
<1>3. ASSUME NEW r \in Req, PutReplaces(r) PROVE CoursesInv'
  <2>0. IsAnswer(answer[r])
    BY DEF CoursesInv
  <2>1. PICK p \in Sendable :
           /\ ~Rejected(p)
           /\ put' = [put EXCEPT ![r] = p]
           /\ courses' = CourseRows(Parsed(p))
           /\ sessions' = SessionRows(Parsed(p))
           /\ answer' = [answer EXCEPT ![r].saved =
                            <<Len(courses'), Len(SessionRows(Parsed(p)))>>]
    BY <1>3, Zenon DEF PutReplaces
  <2>2. pc[r] = "idle" /\ pc' = [pc EXCEPT ![r] = "courses"] /\ quiet' = {}
    BY <1>3 DEF PutReplaces
  <2>3. IsTable(courses, sessions)'
    BY <2>1, SendableIsBody, BodyStored
  <2> DEFINE x == <<Len(courses'), Len(SessionRows(Parsed(p)))>>
  <2>4. answer' = [answer EXCEPT ![r].saved = x]
    BY <2>1
  <2> HIDE DEF x
  <2>5. /\ answer'[r] = [answer[r] EXCEPT !.saved = x] /\ DOMAIN answer' = Req
        /\ \A q \in Req : q # r => pc'[q] = pc[q] /\ answer'[q] = answer[q]
    BY <2>2, <2>4 DEF CoursesInv
  <2>6. HasRead(answer'[r], answer[r].courses, answer[r].sessions,
               answer[r].courseCount, answer[r].sessionCount)
    <3>1. HasRead([answer[r] EXCEPT !.saved = x],
               answer[r].courses, answer[r].sessions, answer[r].courseCount, answer[r].sessionCount)
      BY <2>0, ReadingAPart, Zenon
    <3> QED
      BY <2>5, <3>1, Zenon
  <2>7. pc'[r] = "courses"
    BY <2>2 DEF CoursesInv
  <2>8. ReadSoFar(r)'
    BY <2>6, <2>7 DEF CoursesInv, HasRead, ReadSoFar
  <2>9. \A q \in Req : IsAnswer(answer'[q]) /\ ReadSoFar(q)'
    BY <2>5, <2>6, <2>8, OthersAsTheyWere DEF HasRead
  <2>10. DOMAIN put' = Req
    BY <2>1 DEF CoursesInv
  <2>11. pc' \in [Req -> Steps] /\ quiet' \subseteq Req
    BY <2>2 DEF CoursesInv
  <2> HIDE DEF Steps
  <2> QED
    BY <2>2, <2>3, <2>5, <2>9, <2>10, <2>11, Zenon DEF CoursesInv, Steps
<1>4. ASSUME NEW r \in Req,
             ReadCourses(r) \/ ReadSessions(r) \/ CountCourses(r) \/ CountSessions(r)
      PROVE  CoursesInv'
  <2>0. IsAnswer(answer[r])
    BY DEF CoursesInv
  <2>1. UNCHANGED <<courses, sessions, put>>
    BY <1>4 DEF ReadCourses, ReadSessions, CountCourses, CountSessions, Reads
  <2>2. IsTable(courses, sessions)' /\ DOMAIN put' = Req
    BY <2>1 DEF CoursesInv
  <2>3. IsSequence(courses) /\ IsSequence(sessions)
    BY TableRows DEF CoursesInv
  <2>4. /\ DOMAIN answer' = Req /\ pc' \in [Req -> Steps]
        /\ \A q \in Req : q # r => pc'[q] = pc[q] /\ answer'[q] = answer[q]
        /\ quiet' \subseteq quiet \cup {r}
    BY <1>4 DEF CoursesInv, ReadCourses, ReadSessions, CountCourses, CountSessions, Reads
  <2>5. IsAnswer(answer'[r]) /\ ReadSoFar(r)' /\ (r \in quiet' => StillRight(r)')
    <3>1. CASE ReadCourses(r)
      <4>1. /\ pc[r] \in {"idle", "courses"} /\ pc'[r] = "sessions"
            /\ answer'[r] = [answer[r] EXCEPT !.courses = courses]
        BY <3>1 DEF CoursesInv, ReadCourses, Reads
      <4>2. HasRead(answer'[r], courses, answer[r].sessions,
                   answer[r].courseCount, answer[r].sessionCount)
        <5>1. HasRead([answer[r] EXCEPT !.courses = courses],
                   courses, answer[r].sessions, answer[r].courseCount, answer[r].sessionCount)
          BY <2>0, ReadingAPart, Zenon
        <5> QED
          BY <4>1, <5>1, Zenon
      <4> QED
        BY <2>1, <2>3, <4>1, <4>2 DEF CoursesInv, HasRead, ReadSoFar, StillRight
    <3>2. CASE ReadSessions(r)
      <4>1. /\ pc[r] = "sessions" /\ pc'[r] = "courseCount" /\ quiet' = quiet
            /\ answer'[r] = [answer[r] EXCEPT !.sessions = sessions]
        BY <3>2 DEF CoursesInv, ReadSessions, Reads
      <4>2. HasRead(answer'[r], answer[r].courses, sessions,
                   answer[r].courseCount, answer[r].sessionCount)
        <5>1. HasRead([answer[r] EXCEPT !.sessions = sessions],
                   answer[r].courses, sessions, answer[r].courseCount, answer[r].sessionCount)
          BY <2>0, ReadingAPart, Zenon
        <5> QED
          BY <4>1, <5>1, Zenon
      <4> QED
        BY <2>1, <2>3, <4>1, <4>2 DEF CoursesInv, HasRead, ReadSoFar, StillRight
    <3>3. CASE CountCourses(r)
      <4>1. /\ pc[r] = "courseCount" /\ pc'[r] = "sessionCount" /\ quiet' = quiet
            /\ answer'[r] = [answer[r] EXCEPT !.courseCount = Len(courses)]
        BY <3>3 DEF CoursesInv, CountCourses, Reads
      <4>2. HasRead(answer'[r], answer[r].courses, answer[r].sessions,
                   Len(courses), answer[r].sessionCount)
        <5>1. HasRead([answer[r] EXCEPT !.courseCount = Len(courses)],
                   answer[r].courses, answer[r].sessions, Len(courses), answer[r].sessionCount)
          BY <2>0, ReadingAPart, Zenon
        <5> QED
          BY <4>1, <5>1, Zenon
      <4> QED
        BY <2>1, <2>3, <4>1, <4>2 DEF CoursesInv, HasRead, ReadSoFar, StillRight
    <3>4. CASE CountSessions(r)
      <4>1. /\ pc[r] = "sessionCount" /\ pc'[r] = "done" /\ quiet' = quiet
            /\ answer'[r] = [answer[r] EXCEPT !.sessionCount = Len(sessions)]
        BY <3>4 DEF CoursesInv, CountSessions, Reads
      <4>2. HasRead(answer'[r], answer[r].courses, answer[r].sessions,
                   answer[r].courseCount, Len(sessions))
        <5>1. HasRead([answer[r] EXCEPT !.sessionCount = Len(sessions)],
                   answer[r].courses, answer[r].sessions, answer[r].courseCount, Len(sessions))
          BY <2>0, ReadingAPart, Zenon
        <5> QED
          BY <4>1, <5>1, Zenon
      <4> QED
        BY <2>1, <2>3, <4>1, <4>2 DEF CoursesInv, HasRead, ReadSoFar, StillRight
    <3> QED
      BY <1>4, <3>1, <3>2, <3>3, <3>4
  <2>6. \A q \in Req : IsAnswer(answer'[q]) /\ ReadSoFar(q)'
    BY <2>4, <2>5, OthersAsTheyWere
  <2>7. \A q \in quiet' : StillRight(q)'
    BY <2>1, <2>4, <2>5, OthersAsTheyWere DEF CoursesInv
  <2> HIDE DEF Steps
  <2> QED
    BY <2>2, <2>4, <2>6, <2>7, Zenon DEF CoursesInv, Steps
<1> QED
  BY <1>1, <1>2, <1>3, <1>4 DEF Next

LEMMA CoursesInvHolds == Spec => []CoursesInv
<1>1. Init => CoursesInv
  BY CoursesInvInit
<1>2. CoursesInv /\ [Next]_vars => CoursesInv'
  BY CoursesInvNext
<1> QED
  BY <1>1, <1>2, PTL DEF Spec

\* The timetable has no session without its course, whatever has been put; and
\* an answer that no PUT overlapped is one timetable, read with four queries.
THEOREM AnswersAreWhole == Spec => []AnswersAddUp
<1>1. CoursesInv => AnswersAddUp
  <2> SUFFICES ASSUME CoursesInv PROVE AnswersAddUp
    OBVIOUS
  <2>1. /\ \A i \in DOMAIN courses : DOMAIN courses[i] = {"name", "location"}
        /\ \A j \in DOMAIN sessions : /\ DOMAIN sessions[j] = {"course", "session"}
                                      /\ sessions[j].course \in DOMAIN courses
    BY TableRows DEF CoursesInv
  <2>2. TypeOK
    BY <2>1 DEF CoursesInv, TypeOK
  <2>3. ASSUME NEW r \in quiet, Answered(r)
        PROVE  /\ answer[r].courses = courses /\ answer[r].sessions = sessions
               /\ answer[r].courseCount = Len(courses) /\ answer[r].sessionCount = Len(sessions)
    BY <2>3 DEF CoursesInv, StillRight, Answered
  <2> QED
    BY <2>1, <2>2, <2>3 DEF AnswersAddUp
<1> QED
  BY <1>1, CoursesInvHolds, PTL

\* A PUT that changes the timetable stores every course, and every line, it was
\* sent, and leaves it empty only if that is what it was sent.
THEOREM PutsAreWhole == Spec => PutIsWhole
<1> DEFINE Whole(r) == put'[r] # put[r] /\ <<courses, sessions>>' # <<courses, sessions>> =>
                          /\ SavedWhole(put'[r])
                          /\ courses' = <<>> => IsEmptyBody(put'[r])
<1>1. ASSUME CoursesInv, Next PROVE \A r \in Req : Whole(r)
  <2> SUFFICES ASSUME NEW r \in Req, put'[r] # put[r],
                      <<courses, sessions>>' # <<courses, sessions>>
               PROVE  /\ SavedWhole(put'[r])
                      /\ courses' = <<>> => IsEmptyBody(put'[r])
    BY Zenon
  <2>1. PICK q \in Req : PutReplaces(q)
    BY <1>1 DEF Next, PutRejected, PutFails, ReadCourses, ReadSessions, CountCourses,
                CountSessions, Reads
  <2>2. PICK p \in Sendable :
           /\ ~Rejected(p)
           /\ put' = [put EXCEPT ![q] = p]
           /\ courses' = CourseRows(Parsed(p))
           /\ sessions' = SessionRows(Parsed(p))
    BY <2>1, Zenon DEF PutReplaces
  <2>3. put'[r] = p
    BY <1>1, <2>2 DEF CoursesInv
  <2>4. KeepsBody(courses', sessions', p) /\ (courses' = <<>> => IsEmptyBody(p))
    BY <1>1, <2>2, SendableIsBody, BodyStored
  <2>5. SavedWhole(p)
    BY <2>4, Zenon DEF KeepsBody, SavedWhole, SessionsOf
  <2> QED
    BY <2>3, <2>4, <2>5
<1>2. (\A r \in Req : Whole(r)) <=>
      \A r \in Req : put'[r] # put[r] /\ <<courses, sessions>>' # <<courses, sessions>> =>
          /\ SavedWhole(put'[r])
          /\ courses' = <<>> => put'[r] \in {[form |-> "courses", courses |-> <<>>]} \/
                                \A i \in DOMAIN put'[r].text : IsBlank(put'[r].text[i])
  BY Zenon DEF IsEmptyBody
<1>3. CoursesInv /\ Next =>
      \A r \in Req : put'[r] # put[r] /\ <<courses, sessions>>' # <<courses, sessions>> =>
          /\ SavedWhole(put'[r])
          /\ courses' = <<>> => put'[r] \in {[form |-> "courses", courses |-> <<>>]} \/
                                \A i \in DOMAIN put'[r].text : IsBlank(put'[r].text[i])
  BY <1>1, <1>2
<1> QED
  BY <1>3, CoursesInvHolds, PTL DEF PutIsWhole, Spec
=============================================================================
