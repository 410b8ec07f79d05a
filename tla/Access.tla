------------------------------- MODULE Access -------------------------------
(***************************************************************************)
(* Who may do what: how a request's credentials are found and judged, for  *)
(* the four kinds of endpoints.                                            *)
(*                                                                         *)
(* A request is a record: `scheme' and `bearer' of the Authorization       *)
(* header, `direct' of X-API-Key, the session `cookie' and the `csrf'      *)
(* header.  A key is a value of Keys, which says what the table knows of   *)
(* it; NoValue is a header that is missing or blank.  A signature names    *)
(* the secret it was made with.                                            *)
(***************************************************************************)
EXTENDS Integers

NoValue == "none"

\* What is in api_keys under the hash of each key that is presented.
Keys == [rw |-> [known |-> TRUE, readOnly |-> FALSE, revoked |-> FALSE],
         ro |-> [known |-> TRUE, readOnly |-> TRUE, revoked |-> FALSE],
         revoked |-> [known |-> TRUE, readOnly |-> FALSE, revoked |-> TRUE],
         foreign |-> [known |-> FALSE, readOnly |-> FALSE, revoked |-> FALSE]]

\* The bearer token; or a whole header that looks like a key, with no scheme
\* before it; or X-API-Key.
PresentedKey(q) ==
    IF q.scheme = "bearer" /\ q.bearer # NoValue THEN q.bearer
    ELSE IF q.scheme = "bare" THEN q.bearer
    ELSE q.direct

NoToken == [parts |-> 0, epoch |-> 0, expiry |-> 0, signed |-> NoValue]

\* Faulty: the epoch of the token is not compared.
VerifySessionAnyEpoch(token, secret, epoch, now) ==
    token.parts = 3 /\ token.expiry >= now /\ token.signed = secret

\* verify_session; 3 parts stand for a token of the right shape.
VerifySession(token, secret, epoch, now) ==
    /\ secret # NoValue /\ token.parts = 3
    /\ token.epoch = epoch
    /\ token.expiry >= now
    /\ token.signed = secret

Anonymous == [kind |-> "nobody", readOnly |-> TRUE]

\* authenticate: a key that is no good is not made up for by a cookie.
Authenticate(q, secret, epoch, now) ==
    LET key == PresentedKey(q) IN
    IF key # NoValue
    THEN IF Keys[key].known /\ ~Keys[key].revoked
         THEN [kind |-> "apikey", readOnly |-> Keys[key].readOnly]
         ELSE Anonymous
    ELSE IF VerifySession(q.cookie, secret, epoch, now)
         THEN [kind |-> "session", readOnly |-> FALSE]
         ELSE Anonymous

\* Only who is known by a cookie has to prove that the page sent the request.
CsrfFails(q, who, secret) == who.kind = "session" /\ q.csrf # secret

\* current_auth, require_write, require_session, require_session_write.
Decide(endpoint, q, secret, epoch, now) ==
    LET who == Authenticate(q, secret, epoch, now) IN
    IF who = Anonymous THEN 401
    ELSE IF endpoint = "write" /\ who.readOnly THEN 403
    ELSE IF endpoint \in {"session", "session_write"} /\ who.kind # "session" THEN 403
    ELSE IF endpoint \in {"write", "session_write"} /\ CsrfFails(q, who, secret) THEN 403
    ELSE 200
=============================================================================
