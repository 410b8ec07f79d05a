------------------------------- MODULE Rules -------------------------------
(***************************************************************************)
(* The decisions the program takes without state of its own, each against  *)
(* what it should be: who may do what (Access), what a reply holds         *)
(* (Replies), what becomes of its items (Normalize), and what the model is *)
(* told of the timetable (Context).                                        *)
(*                                                                         *)
(* A behaviour is one call: `input' is what it is given, `output' what it  *)
(* answers.                                                                *)
(***************************************************************************)
EXTENDS Access, Normalize, Context, Replies, FiniteSetsExt

CONSTANTS Requests,     \* endpoint, request, secret, epoch, now
          Raws,         \* sequences of items of a model
          Limit,        \* MAX_ITEMS
          Moments,      \* monday, day, minute, total, sessions
          Bodies        \* tier and body of a reply

ASSUME LimitAssumption == Limit \in Nat \ {0}

\* A request has what Access says of it, and the server has a secret.
IsRequest(x) ==
    /\ x.endpoint \in {"read", "write", "session", "session_write"}
    /\ x.secret # NoValue
    /\ x.now \in Int /\ x.request.cookie.expiry \in Int
    /\ x.request.scheme \in {"none", "bearer", "bare", "basic"}
    /\ {x.request.bearer, x.request.direct} \subseteq DOMAIN Keys \cup {NoValue}
    /\ x.request.scheme = "bare" => x.request.bearer # NoValue

ASSUME RequestsAreTyped == \A x \in Requests : IsRequest(x)

\* What the model may give for an item, as Normalize says.
RawDue ==
    [kind : {"empty", "unparsable", "overflows"}, at : {NoDue}]
    \cup [kind : {"moment"}, at : Int \ {NoDue}]
RawPriority ==
    [kind : {"empty", "unparsable", "infinite", "number"}, value : Int, exact : BOOLEAN]
RawObject ==
    [object : {TRUE}, title : STRING, category : STRING, due : RawDue, priority : RawPriority]
RawItem == {NotAnObject} \cup RawObject

ASSUME RawsAreTyped == Raws \subseteq Seq(RawItem)

Session == [weekday : 1..7, start : -1..1439, end : 0..1439, parity : {"all", "odd", "even"},
            first : Nat, last : Nat]

IsMoment(x) ==
    /\ x.monday \in 1..7 /\ x.day \in Int /\ x.minute \in 0..1439 /\ x.total \in Nat \ {0}
    /\ x.sessions \subseteq Session /\ IsFiniteSet(x.sessions)

ASSUME MomentsAreTyped == \A x \in Moments : IsMoment(x)

\* What a reply may hold, as Replies says; of an item only which one it is.
Arguments ==
    [kind : {"items", "object", "other", "malformed", "none", "not a string"}, items : Seq(Nat)]
Text ==
    [wrapping : {"bare", "fence", "words", "list of one", "fence on one line", "several objects"},
     json : Arguments]

IsReply(x) ==
    /\ x.tier \in {"tool_call", "json"}
    /\ x.body.calls \in Seq([name : STRING, args : Arguments]) /\ x.body.text \in Text
    /\ \/ x.body.api = "responses" /\ x.body.status \in {"completed", "failed", "incomplete"}
       \/ /\ x.body.api = "chat"
          /\ x.body.finish \in {"stop", "tool_calls", "length", "content_filter",
                                "insufficient_system_resource"}

ASSUME BodiesAreTyped == \A x \in Bodies : IsReply(x)

VARIABLES input, output
rulesVars == <<input, output>>

NoAnswer == <<"none">>

RulesInit ==
    /\ output = NoAnswer
    /\ \/ \E x \in Requests : input = <<"access", x>>
       \/ \E x \in Raws : input = <<"normalize", x>>
       \/ \E x \in Moments : input = <<"context", x>>
       \/ \E x \in Bodies : input = <<"reply", x>>

Asked(what) == output = NoAnswer /\ input[1] = what
Answer(x) == output' = <<"answer", x>> /\ UNCHANGED input

Authorize ==
    /\ Asked("access")
    /\ LET x == input[2] IN Answer(Decide(x.endpoint, x.request, x.secret, x.epoch, x.now))

Normalized ==
    /\ Asked("normalize")
    /\ Answer(NormalizeItems(input[2], Limit))

BuildContext ==
    /\ Asked("context")
    /\ LET x == input[2] IN Answer(CourseLines(x.monday, x.day, x.minute, x.total, x.sessions))

ReadReply ==
    /\ Asked("reply")
    /\ Answer(ParseResponse(input[2].tier, input[2].body))

RulesNext == Authorize \/ Normalized \/ BuildContext \/ ReadReply

RulesSpec == RulesInit /\ [][RulesNext]_rulesVars
-----------------------------------------------------------------------------
Replied(what) == output # NoAnswer /\ input[1] = what

(* An active key decides alone, whatever cookie comes along: it reads, it   *)
(* writes unless it is read-only, and it is never taken for a browser.  A   *)
(* key that is revoked or unknown is nobody, even beside a good cookie.     *)
(* Without a key, the cookie has to be of this secret and this epoch and    *)
(* not expired, and a write has to repeat the secret's csrf token.          *)
AccessFollowsPolicy ==
    Replied("access") =>
        LET x == input[2]
            q == x.request
            inHeader == {k \in DOMAIN Keys : q.bearer = k /\ q.scheme \in {"bearer", "bare"}}
            shown == inHeader \cup {k \in DOMAIN Keys : q.direct = k /\ inHeader = {}}
            active == {k \in shown : Keys[k].known /\ ~Keys[k].revoked}
            writes == x.endpoint \in {"write", "session_write"}
            byKey == active # {} /\ shown = active
            byCookie == /\ shown = {} /\ q.cookie.parts = 3
                        /\ q.cookie.signed = x.secret /\ q.cookie.epoch = x.epoch
                        /\ x.now <= q.cookie.expiry
        IN  /\ (output[2] = 401) = ~(byKey \/ byCookie)
            /\ (output[2] = 200) =
                  \/ byKey /\ x.endpoint = "read"
                  \/ byKey /\ x.endpoint = "write" /\ ~ \E k \in active : Keys[k].readOnly
                  \/ byCookie /\ (writes => q.csrf = x.secret)

\* How far two priorities are from each other.
Distance(a, b) == IF a < b THEN b - a ELSE a - b

\* What may become of one item of the model.
IsRuleOf(raw, item) ==
    LET usable == raw.priority.kind = "number"
        dated == raw.due.kind = "moment"
    IN  /\ (item.due = NoDue) # (item.priority = NoPriority)
        /\ item.due # NoDue <=> dated
        /\ dated => item.due = raw.due.at
        /\ ~dated /\ usable => \A k \in 1..5 : Distance(item.priority, raw.priority.value)
                                               <= Distance(k, raw.priority.value)
        /\ item.priority \in 0..5
        /\ item.needsPriority <=> ~dated /\ ~usable
        /\ item.category \in Categories
        \* What is not what the model said is told, and nothing else is.
        /\ (item.category # raw.category /\ raw.category # "") <=>
              "category_downgraded" \in item.adjustments
        /\ usable /\ dated <=> "priority_dropped" \in item.adjustments
        /\ usable /\ ~dated /\ item.priority # raw.priority.value =>
              "priority_clamped" \in item.adjustments
        /\ item.needsPriority <=> "priority_defaulted" \in item.adjustments

(* Of the items of a model, the first Limit that have a title are kept in   *)
(* their order, each with either a deadline or a priority from 1 to 5, as   *)
(* close to the model's as that goes, and marked with what was changed.     *)
(* Nothing the model writes makes the ingestion fail, but a date or a       *)
(* priority out of the range of Python's integers.                          *)
NormalizedFollowsRules ==
    Replied("normalize") =>
        LET raws == input[2]
            titled(i) == raws[i].object /\ raws[i].title # ""
            place(i) == Cardinality({k \in 1..i : titled(k)})
            head == {i \in DOMAIN raws : titled(i) /\ place(i) <= Limit}
            result == output[2]
        IN  /\ result.failed <=> \E i \in head : Overflows(raws[i])
            /\ ~result.failed =>
                  /\ Len(result.items) = Min({Limit, place(Len(raws))})
                  /\ \A i \in head : IsRuleOf(raws[i], result.items[place(i)])

Minutes == 24 * 60

\* When the session `s' is held in the week `w' of a term: in minutes from the
\* term's first midnight.
BeginsAt(s, w) == ((w - 1) * 7 + s.weekday - 1) * Minutes + s.start
EndsAt(s, w) == BeginsAt(s, w) + s.end - s.start

Held(s, total) ==
    {w \in s.first..s.last \cap 1..total :
        CASE s.parity = "odd" -> \E k \in 0..total : w = 2 * k + 1
          [] s.parity = "even" -> \E k \in 0..total : w = 2 * k
          [] OTHER -> TRUE}

\* Of those the week, if any, the day of a moment lies in.
HeldAt(s, x) == {w \in Held(s, x.total) : (w - 1) * 7 <= x.day /\ x.day < w * 7}

(* In a term that begins on a Monday, the model is told of a session iff it *)
(* is held in the week of the moment and has not begun or has not been over *)
(* for more than an hour, on the same day (what ended before midnight is    *)
(* not told, however late it was); of each once, and as on, over, or to     *)
(* come as it is.  In any term, the context fails only if some session has  *)
(* hours no clock shows.                                                    *)
ContextTellsTheWeek ==
    Replied("context") =>
        LET x == input[2]
            midnight == x.day * Minutes
            now == midnight + x.minute
            told == {p[1] : p \in output[2].said}
        IN  /\ output[2].failed => \E s \in x.sessions : s.start < 0
            /\ Cardinality(told) = Cardinality(output[2].said)
            /\ x.monday = 1 /\ ~output[2].failed =>
               \A s \in x.sessions :
                  LET week == HeldAt(s, x)
                  IN  /\ s \in told <=> \E w \in week :
                            \/ now < BeginsAt(s, w)
                            \/ midnight <= EndsAt(s, w) /\ now - JustEndedWindow <= EndsAt(s, w)
                      /\ \A w \in week : s.start >= 0 =>
                            /\ <<s, "current">> \in output[2].said <=>
                                  BeginsAt(s, w) <= now /\ now <= EndsAt(s, w)
                            /\ <<s, "upcoming">> \in output[2].said =>
                                  BeginsAt(s, w) - now \in 1..UpcomingWindow

\* A call whose items can be read.
IsRead(call) == call.name = ToolName /\ call.args.kind = "items"

(* Of a reply that is whole, in either transport, the items of every call   *)
(* are read, in their order, or none and the next channel is tried.  A      *)
(* reply that was cut off or failed gives no items whatever it holds, and   *)
(* only arguments that are no string raise what nobody expects.             *)
RepliesAreRead ==
    Replied("reply") =>
        LET body == input[2].body
            calls == body.calls
            whole == IF body.api = "responses" THEN body.status = "completed"
                     ELSE body.finish \in {"stop", "tool_calls"}
            unread == {i \in DOMAIN calls : ~IsRead(calls[i])}
            result == output[2]
        IN  /\ ~whole <=> result.outcome \in {"transient", "truncated", "failed"}
            /\ whole /\ input[2].tier = "tool_call" =>
                  /\ result.outcome = "items" <=> calls # <<>> /\ unread = {}
                  /\ result.outcome = "items" =>
                        result.items = FlattenSeq([i \in DOMAIN calls |-> calls[i].args.items])
                  /\ result.outcome = "raised" <=>
                        /\ unread # {}
                        /\ LET first == calls[Min(unread)] IN
                           first.name = ToolName /\ first.args.kind = "not a string"
            /\ whole /\ input[2].tier # "tool_call" =>
                  /\ result.outcome \in {"items", "rejected"}
                  /\ result.outcome = "items" =>
                        body.text.json.kind = "items" /\ result.items = body.text.json.items
                  /\ body.text.json.kind = "items" /\ body.text.wrapping \in {"bare", "fence", "words"} =>
                        result.outcome = "items"
=============================================================================
