------------------------------- MODULE MCData -------------------------------
(* Small instances of Courses and Rules for TLC.  They share no state: one *)
(* of them runs in a behaviour, and the other stays as it begins.          *)
EXTENDS Courses, Rules

VARIABLE part

-----------------------------------------------------------------------------
(* The timetable.                                                          *)

N(n) == Word("name", n, 0)
D(n) == Word("day", n, 0)
T(n) == Word("time", 100 * n, 100 * n + 140)
W(a, b) == Word("weeks", a, b)
P(n) == Word("parity", n, 0)
Bar == Word("bar", 0, 0)

Lines(lines) == [form |-> "text", text |-> lines]

MCSession(day, first, last, location) ==
    [weekday |-> day, start |-> 800, end |-> 940, parity |-> Even, first |-> first, last |-> last,
     location |-> location]

\* Two lines of one course, out of order, the second with all that a line may
\* leave out, around another course; a name of two words between bars; a time
\* that ends before it begins, and one that is none; weeks out of order instead
\* of a name and beside one; nothing; only a comment; arrays with a course
\* without sessions, with weeks out of order, and with a room for one session,
\* in which there is a bar.
MCPut ==
    {Lines(<< <<D(3), T(8), N(1), N(9), W(1, 16), P(Odd)>>,
             <<Word("comment", 0, 0), N(1)>>, <<>>,
             <<D(1), T(9), N(2), W(5, 5)>>,
             <<D(1), T(8), N(1)>> >>),
     Lines(<< <<D(2), T(8), Bar, N(1), N(2), Bar, Bar, N(9)>> >>),
     Lines(<< <<D(2), T(8), N(1)>>, <<D(2), Word("time", 900, 840), N(1)>> >>),
     Lines(<< <<D(2), Word("time", 2300, 2440), N(1)>> >>),
     Lines(<< <<D(2), T(8), W(16, 1)>> >>),
     Lines(<< <<D(2), T(8), N(1), W(16, 1)>> >>),
     Lines(<< <<>> >>),
     Lines(<< <<Word("comment", 0, 0)>> >>),
     [form |-> "courses", courses |-> <<>>],
     [form |-> "courses", courses |->
        <<[name |-> <<N(1)>>, location |-> <<>>, sessions |-> <<>>],
          [name |-> <<N(2)>>, location |-> <<N(9)>>, sessions |-> <<MCSession(1, 16, 1, <<>>)>>]>>],
     [form |-> "courses", courses |->
        <<[name |-> <<N(1)>>, location |-> <<>>,
           sessions |-> <<MCSession(2, 1, 9, <<N(9), Bar, N(8)>>), MCSession(1, 1, 9, <<>>)>>]>>],
     [form |-> "neither"]}

\* A name with a bar, in weeks of its own.
MCBarPut ==
    {[form |-> "courses", courses |->
        <<[name |-> <<N(1), Bar, N(2)>>, location |-> <<>>,
           sessions |-> <<MCSession(1, 5, 6, <<>>)>>]>>]}

-----------------------------------------------------------------------------
(* The rules.                                                              *)

\* Cookies of this secret and epoch, of an older one of each, expired, and none.
MCCookies ==
    {[parts |-> 3, epoch |-> e, expiry |-> t, signed |-> s] : e \in 1..2, t \in {4, 5}, s \in {"s1", "s2"}}
    \cup {NoToken}

MCShown ==
    {<<"none", NoValue>>, <<"bearer", NoValue>>}
    \cup ({"bearer", "bare", "basic"} \X DOMAIN Keys)

MCRequests ==
    {[endpoint |-> e, secret |-> "s2", epoch |-> 2, now |-> 5,
      request |-> [scheme |-> h[1], bearer |-> h[2], direct |-> d, cookie |-> c, csrf |-> f]] :
        e \in {"read", "write", "session", "session_write"}, h \in MCShown,
        d \in DOMAIN Keys \cup {NoValue}, c \in MCCookies, f \in {NoValue, "s1", "s2"}}

MCPriorities ==
    {[kind |-> k, value |-> 0, exact |-> FALSE] : k \in {"empty", "unparsable", "infinite"}}
    \cup {[kind |-> "number", value |-> n, exact |-> x] : n \in {-2, 1, 4, 9}, x \in BOOLEAN}

MCDues == {[kind |-> k, at |-> 0] : k \in {"empty", "unparsable", "overflows"}} \cup {[kind |-> "moment", at |-> 7]}

MCItems == {[object |-> TRUE, title |-> t, category |-> c, due |-> d, priority |-> p] :
              t \in {"", "x"}, c \in {"", "exam", "party"}, d \in MCDues, p \in MCPriorities}

\* What the sequences are made of: what is dropped, kept and overflows.
MCFew ==
    {NotAnObject}
    \cup {r \in MCItems : /\ r.category = "exam"
                          /\ r.priority.kind = "number" => r.priority.value = 4 /\ r.priority.exact
                          /\ r.priority.kind # "unparsable" /\ r.due.kind \in {"empty", "moment"}}

MCRaws == {<<>>} \cup {<<r>> : r \in MCItems} \cup UNION {[1..n -> MCFew] : n \in 2..3}

MCSessionsAt(hours) ==
    {[weekday |-> d, start |-> h[1], end |-> h[2], parity |-> p, first |-> w[1], last |-> w[2]] :
        d \in 1..7, h \in hours, p \in {"all", "odd", "even"},
        w \in {<<1, 1>>, <<2, 2>>, <<1, 9>>, <<2, 1>>}}

MCSessions == MCSessionsAt({<<600, 660>>, <<-1, 660>>, <<700, 680>>})

\* For the minutes around midnight; the last one ends after it.
MCEvening == MCSessionsAt({<<600, 660>>, <<-1, 660>>, <<1380, 1430>>, <<1380, 30>>})

MCMoments ==
    {[monday |-> 1, day |-> d, minute |-> t, total |-> 2, sessions |-> {s}] :
        d \in -1..14, t \in {539, 540, 600, 660, 661, 720, 721, 741}, s \in MCSessions}
    \cup {[monday |-> 3, day |-> d, minute |-> 661, total |-> 2, sessions |-> {s}] :
            d \in {-1, 0, 6, 11, 14}, s \in MCSessions}
    \cup {[monday |-> 1, day |-> 7, minute |-> 610, total |-> 2, sessions |-> {a, b}] :
            a \in {s \in MCSessions : s.weekday = 1}, b \in {s \in MCSessions : s.weekday \in 1..2}}
    \cup {[monday |-> 1, day |-> d, minute |-> t, total |-> 2, sessions |-> {s}] :
            d \in {0, 1, 6, 7}, t \in {20, 1200, 1439}, s \in MCEvening}

MCArgs ==
    {[kind |-> "items", items |-> i] : i \in {<<>>, <<1>>, <<2, 3>>}}
    \cup {[kind |-> k, items |-> <<>>] : k \in {"object", "other", "malformed", "not a string"}}

MCCalls ==
    {[name |-> n, args |-> a] : n \in {ToolName}, a \in MCArgs}
    \cup {[name |-> "other", args |-> a] : a \in {b \in MCArgs : b.items # <<>>}}

MCTexts ==
    {[wrapping |-> w, json |-> j] :
        w \in {"bare", "fence", "words", "list of one", "fence on one line", "several objects"},
        j \in {a \in MCArgs : a.kind # "not a string"} \cup {[kind |-> "none", items |-> <<>>]}}

MCContents ==
    {<<"tool_call", cs, [wrapping |-> "bare", json |-> [kind |-> "none", items |-> <<>>]]>> :
        cs \in UNION {[1..n -> MCCalls] : n \in 0..3}}
    \cup {<<"json", <<>>, t>> : t \in MCTexts}

MCBodies ==
    {[tier |-> c[1],
      body |-> [api |-> "responses", status |-> s[1], reason |-> s[2], calls |-> c[2], text |-> c[3]]] :
        c \in MCContents,
        s \in {<<"completed", NoValue>>, <<"failed", NoValue>>,
               <<"incomplete", "max_output_tokens">>, <<"incomplete", "content_filter">>}}
    \cup
    {[tier |-> c[1], body |-> [api |-> "chat", finish |-> f, calls |-> c[2], text |-> c[3]]] :
        c \in MCContents,
        f \in {"stop", "tool_calls", "length", "content_filter", "insufficient_system_resource"}}
-----------------------------------------------------------------------------
MCInit ==
    /\ part \in {"courses", "rules"}
    /\ Init
    /\ IF part = "rules" THEN RulesInit ELSE input = NoAnswer /\ output = NoAnswer

MCNext ==
    \/ part = "courses" /\ Next /\ UNCHANGED <<part, rulesVars>>
    \/ part = "rules" /\ RulesNext /\ UNCHANGED <<part, vars>>

MCSpec == MCInit /\ [][MCNext]_<<part, vars, rulesVars>>

Symmetry == Permutations(Req)
=============================================================================
