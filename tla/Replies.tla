------------------------------ MODULE Replies ------------------------------
(***************************************************************************)
(* How the two transports read the body of a reply: /responses (DeepSeek's *)
(* and OpenAI's) and /chat/completions.  What they find ends as the items  *)
(* of the extraction, or as the error by which it goes on: "rejected" (the *)
(* channel), "transient", "truncated", "failed"; "raised" is an exception  *)
(* nobody expects.                                                         *)
(*                                                                         *)
(* The JSON of a call or a text is [kind, items]: "items" is an object     *)
(* with such an array, "object" one without, "other" other JSON,           *)
(* "malformed" none, "none" nothing at all.  The arguments of a call may   *)
(* also not be a string.                                                   *)
(***************************************************************************)
EXTENDS Integers, Sequences, SequencesExt

ToolName == "submit_tasks"

Items(items) == [outcome |-> "items", items |-> items]
Error(outcome) == [outcome |-> outcome, items |-> <<>>]

\* One function call.  Arguments that are missing are those of an empty object;
\* json.loads raises a TypeError on what is no string.
ReadCall(call) ==
    IF call.name # ToolName THEN Error("rejected")
    ELSE IF call.args.kind = "not a string" THEN Error("raised")
    ELSE IF call.args.kind = "items" THEN Items(call.args.items)
    ELSE Error("rejected")

\* Faulty: what is read last is the result.
MergeLast(result, call) == IF result.outcome # "items" THEN result ELSE ReadCall(call)

\* The loop over the calls ends with the first that is no good.
Merge(result, call) ==
    IF result.outcome # "items" THEN result
    ELSE LET read == ReadCall(call) IN
         IF read.outcome = "items" THEN Items(result.items \o read.items) ELSE read

\* _parse_tool_call.
ParseToolCall(calls) ==
    IF calls = <<>> THEN Error("rejected") ELSE FoldLeft(Merge, Items(<<>>), calls)

\* loads_lenient: JSON is read bare, in a fence, among words and as the one
\* member of a list, for the text is tried from its first { to its last } too.
\* A fence that is all on one line is cut off with what it holds, and from the
\* first { to the last } several objects are not JSON.
LoadsLenient(text) ==
    IF text.wrapping \in {"fence on one line", "several objects"}
    THEN [kind |-> "malformed", items |-> <<>>]
    ELSE text.json

\* _parse_json.
ParseJson(text) ==
    IF LoadsLenient(text).kind = "items" THEN Items(LoadsLenient(text).items)
    ELSE Error("rejected")

\* _check_status of responses.py.
StatusError(body) ==
    CASE body.status = "failed" -> "transient"
      [] body.status = "incomplete" /\ body.reason = "max_output_tokens" -> "truncated"
      [] body.status = "incomplete" /\ body.reason # "max_output_tokens" -> "failed"
      [] OTHER -> "none"

\* _check_finish of chat.py.
FinishError(body) ==
    CASE body.finish = "length" -> "truncated"
      [] body.finish = "content_filter" -> "failed"
      [] body.finish = "insufficient_system_resource" -> "transient"
      [] OTHER -> "none"

\* parse_response of both.
ParseResponse(tier, body) ==
    LET error == IF body.api = "responses" THEN StatusError(body) ELSE FinishError(body) IN
    IF error # "none" THEN Error(error)
    ELSE IF tier = "tool_call" THEN ParseToolCall(body.calls)
    ELSE ParseJson(body.text)
=============================================================================
