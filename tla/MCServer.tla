------------------------------ MODULE MCServer ------------------------------
(* Small instances of Settings and RateLimiter for TLC.  They share no     *)
(* state: one of them runs in a behaviour, and the other stays as it       *)
(* begins.                                                                 *)
EXTENDS Settings, RateLimiter, TLC

CONSTANTS k, p1, p2

VARIABLE part

\* A key is given or kept; an unknown provider.
MCAsk == {[provider |-> "mock", key |-> k], [provider |-> "responses", key |-> Keep],
          [provider |-> "other", key |-> Keep]}

\* The file as copied from the template, and that of a server in use.
MCFile ==
    {[llm |-> [provider |-> "responses", key |-> NoKey],
      auth |-> [secret |-> NoSecret, pw |-> NoPassword, epoch |-> 1]],
     [llm |-> [provider |-> "mock", key |-> NoKey],
      auth |-> [secret |-> NoOne, pw |-> p1, epoch |-> 1]]}

MCInit ==
    /\ part \in {"settings", "limiter"}
    /\ Init /\ LimiterInit
    /\ part = "limiter" => file.auth.secret = NoSecret

MCNext ==
    \/ part = "settings" /\ Next /\ UNCHANGED <<part, limiterVars>>
    \/ part = "limiter" /\ LimiterNext /\ UNCHANGED <<part, vars>>

MCSpec == MCInit /\ [][MCNext]_<<part, vars, limiterVars>>

Symmetry == Permutations(Save) \cup Permutations(Cli) \cup Permutations(Caller)
=============================================================================
