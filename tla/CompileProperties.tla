------------------------- MODULE CompileProperties -------------------------
(* What must hold of a compile, between rounds and at its end. *)
EXTENDS Compile

\* The result never claims to know more than was reported of what the
\* provider really did: an exact bill is the whole bill; a bill that is
\* neither exact nor unknown has every prompt and output token counted, for a
\* rate table to price; and what is counted is a lower bound in any case
\* (_add_usage, and the rounds that return without it).
BillIsSound ==
  /\ result.exact => result.cost = meter.charged
  /\ ~result.exact /\ ~result.unknown =>
       /\ result.input + result.read + result.write = meter.prompt
       /\ result.output = meter.output
  /\ result.cost <= meter.charged
  /\ result.output <= meter.output /\ result.input <= meter.prompt

\* A reserve is priced for MaxRetries + 1 calls, one to an attempt: attempts
\* counts the calls, a callable that raises counts as one that was made, and
\* a refused credential as none.
AttemptsAreCalls ==
  /\ result.attempts <= MaxRetries + 1
  /\ \/ result.attempts = meter.calls
     \/ result.attempts = meter.calls + 1 /\ result.error /\ result.unknown
  /\ result.retries = IF result.attempts = 0 THEN 0 ELSE result.attempts - 1

\* A compile ends in one way, and a spec it returns passes both validators
\* as it is returned, normalized.
ResultIsUsable ==
  /\ result.spec # None => /\ result.spec \in Valid \cap Welcome
                           /\ ~result.error /\ ~result.notExpressible
  /\ ~(result.error /\ result.notExpressible)
=============================================================================
