------------------------------ MODULE Compile ------------------------------
(***************************************************************************)
(* The loop of both model compilers (nlbuilder/compiler.py,                *)
(* screen/compiler.py) over the callable of model.py: at most              *)
(* MaxRetries + 1 rounds, each one call that may be billed, whatever       *)
(* becomes of it.  `meter` is what the provider really did; the compiler   *)
(* only sees what the responses report.                                    *)
(***************************************************************************)
EXTENDS Absent, Integers

CONSTANTS
  Bodies,      \* arrived responses: what was used, and what each field reports
  Charges,     \* what an unanswered call may have cost
  Candidates,  \* the specs a model may send
  Valid,       \* those the validator passes
  Normalized,  \* candidate_normalizer
  Welcome,     \* those candidate_validator passes
  MaxRetries

VARIABLES
  result,    \* the CompileResult
  evidence,  \* the _AggregateBillingEvidence, None before the first reply
  meter      \* the provider: calls, charged, and prompt and output tokens

vars == <<result, evidence, meter>>

Reported == Nat \cup {None}  \* None: absent where required, or invalid

\* A valid prompt or output count, and a valid cost, is what the provider
\* used and charged; the cache counts may be any, also more than the prompt.
ASSUME BodyAssumption ==
  /\ Bodies \subseteq [usedPrompt : Nat, usedOutput : Nat, charged : Nat, cost : Reported,
                       prompt : Reported, output : Reported, read : Reported, write : Reported]
  /\ \A b \in Bodies : /\ b.cost \in {None, b.charged}
                       /\ b.prompt \in {None, b.usedPrompt}
                       /\ b.output \in {None, b.usedOutput}

ASSUME CompileAssumption ==
  /\ None \notin Nat /\ None \notin Candidates
  /\ None \notin [provider : BOOLEAN, table : BOOLEAN, uncertain : BOOLEAN]
  /\ Charges \subseteq Nat /\ MaxRetries \in Nat
  /\ Valid \subseteq Candidates /\ Welcome \subseteq Candidates
  /\ Normalized \in [Candidates -> Candidates]

Counted(field) == IF field = None THEN 0 ELSE field

\* An arrived response, read for its bill (_billing_evidence).  In a reply,
\* exact is cost_from_provider, table is rate_table_complete, unknown is spend_unknown.
SubsetsValid(b) ==
  /\ None \notin {b.prompt, b.read, b.write}
  /\ Counted(b.read) + Counted(b.write) <= Counted(b.prompt)
CountersComplete(b) == b.output # None /\ SubsetsValid(b)
Uncached(b) ==
  IF SubsetsValid(b) THEN Counted(b.prompt) - Counted(b.read) - Counted(b.write) ELSE 0
Arrived(b) ==
  [input |-> Uncached(b), output |-> Counted(b.output),
   read |-> Counted(b.read), write |-> Counted(b.write), cost |-> Counted(b.cost),
   exact |-> b.cost # None, table |-> CountersComplete(b),
   unknown |-> b.cost = None /\ ~CountersComplete(b)]

\* Nothing arrived; the provider may have taken the call.
Lost == [input |-> 0, output |-> 0, read |-> 0, write |-> 0, cost |-> 0,
         exact |-> FALSE, table |-> FALSE, unknown |-> TRUE]

\* Mutant: delivery uncertainty is all that is kept of earlier replies.
JoinedNewest(reply) ==
  [provider |-> reply.exact, table |-> reply.table,
   uncertain |-> reply.unknown \/ (evidence # None /\ evidence.uncertain)]

\* Settlement bases shared by every attempted response so far.
Joined(reply) ==
  IF evidence = None
  THEN [provider |-> reply.exact, table |-> reply.table, uncertain |-> reply.unknown]
  ELSE [provider  |-> evidence.provider /\ reply.exact,
        table     |-> evidence.table /\ reply.table,
        uncertain |-> evidence.uncertain \/ reply.unknown]

\* The round's count, and the reply's usage and bill.  (_add_usage)
Called == [result EXCEPT !.attempts = @ + 1, !.retries = result.attempts]
Billed(reply) ==
  LET basis == Joined(reply) IN
  [Called EXCEPT !.input = @ + reply.input, !.output = @ + reply.output,
                 !.read = @ + reply.read, !.write = @ + reply.write, !.cost = @ + reply.cost,
                 !.exact = basis.provider /\ ~basis.uncertain,
                 !.unknown = basis.uncertain \/ ~(basis.provider \/ basis.table)]

Done == result.spec # None \/ result.error \/ result.notExpressible

Metered(calls, charge, prompt, output) ==
  meter' = [calls |-> meter.calls + calls, charged |-> meter.charged + charge,
            prompt |-> meter.prompt + prompt, output |-> meter.output + output]

Init ==
  /\ result = [attempts |-> 0, retries |-> 0, input |-> 0, output |-> 0, read |-> 0, write |-> 0,
               cost |-> 0, exact |-> FALSE, unknown |-> FALSE,
               spec |-> None, error |-> FALSE, notExpressible |-> FALSE]
  /\ evidence = None
  /\ meter = [calls |-> 0, charged |-> 0, prompt |-> 0, output |-> 0]

\* Mutant: a round without a call counts.
UncountedStill == [result EXCEPT !.attempts = @ + 1, !.retries = result.attempts]

\* The result of a round without a call.
Uncounted ==
  [result EXCEPT !.retries = IF result.attempts = 0 THEN 0 ELSE result.attempts - 1]

\* The key is read at each call, and without one nothing is sent.
Refused ==
  /\ ~Done
  /\ result' = [Uncounted EXCEPT !.error = TRUE]
  /\ UNCHANGED <<evidence, meter>>

\* A callable of the caller's raises, before or after it sent anything.
Raised ==
  /\ ~Done
  /\ \/ Metered(0, 0, 0, 0)
     \/ \E charge \in Charges : Metered(1, charge, 0, 0)
  /\ result' = [Called EXCEPT !.error = TRUE, !.exact = FALSE, !.unknown = TRUE]
  /\ UNCHANGED evidence

\* The transport fails.
NotDelivered ==
  /\ ~Done
  /\ \E charge \in Charges : Metered(1, charge, 0, 0)
  /\ result' = [Billed(Lost) EXCEPT !.error = TRUE]
  /\ evidence' = Joined(Lost)

\* A response arrives; it is billed before it is read.
Response(b) ==
  /\ ~Done
  /\ Metered(1, b.charged, b.usedPrompt, b.usedOutput)
  /\ evidence' = Joined(Arrived(b))

\* An HTTP failure, or a body without readable content.
Failed ==
  \E b \in Bodies :
    /\ Response(b)
    /\ result' = [Billed(Arrived(b)) EXCEPT !.error = TRUE]

Inexpressible ==
  \E b \in Bodies :
    /\ Response(b)
    /\ result' = [Billed(Arrived(b)) EXCEPT !.notExpressible = TRUE]

\* Nothing to accept: the reply is asked for again, in the last round given up.
Retried(billed) ==
  [billed EXCEPT !.notExpressible = billed.attempts = MaxRetries + 1]

\* Not one JSON object; in the screen compiler also one that was cut off.
Unreadable ==
  \E b \in Bodies :
    /\ Response(b)
    /\ result' = Retried(Billed(Arrived(b)))

\* Mutant: what the normalizer made of a valid spec is not validated again.
PassesOnce(c) == c \in Valid /\ Normalized[c] \in Welcome

\* Validated, normalized, validated again, and put to the caller.
Passes(c) == c \in Valid /\ Normalized[c] \in Valid /\ Normalized[c] \in Welcome

Answered ==
  \E b \in Bodies, c \in Candidates :
    /\ Response(b)
    /\ result' = IF Passes(c) THEN [Billed(Arrived(b)) EXCEPT !.spec = Normalized[c]]
                 ELSE Retried(Billed(Arrived(b)))

Returned == Done /\ UNCHANGED vars

Next ==
  \/ Refused \/ Raised \/ NotDelivered \/ Failed
  \/ Inexpressible \/ Unreadable \/ Answered \/ Returned

Spec == Init /\ [][Next]_vars
=============================================================================
