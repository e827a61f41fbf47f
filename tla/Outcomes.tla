------------------------------ MODULE Outcomes ------------------------------
(* A call that can fail is the set of the states it can end in, each a       *)
(* record with a field err; steps of a call are chained until one fails.     *)

Failed(x) == [x EXCEPT !.err = TRUE]

\* op is done unless an earlier step of the call has failed.
Then(S, op(_)) == UNION {IF x.err THEN {x} ELSE op(x) : x \in S}
=============================================================================
