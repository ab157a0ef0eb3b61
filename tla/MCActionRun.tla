----------------------------- MODULE MCActionRun -----------------------------
(***************************************************************************)
(* The instance of ActionRun for TLC: a rule with a guard on its own event *)
(* k, a command with two retries and both kinds of sub-actions, emits      *)
(* with and without the guard's kind, and an action without a handler.     *)
(***************************************************************************)
EXTENDS ActionRun

CONSTANTS k, m

MCConditions ==
    <<[type |-> "payload", holds |-> TRUE], [type |-> "count", kind |-> k, below |-> 1],
      [type |-> "shell"], [type |-> "count", kind |-> m, below |-> 3]>>

Do(emits, retries, on_success, on_failure) ==
    [known |-> TRUE, emits |-> emits, retries |-> retries,
     on_success |-> on_success, on_failure |-> on_failure]

MCActions ==
    <<Do(m, 0, <<>>, <<>>), Do(None, 2, <<k>>, <<m, k>>), Do(k, 1, <<m>>, <<>>),
      [Do(None, 1, <<>>, <<k>>) EXCEPT !.known = FALSE]>>
=============================================================================
