----------------------------- MODULE MCBatchDml -----------------------------
(* BatchDml for TLC. *)
EXTENDS BatchDml, TLC

Symmetry == Permutations(Keys) \cup Permutations(Vals)

(* The state without the last reply, which no action reads.  It suffices for
   invariants that do not look at the reply; action properties are evaluated
   on every step, with the reply of that step. *)
WithoutReply ==
    <<dml_in_batch, batch_state, appenders, trx, aborted, base, committed>>
=============================================================================
