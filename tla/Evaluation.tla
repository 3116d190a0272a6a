----------------------------- MODULE Evaluation -----------------------------
(***************************************************************************)
(* An algorithm of the product that is a function of its input is one      *)
(* step: it takes an input and leaves what it made of it.                  *)
(***************************************************************************)
CONSTANT Failed  \* the output of an evaluation that ends with an error
VARIABLE work  \* the evaluation: its task, its input and its output

Idle == [task |-> "none"]
Evaluate(task, input, output) ==
  work' = [task |-> task, input |-> input, output |-> output]
=============================================================================
