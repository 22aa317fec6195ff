------------------------------- MODULE MCMetering -------------------------------
(* Instance of Metering for TLC: a canned answer to a question with an image, and *)
(* a generated answer whose cost is not a whole number of units.                  *)
EXTENDS Metering, TLC

MCUsages ==
  {[short |-> TRUE, embedded |-> FALSE, model |-> "text", input |-> 0, output |-> 0],
   [short |-> FALSE, embedded |-> TRUE, model |-> "text", input |-> 1, output |-> 1]}

MCRate == [m \in {"text", "embedding"} |-> [input |-> 1, output |-> 2]]

MCPeriods == {[from |-> 0, to |-> 0]}

MCSymmetry == Permutations(Turns)
=============================================================================
