------------------------------ MODULE MCPipeline -----------------------------
(* Instances of Pipeline for TLC. *)
EXTENDS Pipeline, FiniteSets

c(l) == [lsn |-> l, op |-> "change", ok |-> TRUE]
x(l) == [lsn |-> l, op |-> "change", ok |-> FALSE]
C(l) == [lsn |-> l, op |-> "commit", ok |-> TRUE]

\* Two transactions: in sequence; interleaved in the WAL (the second one
\* changed rows before the first committed); and with a message that does
\* not decode.
TwoTransactions ==
    { <<c(1), C(2), c(3), C(4)>>,
      <<c(2), C(3), c(1), C(4)>>,
      <<c(1), C(2), x(3), C(4)>> }

Interleaved == { <<c(2), C(3), c(1), C(4)>> }

OneTransaction == { <<c(1), C(2)>> }
==============================================================================
