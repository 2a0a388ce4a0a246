--------------------------- MODULE MCHistoryStore ---------------------------
(***************************************************************************)
(* A history for TLC: a workflow with one input, and an old cache with an  *)
(* entry from before entries had a type, whose input has another name now. *)
(***************************************************************************)
EXTENDS HistoryStore

MCDefaultInputs  == [n \in {"env"} |-> Empty]
MCChainVariables == {[n \in {} |-> Empty]}
MCOldEntries ==
  <<[kind |-> "", inputs |-> [n \in {"target"} |-> "prod"], count |-> 2, shared |-> FALSE]>>
=============================================================================
