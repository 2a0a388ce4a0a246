--------------------------- MODULE MCWorkflowForm ---------------------------
EXTENDS WorkflowForm

MCValues == {"", "v"}

MCFacts ==
  [v \in MCValues |-> [blank |-> v = "", length |-> IF v = "" THEN 0 ELSE 1, number |-> {},
                       prefixes |-> {v}, suffixes |-> {v}, matches |-> {}]]

(* A text with a default, and one that must be given and be of one letter. *)
MCWorkflows ==
  << [order |-> <<"name", "note">>,
      inputs |-> [name |-> [type |-> "string", default |-> "v", options |-> {},
                            comments |-> <<Comment("prefix", "v", <<>>)>>],
                  note |-> [type |-> "string", default |-> "", options |-> {},
                            comments |-> <<Comment("required", "", <<>>),
                                           Comment("length", "", <<{1}, {3}>>)>>]]] >>

(* A run from when there was an input "memo", and one that was started with *)
(* a value missing.                                                         *)
Old == [branch |-> "", inputs |-> [name |-> "v", note |-> "v", memo |-> "v"]]
Bad == [branch |-> "", inputs |-> [name |-> "v", note |-> ""]]

MCHistories == << {<<>>, <<Old, Bad>>} >>
MCRanking   == ("" :> <<>>) @@ ("o" :> <<"note">>)
MCBestMatch == [memo |-> "note"]
MCKeys == {"esc", "tab", "up", "down", "enter", "b", "/", "c", "r", "right", "a", "e", "2", "w"}

=============================================================================
