------------------------------ MODULE MCModals ------------------------------
EXTENDS Modals, TLC

MCTexts == {"", "a", "ab", "b"}
MCFacts ==
  [v \in MCTexts |-> [blank |-> v = "", length |-> IF v = "" THEN 0 ELSE IF v = "ab" THEN 2 ELSE 1,
                      number |-> {}, prefixes |-> IF v = "b" THEN {"b"} ELSE {"a"},
                      suffixes |-> {}, matches |-> {}]]

MCBranches == <<"main", "dev", "fix", "old", "abc">>
MCRanking == [t \in MCTexts |->
                CASE t = "a" -> <<"abc", "main">> [] t = "ab" -> <<"abc">> [] OTHER -> <<>>]

Rule(type, pattern, parts) == Comment(type, pattern, parts)

MCInputs ==
  {[type |-> "string", options |-> {}, default |-> d, current |-> c,
    rules |-> <<Rule("required", "", <<>>), Rule("prefix", "a", <<>>),
                Rule("length", "", <<{0}, {1}>>)>>] : d \in {"", "a"}, c \in {"", "b"}}

MCSelectForms ==
  {[options |-> o, default |-> "x", current |-> c] :
     o \in {<<>>, <<"y", "x", "z">>}, c \in {"", "z", "gone"}}

MCBranchForms ==
  {[branches |-> MCBranches, current |-> c, default |-> d, height |-> 4] :
     c \in {"", "fix"}, d \in {"", "main", "trunk"}}

Variable(name, type, options, default, required) ==
  [name |-> name, type |-> type, options |-> options, default |-> default, required |-> required]

MCVariables ==
  {<<Variable("ref", "string", <<>>, d, TRUE), Variable("dry", "boolean", <<>>, "false", FALSE),
     Variable("env", "choice", o, "", TRUE)>> : d \in {"", "a"}, o \in {<<>>, <<"qa", "prod">>}}

MCLiveRuns == {<<>>, <<1, 2>>}

Entry(level, text) == [level |-> level, content |-> text]

(* The content says which of the terms are in it, and in which case. *)
MCRunLogs ==
  {<<<<Entry("info", "x"), Entry("error", "X")>>,
     <<Entry("warning", "xX")>>,
     <<Entry("error", "none"), Entry("debug", "x"), Entry("info", "X")>>>>,
   <<<<Entry("info", "none")>>>>, <<>>}

MCTermsIn ==
  [sensitive \in BOOLEAN |->
     [x |-> {"x"} \cup (IF sensitive THEN {} ELSE {"X"}), X |-> {"X"} \cup (IF sensitive THEN {} ELSE {"x"}),
      xX |-> {"x", "X"}, none |-> {}]]
=============================================================================
