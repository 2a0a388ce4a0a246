------------------------------- MODULE Rules -------------------------------
(***************************************************************************)
(* Validation rules of workflow inputs (internal/rule, and the part of     *)
(* internal/workflow that reads them from the comments of an input).       *)
(*                                                                         *)
(* A comment is what ParseValidationComment makes of its text: the word    *)
(* after the prefix ("" if there is none), the pattern after the colon,    *)
(* and, where a range is expected, what the text between the dashes reads  *)
(* as: {n} for the number n, {} for anything else.  A rule is a comment    *)
(* that parses.  What the standard library says of a value is in Facts.    *)
(***************************************************************************)
EXTENDS Integers, Sequences

CONSTANTS
  Facts,     \* of each value: [blank, length, number, prefixes, suffixes, matches]
  Patterns   \* the patterns regexp.Compile accepts

RuleTypes == {"regex", "range", "required", "prefix", "suffix", "length"}

Comment(type, pattern, parts) == [type |-> type, pattern |-> pattern, parts |-> parts]

The(number) == CHOOSE n \in number : TRUE

(* parseRange: two numbers in order.  A negative number has a dash of its   *)
(* own and is taken for a third part.                                       *)
IsRange(parts) ==
  /\ Len(parts) = 2
  /\ {} \notin {parts[1], parts[2]}
  /\ The(parts[1]) <= The(parts[2])

Malformed(comment) ==
  \/ comment.type = "regex" /\ comment.pattern \notin Patterns \ {""}
  \/ comment.type \in {"prefix", "suffix"} /\ comment.pattern = ""
  \/ comment.type \in {"range", "length"} /\ ~IsRange(comment.parts)

IsRule(comment) == comment.type \in RuleTypes

(* One malformed comment costs an input all its rules: Parse goes on to the *)
(* next input.                                                              *)
ParseValidationComments(comments) ==
  IF \E i \in DOMAIN comments : Malformed(comments[i]) THEN <<>>
  ELSE SelectSeq(comments, IsRule)

InRange(number, parts) == The(parts[1]) <= number /\ number <= The(parts[2])

(* Whether a value breaks a rule.  Only "required", "regex" and "length"    *)
(* have something to say about the empty value.                             *)
Breaks(value, r) ==
  LET fact == Facts[value]
  IN  CASE r.type = "required" -> fact.blank
        [] r.type = "regex"    -> r.pattern \notin fact.matches
        [] r.type = "length"   -> ~InRange(fact.length, r.parts)
        [] r.type = "range"    -> value # "" /\ ~\E n \in fact.number : InRange(n, r.parts)
        [] r.type = "prefix"   -> value # "" /\ r.pattern \notin fact.prefixes
        [] r.type = "suffix"   -> value # "" /\ r.pattern \notin fact.suffixes

(* ValidateValue: the rules the value breaks, each of which has a message.  *)
ValidateValue(value, rules) == {i \in DOMAIN rules : Breaks(value, rules[i])}
=============================================================================
