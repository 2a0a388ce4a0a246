------------------------------- MODULE Modals -------------------------------
(***************************************************************************)
(* What is on the modal stack: a modal that asks for something, or the     *)
(* viewer of logs.  The keys go to it until it is done.                    *)
(***************************************************************************)
EXTENDS AnswerModals, LogsViewer

vars == <<modalVars, viewerVars>>

Init ==
  \/ OpensModal /\ NoViewer
  \/ modal = NoModal /\ answer = NoAnswer /\ OpensViewer

Next ==
  \/ UpdateModal /\ UNCHANGED viewerVars
  \/ UpdateViewer /\ UNCHANGED modalVars

Spec == Init /\ [][Next]_vars

----------------------------------------------------------------------------
(* Properties *)

Bounds(size) == 1..(IF size = 0 THEN 1 ELSE size)

(* Cursors stay within their lists, also when a filter shortens them, and   *)
(* the viewport stays within its content.                                   *)
TypeOK ==
  /\ modal.kind = "select" => modal.selected \in Bounds(Len(modal.options))
  /\ modal.kind = "live" => modal.selected \in Bounds(Len(modal.runs))
  /\ modal.kind = "validation" => modal.selected \in Bounds(modal.count)
  /\ modal.kind = "variables" => modal.selected \in DOMAIN modal.asks
  /\ modal.kind = "branch" =>
       /\ modal.selected \in Bounds(Len(modal.filtered))
       /\ modal.top \in Bounds(Len(modal.filtered))
  /\ ViewerTypeOK

(* A value that breaks rules is taken only after a warning that is about    *)
(* this value, and no warning is left over for a value that was put right,  *)
(* whatever was typed, restored or escaped from in between.  The variables  *)
(* of a chain are sent only when all that are required are given, also      *)
(* those further up that were emptied again.                                *)
AnswersAreChecked ==
  [][/\ modal.kind = "input" /\ answer'.kind = "input" =>
          modal.validationErr = Validate(modal.asks, answer'.value)
     /\ modal.kind = "variables" /\ answer'.kind = "variables" =>
          \/ answer'.canceled
          \/ \A i \in DOMAIN modal.asks :
               modal.asks[i].required => answer'.values[modal.asks[i].name] # ""]_vars
=============================================================================
