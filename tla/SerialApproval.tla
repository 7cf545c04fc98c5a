---------------------------- MODULE SerialApproval ----------------------------
(***************************************************************************)
(* approve_data_model called by one process at a time, with the agent        *)
(* revising the document between the calls: what the function does to a      *)
(* document, over a whole history of approvals and revisions.  The calls     *)
(* that overlap are the subject of ApprovalFlow.                             *)
(***************************************************************************)
EXTENDS DataModel

CONSTANT FirstDocs      \* the documents the agent may write first

ASSUME FirstDocsUnaudited == \A d \in FirstDocs : d \in Doc /\ d.audit = 0

VARIABLE doc

vars == <<doc>>

Init == doc \in FirstDocs

(* One whole call: raise without a status line, return when approved, else  *)
(* write the updated text.                                                   *)
ApproveModel == /\ HasStatusLine(doc)
                /\ ~Approved(doc)
                /\ doc' = Approve(doc)

(* External: the agent revises the model.  It sets status lines back to      *)
(* pending and may change the body; the rest of section 10 stays.            *)
Revise == \E b \in Bodies, h, f \in BOOLEAN :
  doc' = [doc EXCEPT !.body = b,
                     !.header = IF h THEN [i \in DOMAIN @ |-> "pending"] ELSE @,
                     !.footer = IF f THEN [i \in DOMAIN @ |-> "pending"] ELSE @]

Next == ApproveModel \/ Revise

Spec == Init /\ [][Next]_vars

-----------------------------------------------------------------------------
(* A call that writes makes every reader see "approved", whichever of the   *)
(* status lines the document has and whatever they said: the substitutions   *)
(* and the search that reads the status back use different orders (approval.py *)
(* updates header and footer, session.py prefers the header).                *)
ApproveTakesEffect ==
  [][ApproveModel => /\ Approved(doc')
                     /\ doc'.footer # <<>> => doc'.footer[1] = "approved"]_vars

(* However often a model is revised and approved again, it never carries two *)
(* "Approved by / Approved at" blocks that contradict each other.            *)
OneAuditBlock == doc.audit \in 0..1
=============================================================================
