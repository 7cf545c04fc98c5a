------------------------- MODULE SerialApprovalProofs -------------------------
(* The properties of SerialApproval, for every document the agent may write.  *)
EXTENDS SerialApproval, TLAPS

-----------------------------------------------------------------------------
(* What approve_data_model does to any document, however many status lines it *)
(* has.                                                                      *)

(* Flipping the first line keeps a sequence of status lines one.             *)
LEMMA FlipFirstType ==
  ASSUME NEW s \in Seq(LineStatus)
  PROVE  /\ FlipFirst(s) \in Seq(LineStatus)
         /\ s # <<>> => FlipFirst(s) # <<>> /\ FlipFirst(s)[1] = "approved"
         /\ s = <<>> => FlipFirst(s) = <<>>
BY DEF FlipFirst, LineStatus

(* The new text is a document.                                              *)
LEMMA ApproveType ==
  ASSUME NEW d \in Doc
  PROVE  Approve(d) \in Doc
<1>1. FlipFirst(d.header) \in Seq(LineStatus) /\ FlipFirst(d.footer) \in Seq(LineStatus)
  BY FlipFirstType DEF Doc
<1>2. Append(FlipFirst(d.footer), "approved") \in Seq(LineStatus)
  BY <1>1 DEF LineStatus
<1>3. NewAudit(d) \in Nat
  BY DEF NewAudit, Doc
<1> QED BY <1>1, <1>2, <1>3 DEF Approve, Doc

(* approve_data_model works: a document with a status line of any kind reads *)
(* "approved" after the update.                                              *)
LEMMA ApproveApproves ==
  ASSUME NEW d \in Doc, HasStatusLine(d)
  PROVE  Approved(Approve(d))
<1> DEFINE a == Approve(d)
<1>1. a \in Doc /\ a # Missing
  BY ApproveType, MissingIsNoDoc
<1>2. CASE d.header # <<>>
  <2>1. a.header # <<>> /\ a.header[1] = "approved"
    BY <1>2, FlipFirstType DEF Approve, Doc
  <2> QED BY <1>1, <2>1 DEF Approved, ReadStatus
<1>3. CASE d.header = <<>>
  <2>1. a.header = <<>>
    BY <1>3, FlipFirstType DEF Approve, Doc
  <2>2. d.footer # <<>> /\ d.footer \in Seq(LineStatus)
    BY <1>3 DEF HasStatusLine, Doc
  <2>3. a.footer # <<>> /\ a.footer[1] = "approved"
    <3>1. /\ FlipFirst(d.footer) \in Seq(LineStatus)
          /\ FlipFirst(d.footer) # <<>>
          /\ FlipFirst(d.footer)[1] = "approved"
      BY <2>2, FlipFirstType
    <3>2. a.footer \in {FlipFirst(d.footer), Append(FlipFirst(d.footer), "approved")}
      BY DEF Approve
    <3> QED BY <3>1, <3>2 DEF LineStatus
  <2> QED BY <1>1, <2>1, <2>3 DEF Approved, ReadStatus
<1> QED BY <1>2, <1>3

-----------------------------------------------------------------------------
(* One audit block at most is not inductive: a second approval of a document  *)
(* without section 10 would add another one.  Only documents with a section  *)
(* carry one.                                                                *)
AuditInv == /\ doc \in Doc
            /\ OneAuditBlock
            /\ doc.audit = 1 => doc.section

(* A revision that resets status lines leaves a document.                    *)
LEMMA ReviseType ==
  ASSUME NEW d \in Doc, NEW b \in Bodies, NEW h \in BOOLEAN, NEW f \in BOOLEAN,
         NEW e, e = [d EXCEPT !.body = b,
            !.header = IF h THEN [i \in DOMAIN @ |-> "pending"] ELSE @,
            !.footer = IF f THEN [i \in DOMAIN @ |-> "pending"] ELSE @]
  PROVE  e \in Doc /\ e.audit = d.audit /\ e.section = d.section
<1>1. ASSUME NEW s \in Seq(LineStatus)
      PROVE  [i \in DOMAIN s |-> "pending"] \in Seq(LineStatus)
  BY DEF LineStatus
<1>2. [i \in DOMAIN d.header |-> "pending"] \in Seq(LineStatus)
  BY <1>1 DEF Doc
<1>3. [i \in DOMAIN d.footer |-> "pending"] \in Seq(LineStatus)
  BY <1>1 DEF Doc
<1> QED BY <1>2, <1>3 DEF Doc

(* The audit invariant holds of every history of approvals and revisions.    *)
LEMMA AuditInductive == Spec => []AuditInv
<1>1. Init => AuditInv
  BY FirstDocsUnaudited DEF Init, AuditInv, OneAuditBlock
<1>2. AuditInv /\ [Next]_vars => AuditInv'
  <2> SUFFICES ASSUME AuditInv, [Next]_vars PROVE AuditInv'
    OBVIOUS
  <2>1. CASE ApproveModel
    <3>1. doc' \in Doc
      BY <2>1, ApproveType DEF ApproveModel, AuditInv
    <3>2. doc'.audit = 1 /\ doc'.section
      BY <2>1 DEF ApproveModel, AuditInv, OneAuditBlock, Approve, NewAudit, Doc
    <3> QED BY <3>1, <3>2 DEF AuditInv, OneAuditBlock
  <2>2. CASE Revise
    <3>1. doc' \in Doc /\ doc'.audit = doc.audit /\ doc'.section = doc.section
      BY <2>2, ReviseType DEF Revise, AuditInv
    <3> QED BY <3>1 DEF AuditInv, OneAuditBlock
  <2>3. CASE UNCHANGED vars
    BY <2>3 DEF vars, AuditInv, OneAuditBlock
  <2> QED BY <2>1, <2>2, <2>3 DEF Next
<1> QED BY <1>1, <1>2, PTL DEF Spec

(* approve_data_model never leaves two audit blocks, whatever was revised in  *)
(* between.                                                                  *)
THEOREM AtMostOneAuditBlock == Spec => []OneAuditBlock
BY AuditInductive, PTL DEF AuditInv

(* A call of approve_data_model that writes leaves a document that reads      *)
(* "approved" in the header and in the footer.                               *)
THEOREM ApprovalTakesEffect == Spec => ApproveTakesEffect
<1>1. AuditInv /\ [Next]_vars
        => [ApproveModel => /\ Approved(doc')
                            /\ doc'.footer # <<>> => doc'.footer[1] = "approved"]_vars
  <2> SUFFICES ASSUME AuditInv, ApproveModel
               PROVE  /\ Approved(doc')
                      /\ doc'.footer # <<>> => doc'.footer[1] = "approved"
    OBVIOUS
  <2>1. doc \in Doc /\ HasStatusLine(doc) /\ doc' = Approve(doc)
    BY DEF AuditInv, ApproveModel
  <2>2. Approved(doc')
    BY <2>1, ApproveApproves
  <2>3. ASSUME doc'.footer # <<>> PROVE doc'.footer[1] = "approved"
    <3> DEFINE flipped == FlipFirst(doc.footer)
    <3>1. /\ flipped \in Seq(LineStatus)
          /\ doc.footer # <<>> => flipped # <<>> /\ flipped[1] = "approved"
          /\ doc.footer = <<>> => flipped = <<>>
      BY <2>1, FlipFirstType DEF Doc
    <3>2. doc'.footer = IF doc.section THEN flipped ELSE Append(flipped, "approved")
      BY <2>1 DEF Approve
    <3> HIDE DEF flipped
    <3> QED BY <2>3, <3>1, <3>2 DEF LineStatus
  <2> QED BY <2>2, <2>3
<1> QED BY <1>1, AuditInductive, PTL DEF Spec, ApproveTakesEffect
=============================================================================
