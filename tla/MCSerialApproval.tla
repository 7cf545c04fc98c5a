--------------------------- MODULE MCSerialApproval ---------------------------
(* Documents with up to two header and two footer lines in every combination. *)
EXTENDS SerialApproval, SequencesExt

MCFirstDocs ==
  {[header |-> h, footer |-> f, section |-> s, audit |-> 0, body |-> b] :
     h \in BoundedSeq(LineStatus, 2), f \in BoundedSeq(LineStatus, 2),
     s \in BOOLEAN, b \in Bodies}
=============================================================================
