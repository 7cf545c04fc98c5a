---------------------------- MODULE MCApprovalFlow ----------------------------
(* A pending, an approved and a status-less document of the agent, and a     *)
(* second pending one with another body.                                     *)
EXTENDS ApprovalFlow

CONSTANTS b1, b2

Draft(status, b) == [header |-> <<status>>, footer |-> <<status>>,
                     section |-> TRUE, audit |-> 0, body |-> b]

FourDocs == {Draft("pending", b1), Draft("pending", b2), Draft("approved", b1),
             [EmptyDoc EXCEPT !.body = b1]}
TwoDocs == {Draft("pending", b1), Draft("approved", b2)}
=============================================================================
