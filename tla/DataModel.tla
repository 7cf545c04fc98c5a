------------------------------ MODULE DataModel ------------------------------
(***************************************************************************)
(* outputs/data-model.md as the Python code sees it.  The code never parses *)
(* the document: it looks for approval status lines with two regular        *)
(* expressions (a header form and a footer form), for the heading of section *)
(* 10 and for audit lines.  A document is therefore the sequence of its     *)
(* header status lines, the sequence of its footer status lines, whether    *)
(* section 10 is there, how many audit blocks it holds, and a body that     *)
(* stands for all the rest.                                                 *)
(***************************************************************************)
EXTENDS Naturals, Sequences

CONSTANTS Bodies,    \* the contents a data model may have, the status apart
          NoBody,    \* the content of a file that was truncated to nothing
          Missing    \* there is no data-model.md

LineStatus == {"approved", "pending"}

Doc == [header  : Seq(LineStatus),
        footer  : Seq(LineStatus),
        section : BOOLEAN,
        audit   : Nat,
        body    : Bodies \cup {NoBody}]

ASSUME MissingIsNoDoc == Missing \notin Doc

(* What open(..., "w") leaves before the new text is written. *)
EmptyDoc == [header |-> <<>>, footer |-> <<>>, section |-> FALSE,
             audit |-> 0, body |-> NoBody]

-----------------------------------------------------------------------------
(* The two searches before an update: is there a line to update at all?  *)
HasStatusLine(d) == d.header # <<>> \/ d.footer # <<>>

(* The header line wins over the footer line; of several, the first counts. *)
ReadStatus(f) ==
  IF f = Missing THEN "missing"
  ELSE IF f.header # <<>> THEN f.header[1]
  ELSE IF f.footer # <<>> THEN f.footer[1]
  ELSE "unknown"

Approved(f) == ReadStatus(f) = "approved"

(* Mutant: plan mode only while the model is pending. *)
SendModeUnlessPending(f) == IF ReadStatus(f) = "pending" THEN "plan" ELSE "agent"

(* The mode of the next message to the agent. *)
SendMode(f) == IF Approved(f) THEN "agent" ELSE "plan"

(* Mutant: the last line is rewritten. *)
FlipLast(lines) ==
  IF lines = <<>> THEN lines ELSE [lines EXCEPT ![Len(lines)] = "approved"]

(* re.sub(..., count=1): only the first line is rewritten. *)
FlipFirst(lines) ==
  IF lines = <<>> THEN lines ELSE [lines EXCEPT ![1] = "approved"]

(* Mutant: the older audit blocks are not stripped. *)
NewAuditKeepingOld(d) == d.audit + 1

(* In a document with section 10 every older audit block is stripped and    *)
(* one is appended; otherwise a whole section 10 is appended.               *)
NewAudit(d) == IF d.section THEN 1 ELSE d.audit + 1

(* The text that approve_data_model writes for the text d it has read. *)
Approve(d) ==
  [header  |-> FlipFirst(d.header),
   footer  |-> IF d.section THEN FlipFirst(d.footer)
               ELSE Append(FlipFirst(d.footer), "approved"),
   section |-> TRUE,
   audit   |-> NewAudit(d),
   body    |-> d.body]
=============================================================================
