--------------------------- MODULE MCToolsPipeline ---------------------------
(* Two collections of two documents, the second with a unique index.        *)
EXTENDS ToolsPipeline

MCUnique == {2}
=============================================================================
