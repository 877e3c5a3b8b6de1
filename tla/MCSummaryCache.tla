--------------------------- MODULE MCSummaryCache ---------------------------
(* SummaryCache with room for fewer summaries than there are transcripts.  *)
EXTENDS SummaryCache
=============================================================================
