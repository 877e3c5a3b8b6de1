----------------------------- MODULE MCGitCaches -----------------------------
(* GitCaches for TLC.                                                       *)
EXTENDS GitCaches, TLC

CONSTANTS s1, s2, c1, c2
=============================================================================
