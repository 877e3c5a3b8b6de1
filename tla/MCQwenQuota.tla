---------------------------- MODULE MCQwenQuota ----------------------------
(* QwenQuota for TLC.                                                      *)
EXTENDS QwenQuota

CONSTANTS s1, s2
=============================================================================
