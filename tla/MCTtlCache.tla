----------------------------- MODULE MCTtlCache -----------------------------
(* TtlCache with two refreshing threads: of two servers, or of one.        *)
EXTENDS TtlCache, TLC

CONSTANTS t1, t2, p1, p2

TwoServers == t1 :> p1 @@ t2 :> p2
OneServer == t1 :> p1 @@ t2 :> p1
=============================================================================
