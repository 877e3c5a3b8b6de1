----------------------------- MODULE MCKeyedCache -----------------------------
(* KeyedCache with a refresher in each of two servers.                     *)
EXTENDS KeyedCache

CONSTANTS k1, k2, t1, t2

TwoServers == (t1 :> "a") @@ (t2 :> "b")
=============================================================================
