------------------------------ MODULE MCHashMap ------------------------------
(***************************************************************************)
(* Hash functions for HashMap, as residues modulo 8 (the largest table     *)
(* three or four keys can reach): all keys in one chain, keys that only a  *)
(* larger table tells apart, and keys that never meet.                     *)
(***************************************************************************)
EXTENDS HashMap, TLC

CONSTANTS k1, k2, k3, k4

Keys4 == {k1, k2, k3, k4}
FourHashes ==
    {k1 :> 3 @@ k2 :> 3 @@ k3 :> 3 @@ k4 :> 3,
     k1 :> 0 @@ k2 :> 4 @@ k3 :> 2 @@ k4 :> 6,
     k1 :> 1 @@ k2 :> 2 @@ k3 :> 5 @@ k4 :> 7}
=============================================================================
