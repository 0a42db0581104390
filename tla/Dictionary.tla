----------------------------- MODULE Dictionary -----------------------------
(***************************************************************************)
(* What hash_map promises (src/src/utils/hash_map.h): a partial function   *)
(* from keys to values.  A call changes one key or nothing, and its reply  *)
(* tells which.                                                            *)
(***************************************************************************)
EXTENDS Functions

CONSTANTS Key, Value

VARIABLES
    dict,       \* the values of the keys that are in the map
    reply       \* what the last call returned

vars == <<dict, reply>>

Init == dict = <<>> /\ reply = <<"new">>

\* An insertion may run out of memory at any time; then nothing has changed.
Put(k, v) ==
    \/ k \notin DOMAIN dict /\ reply' = <<"ok">>
       /\ dict' = [j \in DOMAIN dict \cup {k} |-> IF j = k THEN v ELSE dict[j]]
    \/ k \in DOMAIN dict /\ reply' = <<"duplicate">> /\ UNCHANGED dict
    \/ reply' = <<"failed">> /\ UNCHANGED dict

Get(k) ==
    /\ reply' = IF k \in DOMAIN dict THEN <<"ok", dict[k]>> ELSE <<"missing">>
    /\ UNCHANGED dict

Remove(k) ==
    /\ reply' = IF k \in DOMAIN dict THEN <<"ok">> ELSE <<"missing">>
    /\ dict' = Restrict(dict, DOMAIN dict \ {k})

\* Every pair is visited once, in an order the map does not promise.
Visit ==
    /\ reply'[1] = "visited"
    /\ IsInjective(reply'[2])
    /\ Range(reply'[2]) = {<<k, dict[k]>> : k \in DOMAIN dict}
    /\ UNCHANGED dict

Next ==
    \/ \E k \in Key : Get(k) \/ Remove(k) \/ \E v \in Value : Put(k, v)
    \/ Visit

Spec == Init /\ [][Next]_vars
=============================================================================
