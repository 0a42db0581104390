---- MODULE MCBinaryItems ----
(* Every integer where the width of its form changes, and its neighbours;  *)
(* lengths at the same places; every first byte with a few tails.          *)
EXTENDS BinaryItems

Ones(n) == [i \in 1..n |-> 255]
Zeros(n) == [i \in 1..n |-> 0]
Unsigned == {ZeroExt(b) : b \in
    {<<n>> : n \in {0, 23, 24, 127, 128, 255}} \cup {<<1>> \o Zeros(n) : n \in {1, 2, 4}} \cup {Ones(n) : n \in {2, 4, 8}}
        \cup {<<127>> \o Ones(7), <<128>> \o Zeros(7)}}
Signed == {w \in Unsigned : w[1] < 128} \cup {SignExt(b) : b \in
    {<<n>> : n \in {255, 232, 231, 224, 223, 128}} \cup {<<255, 127>>, <<128, 0>>, <<255, 127, 255>>}
        \cup {<<128>> \o Zeros(3), <<255, 127>> \o Ones(3), <<128>> \o Zeros(7)}}

Item(kind, vals) == {[kind |-> kind, val |-> v] : v \in vals}
AllItems ==
    Item("int", Signed) \cup Item("uint", Unsigned) \cup Item("bool", BOOLEAN) \cup Item("nil", {<<>>})
    \cup Item("float", {<<1, 2, 3, 4>>}) \cup Item("double", {<<1, 2, 3, 4, 5, 6, 7, 8>>})
    \cup Item("str", {0, 23, 24, 31, 32, 255, 256, 65535, 65536})
    \cup Item("array", {0, 15, 16, 24, 65535, 65536}) \cup Item("map", {0, 15, 16, 24, 65536})
SomeItems == Item("int", {SignExt(<<255>>), ZeroExt(<<1, 0>>)}) \cup Item("str", {0, 2}) \cup Item("map", {1})

Tails == {<<>>, <<1>>, <<97, 192, 246, 192>>, Zeros(7) \o <<1, 192>>, Ones(7) \o <<247, 0>>}
AllForeign == {<<b>> \o t : b \in 0..255, t \in Tails}
====
