------------------------- MODULE MCClientLifecycle -------------------------
EXTENDS ClientLifecycle, TLC

CONSTANTS p, s, c1, w1

MCClients == {p, s}
(* c1 is an application goroutine on the primary, w1 a scheduler worker  *)
(* running shadow closures.                                                *)
MCCallers == {c1, w1}
MCOwner == (c1 :> p @@ w1 :> s)

(* Replies with 8-bit int64 / uint64 and a 4-bit int (a build whose int  *)
(* is narrower than int64): 100 fits int64 but not int, "200" is past the *)
(* int64 range but not the uint64 one, "300" past both.                   *)
Text(id, isNum, num, isWord, word) ==
    [id |-> id, isNum |-> isNum, num |-> num, isWord |-> isWord, word |-> word]

T1 == Text("1", TRUE, 1, TRUE, TRUE)
Tt == Text("t", FALSE, 0, TRUE, TRUE)
MCTexts ==
    {T1, Tt, Text("-1", TRUE, -1, FALSE, FALSE), Text("200", TRUE, 200, FALSE, FALSE),
     Text("300", TRUE, 300, FALSE, FALSE), Text("x", FALSE, 0, FALSE, FALSE)}

MCIntReplies == {-1, 1, 100}

(* Arrays of up to two elements of every kind (nil included), and of     *)
(* three and four texts or integers, enough for odd lengths, repeated    *)
(* keys and repeated scores.                                               *)
IntElem == [t |-> "int", v |-> 1]
StrElem(x) == [t |-> "str", v |-> x]
ShortElems == {IntElem, StrElem(T1), StrElem(Text("x", FALSE, 0, FALSE, FALSE)), Nil}
LongElems == {IntElem, StrElem(T1), StrElem(Tt)}
MCArrayReplies ==
    UNION {[1..n -> ShortElems] : n \in 0..2} \cup
    UNION {[1..n -> LongElems] : n \in 3..4}

(* Two geo members whose coordinates differ, so a swap of longitude and   *)
(* latitude shows; lists of none, one and two members, and GEOPOS         *)
(* requests with a missing member first, last or not at all.              *)
Tm == Text("-1", TRUE, -1, FALSE, FALSE)
G1 == [name |-> T1, dist |-> T1, hash |-> 1, lng |-> T1, lat |-> Tm]
G2 == [name |-> Tt, dist |-> Text("200", TRUE, 200, FALSE, FALSE), hash |-> -1,
       lng |-> Tm, lat |-> T1]
MCGeoLists == {<<>>, <<G1>>, <<G1, G2>>}
Pos(m, e) == [m |-> m, exists |-> e]
MCGeoPosLists ==
    {<<>>, <<Pos(G1, TRUE)>>, <<Pos(G1, TRUE), Pos(G2, TRUE)>>,
     <<Pos(G1, FALSE), Pos(G2, TRUE)>>, <<Pos(G1, TRUE), Pos(G2, FALSE)>>}
=============================================================================
