------------------------------- MODULE MCJson -------------------------------
(***************************************************************************)
(* Values for TLC: what an answer is made of, and what the threads read.   *)
(***************************************************************************)
EXTENDS JsonDocument

CONSTANTS r1, r2

MCReaders == {r1, r2}

MCKeys == {Str("a"), Str("a.b"), Str("a.b.c"), Str("d")}
Texts == {<<>>, Str("x\"\\/"), <<8, 9, 10, 12, 13>>, <<1, 0, 31, 195, 169, 127>>}
MCScalars == {StringValue(s) : s \in Texts} \cup
             {IntValue(n) : n \in {0, 31, -32}} \cup
             {IntValue(-128), UIntValue(32), UIntValue(255), RealValue(Str("256")),
              RealValue(Str("-129")), RealValue(Str("0.25")), BoolValue(TRUE), BoolValue(FALSE), nullValue}
MCVectors == {emptyArray, ArrayValue(<<IntValue(1), IntValue(2)>>),
              ArrayValue([i \in 1..4 |-> StringValue(Str("long"))]),
              ArrayValue([i \in 1..10 |-> IntValue(7)])}

(* [[..]] with n brackets around a number.                                 *)
RECURSIVE Nest(_)
Nest(n) == IF n = 0 THEN IntValue(1) ELSE ArrayValue(<<Nest(n - 1)>>)
MCCodePoints == {0, 36, 127, 128, 233, 2047, 2048, 8364, 55295, 57344, 65535, 65536, 128512, 1114111}

Broken == {Str("[[x"), Str("[1,[2,]"), Str("{\"a\":[,"), Str("/*c*/[1 /*d*/ 2]"), Str("{\"a\":1/**/0\"b\":2}"),
           Str("{\"a\":1,}"), Str("-"), Str("[tru]"), Str("//\n{\"a\" 1}"), <<>>}
Whole == Str("{\"c\":12,\"d\":[\"}\",[1.5e1]],\"\":{} }")
Alone(texts) == r1 :> texts @@ r2 :> <<>>

MCPlans ==
    {Alone(<<>>)}
    \cup {Alone(<<Literal(b), Written(Nest(n))>>) : b \in Broken, n \in 3..5}
    \cup {Alone(<<CutAt(Whole, n)>>) : n \in 0..(Len(Whole) - 1)}
    \cup {Alone(<<Character(cp)>>) : cp \in MCCodePoints}
    \cup {r1 :> <<Literal(b), Written(Nest(5))>> @@ r2 :> <<Literal(Str("[1,[2]]"))>> : b \in {Str("[x"), Str("[1]")}}
=============================================================================
