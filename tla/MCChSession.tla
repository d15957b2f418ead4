--------------------------- MODULE MCChSession ----------------------------
EXTENDS ChSession

enum == <<[num |-> 1, word |-> "a"], [num |-> 2, word |-> "b"]>>
enumZero == <<[num |-> 0, word |-> "a"], [num |-> 1, word |-> "b"]>>
uuid == [i \in 1..16 |-> i]

InputOf(name) ==
    CASE name \in {"Int8", "UInt8"} -> {3, 200, -1}
      [] name \in {"Int16", "UInt64", "Float32"} -> {3, 5}
      [] name \in {"String", "LowCardinality"} -> {"x", "y", "z"}
      [] name = "Bool" -> BOOLEAN
      [] name = "UUID" -> {uuid, Reverse(uuid)}
      [] name = "Enum8" -> {"a", "b", "c"}
      [] name = "DateTime" -> {ZeroTime, 25, 40}
      [] name = "Date" -> {ZeroTime, 864000, 2000000}
      [] name = "DateTime64" -> {15, 25}
      [] name = "quantileBFloat16" -> {<<>>, << <<7, 2>>, <<9, 1>> >>}

mcInputs(t) ==
    LET vals == InputOf(t.name)
    IN  CASE t.wrap = <<>> -> vals
          [] t.wrap = <<"Nullable">> -> {<<>>} \union {<<v>> : v \in vals}
          [] t.wrap = <<"SimpleAggregateFunction">> -> vals
          [] t.wrap = <<"Array">> ->
                BoundedSeq(IF t.name = "Int8" THEN {3, -1} ELSE vals, IF t.name = "LowCardinality" THEN 2 ELSE 1)
          [] t.wrap = <<"Array", "Array">> ->
                {<<>>} \union {<< <<v>> >> : v \in vals} \union {<< <<>>, <<v, v>> >> : v \in vals}

Enum == [CHType(<<>>, "Enum8") EXCEPT !.enum = enum]
mcTypes ==
    {CHType(<<>>, n) : n \in {"Int8", "UInt8", "Int16", "Float32", "UInt64", "String", "LowCardinality",
                              "Bool", "UUID", "DateTime", "Date", "quantileBFloat16"}} \union
    {CHType(<<"Array">>, n) : n \in {"Int8", "UInt64", "String", "LowCardinality", "DateTime", "Bool"}} \union
    {CHType(<<"Array", "Array">>, n) : n \in {"Int16", "String", "DateTime"}} \union
    {CHType(<<"Nullable">>, n) : n \in {"Int8", "String", "DateTime"}} \union
    {CHType(<<"SimpleAggregateFunction">>, "UInt64"),
     [CHType(<<>>, "DateTime64") EXCEPT !.prec = 1],
     [CHType(<<>>, "DateTime64") EXCEPT !.prec = 0],
     Enum, [Enum EXCEPT !.wrap = <<"Array">>], [Enum EXCEPT !.enum = enumZero],
     CHType(<<"Array", "Array">>, "Bool"),
     [CHType(<<"Nullable">>, "DateTime64") EXCEPT !.prec = 1],
     [CHType(<<"SimpleAggregateFunction">>, "DateTime64") EXCEPT !.prec = 1],
     [Enum EXCEPT !.wrap = <<"Nullable">>],
     [Enum EXCEPT !.wrap = <<"SimpleAggregateFunction">>]}
===========================================================================
