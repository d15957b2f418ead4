-------------------------------- MODULE TQL -------------------------------
(***************************************************************************)
(* The query language of spans: the parser of tracing/tql.  Every rule of  *)
(* the generated parser is a definition that lists the rule's              *)
(* alternatives in the order the code tries them; Act builds the syntax    *)
(* tree as the code behind each alternative does.                          *)
(***************************************************************************)
EXTENDS Naturals, Sequences, SequencesExt, PegSyntax, Precedence

\* An attribute key without the "span" of a "span." prefix.
clean(key) == IF Len(key) >= 5 /\ SubSeq(key, 1, 5) = "span."
              THEN SubSeq(key, 5, Len(key)) ELSE key

Attr(name) == [t |-> "Attr", name |-> name]
Number(kind, text) == [t |-> "Number", kind |-> kind, text |-> text]
FuncCall(fn, arg) == [t |-> "FuncCall", func |-> fn, arg |-> arg]
Nil == [t |-> "Nil"]
Filter(lhs, op, rhs) == [bool |-> "", lhs |-> lhs, op |-> op, rhs |-> rhs]
Column(value, alias) == [value |-> value, alias |-> alias]

\* A first element and the ones after each separator.
List(v) == <<v[1]>> \o [n \in DOMAIN v[2] |-> v[2][n][2]]

\* The value of an alternative, from the values v of its elements.
Act(a, v) ==
    CASE a = "Where"    -> [t |-> "Where", filters |-> v[2]]
      [] a = "Filters"  -> [t |-> "Where", filters |-> v[1]]
      [] a = "Grouping" -> [t |-> "Grouping", columns |-> v[3]]
      [] a = "Select"   -> [t |-> "Selector", columns |-> v[2]]
      [] a = "Columns"  -> [t |-> "Selector", columns |-> v[1]]
      [] a = "AnyOf"    -> [n \in DOMAIN v[2] |->
                              [Filter(Attr(v[2][n]), v[4], v[5]) EXCEPT !.bool = "OR"]]
      [] a = "Chain"    -> <<v[1]>> \o [n \in DOMAIN v[2] |->
                                          [v[2][n][2] EXCEPT !.bool = v[2][n][1]]]
      [] a = "In"       -> Filter(v[1], "in", v[4])
      [] a = "NotIn"    -> Filter(v[1], "not in", v[5])
      [] a = "Compare"  -> Filter(v[1], v[2], v[3])
      [] a = "NotExists" -> Filter(v[1], "not exists", Nil)
      [] a = "Exists"   -> Filter(v[1], "exists", Nil)
      [] a = "IsSet"    -> Filter(v[1], "=", Number("unitless", "1"))
      [] a = "Aliased"  -> << Column(v[1], v[2]) >>
      [] a = "Unnamed"  -> << Column(v[1], "") >>
      [] a = "Apply"    -> [n \in DOMAIN v[2] |-> Column(FuncCall(v[2][n], v[5]), "")]
      [] a = "Concat"   -> FlattenSeq(List(v))
      [] a = "Binary"   -> binaryOpPrecedence(Binary(v[2], v[1], v[3]))
      [] a = "Paren"    -> Paren(v[2])
      [] a = "Attr"     -> Attr(clean(v[1]))
      [] a = "FuncCall" -> FuncCall(v[1], v[3])
      [] a = "FuncCall0" -> FuncCall(v[1], Nil)
      [] a \in {"duration", "bytes", "unitless"} -> Number(a, v[1])
      [] a = "String"   -> [t |-> "String", text |-> v[1]]
      [] a = "Strings"  -> [t |-> "Strings", texts |-> List(v)]
      [] a = "List"     -> List(v)
      [] a = "Alias"    -> v[2]
      [] a \in {"First", "Unitless"} -> v[1]
      [] OTHER          -> a      \* an operator: the action is its name

\* term: a number with a unit is an error, not a reason to backtrack.
Rejects(a, v) == a = "Unitless" /\ v[1].kind # "unitless"

---------------------------------------------------------------------------
(* The grammar. *)

parseQuery ==
    << Alt(<<Text("where"), Rule("filters"), EOF>>, "Where"),
       Alt(<<Text("group"), Text("by"), Rule("columns"), EOF>>, "Grouping"),
       Alt(<<Text("select"), Rule("columns"), EOF>>, "Select"),
       Alt(<<Rule("columns"), EOF>>, "Columns"),
       Alt(<<Rule("filters"), EOF>>, "Filters") >>

filters ==
    << Alt(<<Text("{"), Rule("strings"), Text("}"), Rule("filterOp"), Rule("value")>>, "AnyOf"),
       Alt(<<Rule("filter"), Each(<<Rule("boolOp"), Rule("filter")>>)>>, "Chain") >>

boolOp == << Alt(<<Text("and")>>, "AND"), Alt(<<Text("or")>>, "OR") >>

existence == Choice(<< <<Text("exist")>>, <<Text("exists")>> >>)
containment == OneOf({"contain", "contains", "include", "includes"})

filterIn == Alt(<<Rule("attrOrFunc"), Text("in"), Text("("), Rule("values"), Text(")")>>, "In")
filterNotIn == Alt(<<Rule("attrOrFunc"), Text("not"), Text("in"), Text("("),
                     Rule("values"), Text(")")>>, "NotIn")
filterCompare == Alt(<<Rule("attrOrFunc"), Rule("filterOp"), Rule("value")>>, "Compare")
filterNotExists == Alt(<<Rule("attr"), Maybe("does"), Text("not"), existence>>, "NotExists")
filterExists == Alt(<<Rule("attr"), existence>>, "Exists")
filterIsSet == Alt(<<Rule("attr")>>, "IsSet")

filter == <<filterIn, filterNotIn, filterCompare, filterNotExists, filterExists, filterIsSet>>

\* The comparisons; "!~" is caught here, before its regular-expression form.
filterOpSymbols ==
    << Alt(<<Text(">"), Text("=")>>, ">="), Alt(<<Text("<"), Text("=")>>, "<="),
       Alt(<<Text("="), Text("=")>>, "="),
       Alt(<<Choice(<< <<Text("!"), Text("=")>>, <<Text("<"), Text(">")>> >>)>>, "!="),
       Alt(<<Text("!"), Text("~")>>, "not contains"),
       Alt(<<OneOf({"<", ">", "=", "~"})>>, "First") >>
filterOpContains ==
    << Alt(<<Maybe("does"), Text("not"), containment>>, "not contains"),
       Alt(<<containment>>, "contains") >>
filterOpLike ==
    << Alt(<<Text("not"), Text("like")>>, "not like"), Alt(<<Text("like")>>, "like"),
       Alt(<<Text("!"), Text("~")>>, "!~"), Alt(<<Text("~")>>, "~") >>

filterOp == filterOpSymbols \o filterOpContains \o filterOpLike

value == << Alt(<<Rule("number")>>, "First"), Alt(<<Class({"IDENT", "VALUE"})>>, "String") >>

number == << Alt(<<Class({"DURATION"})>>, "duration"), Alt(<<Class({"BYTES"})>>, "bytes"),
             Alt(<<Class({"NUMBER"})>>, "unitless") >>

columns == << Alt(<<Rule("column"), Each(<<Text(","), Rule("column")>>)>>, "Concat") >>

column ==
    << Alt(<<Rule("expr"), Rule("alias")>>, "Aliased"), Alt(<<Rule("expr")>>, "Unnamed"),
       Alt(<<Text("{"), Rule("strings"), Text("}"), Text("("), Rule("attr"), Text(")")>>, "Apply") >>

expr == << Alt(<<Rule("binaryExpr")>>, "First"), Alt(<<Rule("term")>>, "First") >>

binaryExpr == << Alt(<<Rule("term"), Rule("binaryOp"), Rule("expr")>>, "Binary") >>

term == << Alt(<<Rule("funcCall")>>, "First"), Alt(<<Rule("attr")>>, "First"),
           Alt(<<Rule("number")>>, "Unitless"),
           Alt(<<Text("("), Rule("binaryExpr"), Text(")")>>, "Paren") >>

binaryOp == << Alt(<<OneOf({"=", "+", "-", "/", "*", "%"})>>, "First") >>

attrOrFunc == << Alt(<<Rule("funcCall")>>, "First"), Alt(<<Rule("attr")>>, "First") >>

attr == << Alt(<<Class({"IDENT", "VALUE"})>>, "Attr") >>

funcCall == << Alt(<<Class({"IDENT"}), Text("("), Rule("expr"), Text(")")>>, "FuncCall"),
               Alt(<<Class({"IDENT"}), Text("("), Text(")")>>, "FuncCall0") >>

alias == << Alt(<<Text("as"), Must("IDENT")>>, "Alias") >>

strings == << Alt(<<Class({"IDENT"}), Each(<<Text(","), Class({"IDENT"})>>)>>, "List") >>

values == << Alt(<<Class({"IDENT", "VALUE", "NUMBER"}),
                   Each(<<Text(","), Class({"IDENT", "VALUE", "NUMBER"})>>)>>, "Strings") >>

Grammar ==
    [parseQuery |-> parseQuery, filters |-> filters, boolOp |-> boolOp, filter |-> filter,
     filterOp |-> filterOp, value |-> value, number |-> number, columns |-> columns,
     column |-> column, expr |-> expr, binaryExpr |-> binaryExpr, term |-> term,
     binaryOp |-> binaryOp, attrOrFunc |-> attrOrFunc, attr |-> attr, funcCall |-> funcCall,
     alias |-> alias, strings |-> strings, values |-> values]

P == INSTANCE Peg

\* ParsePart: the outcome for one part of a query.
ParsePart(tokens) == P!Parse("parseQuery", tokens)
===========================================================================
