-------------------------------- MODULE MQL -------------------------------
(***************************************************************************)
(* The query language of metrics: the parser of metrics/mql/ast, rule by   *)
(* rule, and the printing of its expressions.                              *)
(***************************************************************************)
EXTENDS Naturals, Sequences, SequencesExt, PegSyntax, Precedence

HasPrefix(s, prefix) == Len(s) >= Len(prefix) /\ SubSeq(s, 1, Len(prefix)) = prefix

clean(key) == IF HasPrefix(key, "span.") THEN SubSeq(key, 5, Len(key)) ELSE key

\* "$metric.attr" is split at its first dot, "$metric" has no attribute,
\* and "attr" no metric.
SplitAliasName(s) ==
    LET dots == {n \in 1..Len(s) : SubSeq(s, n, n) = "."}
        dot == CHOOSE n \in dots : \A m \in dots : n <= m
    IN  CASE ~HasPrefix(s, "$") -> <<"", s>>
          [] HasPrefix(s, "$") /\ dots # {} -> <<SubSeq(s, 1, dot - 1), SubSeq(s, dot + 1, Len(s))>>
          [] OTHER -> <<s, "">>

Name(name, fs) == [t |-> "Name", name |-> name, filters |-> fs]
Number(kind, text) == [t |-> "Number", kind |-> kind, text |-> text]
FuncCall(fn, args) == [t |-> "FuncCall", func |-> fn, args |-> args]
UniqExpr(name, attrs) == [t |-> "Uniq", name |-> name, attrs |-> attrs]
Filter(lhs, op, rhs) == [bool |-> "", lhs |-> clean(lhs), op |-> op, rhs |-> rhs]
Selector(e, grouping, all) == [t |-> "Selector", expr |-> e, grouping |-> grouping, all |-> all]
Nil == [t |-> "Nil"]
NamedExpr(e, alias) == [expr |-> binaryExprPrecedence(e), alias |-> alias]

\* A bare metric is named after itself.
ownName(e) == IF e.t = "Name" /\ e.filters = <<>> /\ HasPrefix(e.name, "$")
              THEN SubSeq(e.name, 2, Len(e.name)) ELSE ""

\* uniq($metric.attr) and uniq($metric)
uniqOf(name) == LET split == SplitAliasName(name.name)
                IN  UniqExpr([name EXCEPT !.name = split[1]],
                             IF split[2] = "" THEN <<>> ELSE <<split[2]>>)

List(v) == <<v[1]>> \o [n \in DOMAIN v[2] |-> v[2][n][2]]
AndAll(fs) == [n \in DOMAIN fs |-> IF n = 1 THEN fs[n] ELSE [fs[n] EXCEPT !.bool = "AND"]]

\* The value of an alternative, from the values v of its elements.
Act(a, v) ==
    CASE a = "Where"     -> [t |-> "Where", filters |-> v[2]]
      [] a = "BareWhere" -> [t |-> "Where", filters |-> v[1]]
      [] a = "GroupByAll" -> [t |-> "Grouping", names |-> <<>>, all |-> TRUE]
      [] a = "Grouping"  -> [t |-> "Grouping", names |-> v[3], all |-> FALSE]
      [] a = "SelectByAll" -> Selector(v[1], <<>>, TRUE)
      [] a = "SelectBy"  -> Selector(v[1], v[4], FALSE)
      [] a = "Select"    -> Selector(v[1], <<>>, FALSE)
      [] a = "Filters"   -> AndAll(List(v))
      [] a = "Chain"     -> <<v[1]>> \o [n \in DOMAIN v[2] |->
                                           [v[2][n][2] EXCEPT !.bool = v[2][n][1]]]
      [] a = "In"        -> Filter(v[1], "in", v[4])
      [] a = "NotIn"     -> Filter(v[1], "not in", v[5])
      [] a = "NotExists" -> Filter(v[1], "not exists", Nil)
      [] a = "Exists"    -> Filter(v[1], "exists", Nil)
      [] a = "Compare"   -> Filter(v[1], v[2], v[3])
      [] a = "IsSet"     -> Filter(v[1], "=", Number("unitless", "1"))
      [] a = "Strings"   -> [t |-> "Strings", texts |-> List(v)]
      [] a = "String"    -> [t |-> "String", text |-> v[1]]
      [] a = "Aliased"   -> NamedExpr(v[1], v[2])
      [] a = "Unnamed"   -> NamedExpr(v[1], ownName(v[1]))
      [] a = "Binary"    -> Binary(v[2], v[1], v[3])
      [] a = "Paren"     -> Paren(v[2])
      [] a = "Filtered"  -> Name(v[1], v[3])
      [] a = "Name"      -> Name(v[1], <<>>)
      [] a \in {"duration", "bytes", "unitless"} -> Number(a, v[1])
      [] a = "Uniq"      -> uniqOf(v[3])
      [] a = "UniqAttrs" -> UniqExpr(v[3], v[5])
      [] a = "FuncCall"  -> FuncCall(v[1], v[3])
      [] a = "Clean"     -> [n \in DOMAIN v[1] |-> clean(v[1][n])]
      [] a = "List"      -> List(v)
      [] a = "Alias"     -> v[2]
      [] a = "First"     -> v[1]
      [] OTHER           -> a

\* The errors that end the parsing: operators that braces do not allow, and
\* a metric in an inline grouping.
Rejects(a, v) ==
    \/ /\ a = "Filters"
       /\ \E n \in DOMAIN List(v) : List(v)[n].op \notin {"=", "!=", "~", "!~", "in"}
    \/ /\ a = "SelectBy"
       /\ \E n \in DOMAIN v[4] : SplitAliasName(v[4][n])[1] # ""

---------------------------------------------------------------------------
(* The grammar. *)

parseWhere == Alt(<<Text("where"), Rule("where"), EOF>>, "Where")
parseGrouping ==
    << Alt(<<Text("group"), Text("by"), Word("all"), EOF>>, "GroupByAll"),
       Alt(<<Text("group"), Text("by"), Rule("grouping"), EOF>>, "Grouping") >>
parseSelector ==
    << Alt(<<Rule("namedExpr"), Text("group"), Text("by"), Word("all"), EOF>>, "SelectByAll"),
       Alt(<<Rule("namedExpr"), Text("group"), Text("by"), Rule("grouping"), EOF>>, "SelectBy"),
       Alt(<<Rule("namedExpr"), EOF>>, "Select") >>

parseQuery == <<parseWhere>> \o parseGrouping \o parseSelector
              \o << Alt(<<Rule("where"), EOF>>, "BareWhere") >>

filters == << Alt(<<Rule("filter"), Each(<<Text(","), Rule("filter")>>)>>, "Filters") >>

where == << Alt(<<Rule("filter"), Each(<<Rule("boolOp"), Rule("filter")>>)>>, "Chain") >>

lhs == Class({"IDENT"})

filterIn == Alt(<<lhs, Text("in"), Text("("), Rule("values"), Text(")")>>, "In")
filterNotIn == Alt(<<lhs, Text("not"), Text("in"), Text("("), Rule("values"), Text(")")>>, "NotIn")
filterNotExists == Alt(<<lhs, Maybe("does"), Text("not"), OneOf({"exist", "exists"})>>, "NotExists")
filterExists == Alt(<<lhs, OneOf({"exists", "exist"})>>, "Exists")
filterCompare == Alt(<<lhs, Rule("filterOp"), Rule("value")>>, "Compare")
filterIsSet == Alt(<<lhs>>, "IsSet")

filter == <<filterIn, filterNotIn, filterNotExists, filterExists, filterCompare, filterIsSet>>

filterOp ==
    << Alt(<<Text("not"), Text("like")>>, "not like"), Alt(<<Text("like")>>, "like"),
       Alt(<<Choice(<< <<Text("!"), Text("=")>>, <<Text("<"), Text(">")>> >>)>>, "!="),
       Alt(<<Text("!"), Text("~")>>, "!~"),
       Alt(<<OneOf({"<", ">", "=", "~"})>>, "First") >>

values == << Alt(<<Class({"IDENT", "VALUE", "NUMBER"}),
                   Each(<<Text(","), Class({"IDENT", "VALUE", "NUMBER"})>>)>>, "Strings") >>

value == << Alt(<<Rule("number")>>, "First"), Alt(<<Class({"IDENT", "VALUE"})>>, "String") >>

boolOp == << Alt(<<Text("and")>>, "AND"), Alt(<<Text("or")>>, "OR") >>

namedExpr == << Alt(<<Rule("expr"), Rule("alias")>>, "Aliased"),
                Alt(<<Rule("expr")>>, "Unnamed") >>

expr == << Alt(<<Rule("binaryExpr")>>, "First"), Alt(<<Rule("term")>>, "First") >>

binaryExpr == << Alt(<<Rule("term"), Rule("binaryOp"), Rule("expr")>>, "Binary") >>

term == << Alt(<<Rule("number")>>, "First"), Alt(<<Rule("uniq")>>, "First"),
           Alt(<<Rule("funcCall")>>, "First"), Alt(<<Rule("name")>>, "First"),
           Alt(<<Text("("), Rule("expr"), Text(")")>>, "Paren") >>

name == << Alt(<<Class({"IDENT"}), Text("{"), Rule("filters"), Text("}")>>, "Filtered"),
           Alt(<<Class({"IDENT"}), Text("{"), Text("}")>>, "Name"),
           Alt(<<Class({"IDENT"})>>, "Name") >>

number == << Alt(<<Class({"DURATION"})>>, "duration"), Alt(<<Class({"BYTES"})>>, "bytes"),
             Alt(<<Class({"NUMBER"})>>, "unitless") >>

binaryOp ==
    << Alt(<<Text("="), Text("=")>>, "=="), Alt(<<Text("!"), Text("=")>>, "!="),
       Alt(<<Text(">"), Text("=")>>, ">="), Alt(<<Text("<"), Text("=")>>, "<="),
       Alt(<<Text("and")>>, "and"), Alt(<<Text("or")>>, "or"),
       Alt(<<OneOf({"+", "-", "/", "*", "%", "<", ">"})>>, "First") >>

alias == << Alt(<<Text("as"), Must("IDENT")>>, "Alias") >>

uniq == << Alt(<<Text("uniq"), Text("("), Rule("name"), Text(")")>>, "Uniq"),
           Alt(<<Text("uniq"), Text("("), Rule("name"), Text(","), Rule("idents"), Text(")")>>,
               "UniqAttrs") >>

funcCall == << Alt(<<Class({"IDENT"}), Text("("), Rule("args"), Text(")")>>, "FuncCall") >>

args == << Alt(<<Rule("term"), Each(<<Text(","), Rule("term")>>)>>, "List") >>

grouping == << Alt(<<Rule("idents")>>, "Clean") >>

idents == << Alt(<<Class({"IDENT"}), Each(<<Text(","), Class({"IDENT"})>>)>>, "List") >>

Grammar ==
    [parseQuery |-> parseQuery, filters |-> filters, where |-> where, filter |-> filter,
     filterOp |-> filterOp, values |-> values, value |-> value, boolOp |-> boolOp,
     namedExpr |-> namedExpr, expr |-> expr, binaryExpr |-> binaryExpr, term |-> term,
     name |-> name, number |-> number, binaryOp |-> binaryOp, alias |-> alias, uniq |-> uniq,
     funcCall |-> funcCall, args |-> args, grouping |-> grouping, idents |-> idents]

P == INSTANCE Peg

Parse(tokens) == P!Parse("parseQuery", tokens)

---------------------------------------------------------------------------
(* AppendString: the spelling of an expression, as a sequence of texts     *)
(* without its spaces.                                                     *)

Commas(texts) ==
    FlattenSeq([n \in DOMAIN texts |-> IF n = 1 THEN texts[n] ELSE <<",">> \o texts[n]])

\* A value that was quoted is quoted again only if it is no word.
AppendFilter(f) ==
    <<f.lhs, f.op>> \o CASE f.rhs.t = "Nil" -> <<>>
                         [] f.rhs.t = "Strings" ->
                                <<"(">> \o Commas([n \in DOMAIN f.rhs.texts |-> <<f.rhs.texts[n]>>]) \o <<")">>
                         [] OTHER -> <<f.rhs.text>>

AppendName(e) == IF e.filters = <<>> THEN <<e.name>>
                 ELSE <<e.name, "{">> \o Commas([n \in DOMAIN e.filters |-> AppendFilter(e.filters[n])])
                      \o <<"}">>

\* The metric of uniq is spelled with each attribute, its filters are not.
AppendUniq(e) == <<"uniq", "(">> \o Commas([n \in DOMAIN e.attrs |-> <<e.name.name \o "." \o e.attrs[n]>>])
                 \o <<")">>

\* MUTANT: as AppendString, but grouping is not spelled.
RECURSIVE AppendFlat(_)
AppendFlat(e) ==
    CASE e.t = "Paren"    -> AppendFlat(e.expr)
      [] e.t = "Binary"   -> AppendFlat(e.lhs) \o <<e.op>> \o AppendFlat(e.rhs)
      [] e.t = "FuncCall" -> <<e.func, "(">> \o AppendFlat(e.args[1]) \o <<")">>
      [] e.t = "Uniq"     -> AppendUniq(e)
      [] OTHER -> AppendName(e)

RECURSIVE AppendString(_)
AppendString(e) ==
    CASE e.t = "Name"     -> AppendName(e)
      [] e.t = "Number"   -> <<e.text>>
      [] e.t = "Paren"    -> <<"(">> \o AppendString(e.expr) \o <<")">>
      [] e.t = "Binary"   -> AppendString(e.lhs) \o <<e.op>> \o AppendString(e.rhs)
      [] e.t = "FuncCall" -> <<e.func, "(">> \o Commas([n \in DOMAIN e.args |-> AppendString(e.args[n])])
                             \o <<")">>
      [] e.t = "Uniq"     -> AppendUniq(e)
===========================================================================
