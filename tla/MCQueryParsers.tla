-------------------------- MODULE MCQueryParsers --------------------------
(* Texts of up to seven tokens, and the terms that one of them may hold.   *)
EXTENDS QueryParsers
MCOperands == <<"a", "b", "c", "d">>
MCSymbols == {"+", "-", "*", "(", ")", ","}

Uniq(args) == <<Ident("uniq"), Byte("(")>> \o args \o <<Byte(")")>>
Filtered(name, filters) == <<Ident(name), Byte("{")>> \o filters \o <<Byte("}")>>
Equals(key, value) == <<Ident(key), Byte("="), value>>
Differs(key, value) == <<Ident(key), Byte("!"), Byte("="), value>>

MCTerms ==
    { Uniq(<<Ident("$m")>>),
      Uniq(<<Ident("$m.x")>>),
      Uniq(<<Ident("$m"), Byte(","), Ident("x")>>),
      Uniq(<<Ident("$m"), Byte(","), Ident("x"), Byte(","), Ident("y")>>),
      Uniq(Filtered("$m.x", Equals("k", Ident("v")))),
      Filtered("$m", Equals("k", Ident("v"))),
      Filtered("$m", Equals("k", [id |-> "NUMBER", text |-> "12"])
                     \o <<Byte(",")>> \o Differs("span.k", Ident("v"))),
      Filtered("$m", Equals("k", [id |-> "VALUE", text |-> "12"])) }
===========================================================================
