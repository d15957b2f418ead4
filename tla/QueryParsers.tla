--------------------------- MODULE QueryParsers ---------------------------
(***************************************************************************)
(* Both query languages read the text a user types, one token after the    *)
(* other: the input fields of the web interface parse what is there on     *)
(* every change.  The properties are about the tree either parser builds.  *)
(***************************************************************************)
EXTENDS Naturals, Sequences, SequencesExt, FiniteSetsExt

CONSTANTS
    Operands,    \* names of operands, in the order in which they are typed
    Symbols,     \* operators, brackets and the comma
    Terms,       \* other operands, each the tokens of a name with filters or of
                 \* uniq; a query has one at most
    MaxTokens    \* bound on the length of a query, a term counted as three

\* Values of filters that are numbers unless they are quoted.
Digits == {"12"}

VARIABLES tokens

M == INSTANCE MQL
T == INSTANCE TQL

Ident(text) == [id |-> "IDENT", text |-> text]
Byte(text) == [id |-> "BYTE", text |-> text]

IsOperand(tok) == tok.id = "IDENT" /\ tok.text \in ToSet(Operands)
typedOperands == LET ids == SelectSeq(tokens, IsOperand) IN [n \in DOMAIN ids |-> ids[n].text]
typedSymbols == LET bs == SelectSeq(tokens, LAMBDA t : t.id = "BYTE")
                IN  [n \in DOMAIN bs |-> bs[n].text]

Init == tokens = <<>>

Within(term, ts) == \E n \in 0..(Len(ts) - Len(term)) : SubSeq(ts, n + 1, n + Len(term)) = term
typedTerms == {term \in Terms : Within(term, tokens)}
Length == IF typedTerms = {} THEN Len(tokens)
          ELSE Len(tokens) + 3 - Max({Len(term) : term \in typedTerms})

\* Texts that neither parser can complete to an expression are left out.
lastToken == IF tokens = <<>> THEN Byte("") ELSE tokens[Len(tokens)]
complete == lastToken.id = "IDENT" \/ lastToken.text \in {")", "}"}
CountOf(text) == Len(SelectSeq(typedSymbols, LAMBDA s : s = text))

TypeOperand ==
    /\ Length < MaxTokens /\ Len(typedOperands) < Len(Operands)
    /\ ~complete
    /\ tokens' = Append(tokens, Ident(Operands[Len(typedOperands) + 1]))

TypeTerm(term) ==
    /\ Length + 3 <= MaxTokens /\ typedTerms = {}
    /\ ~complete
    /\ tokens' = tokens \o term

TypeSymbol(sym) ==
    /\ Length < MaxTokens
    /\ CASE sym = "(" -> lastToken.text \notin {")", "}"}
         [] sym \in {")", ","} -> complete /\ CountOf("(") > CountOf(")")
         [] OTHER -> complete
    /\ tokens' = Append(tokens, Byte(sym))

Next ==
    \/ TypeOperand
    \/ \E term \in Terms : TypeTerm(term)
    \/ \E sym \in Symbols : TypeSymbol(sym)

Spec == Init /\ [][Next]_tokens

---------------------------------------------------------------------------
\* The expression that either parser reads, "none" when it rejects the text.
None == [t |-> "None"]

metricExpr(ts) == LET r == M!Parse(ts)
                  IN  IF r.st = "ok" /\ r.val.t = "Selector" THEN r.val.expr.expr ELSE None

spanExpr(ts) == LET r == T!ParsePart(ts)
                IN  IF r.st = "ok" /\ r.val.t = "Selector" /\ Len(r.val.columns) = 1
                    THEN r.val.columns[1].value ELSE None

\* The operands of an expression, without those of its terms.
RECURSIVE Leaves(_)
Leaves(e) ==
    SelectSeq(CASE e.t = "Binary" -> Leaves(e.lhs) \o Leaves(e.rhs)
                [] e.t = "Paren"  -> Leaves(e.expr)
                [] e.t \in {"Name", "Attr"} -> <<e.name>>
                [] e.t = "FuncCall" -> <<e.func>> \o (IF "args" \in DOMAIN e
                     THEN FlattenSeq([n \in DOMAIN e.args |-> Leaves(e.args[n])])
                     ELSE Leaves(e.arg))
                [] OTHER -> <<>>,
              LAMBDA name : name \in ToSet(Operands))

Texts(e) == IF e.t \in {"Name", "Attr"} THEN e.name ELSE "?"

\* However the parsers rotate an expression to mind the precedence of its
\* operators, no operand is lost, doubled or moved.
OperandsKept ==
    /\ metricExpr(tokens) # None => Leaves(metricExpr(tokens)) = typedOperands
    /\ spanExpr(tokens) # None => Leaves(spanExpr(tokens)) = typedOperands

\* An expression of at most three operands and no bracket groups as the
\* table of precedences says, operators of one level to the left.  (Longer
\* chains do not: the rotation looks one operator ahead.)
RECURSIVE NamesOnly(_)
NamesOnly(e) == CASE e.t = "Binary" -> [e EXCEPT !.lhs = NamesOnly(e.lhs), !.rhs = NamesOnly(e.rhs)]
                  [] OTHER -> [t |-> "Leaf", name |-> Texts(e)]

plainChain ==
    /\ \A n \in DOMAIN tokens : IsOperand(tokens[n]) <=> n % 2 = 1
    /\ Len(tokens) % 2 = 1
    /\ \A n \in DOMAIN typedSymbols : typedSymbols[n] \in {"+", "-", "*", "/", "%"}

reference == NamesOnly(M!RefGroup([n \in DOMAIN typedOperands |-> [t |-> "Name", name |-> typedOperands[n]]],
                                  typedSymbols))

ShortChainsGroup ==
    plainChain /\ Len(typedOperands) <= 3 =>
        /\ NamesOnly(M!Bare(metricExpr(tokens))) = reference
        /\ NamesOnly(T!Bare(spanExpr(tokens))) = reference

\* The tokens that the lexer makes of a text that was printed.
Lexed(text) == CASE text = "!=" -> <<Byte("!"), Byte("=")>>
                 [] text \in Symbols \cup {"{", "}", "="} -> <<Byte(text)>>
                 [] text \in Digits -> <<[id |-> "NUMBER", text |-> text]>>
                 [] OTHER -> <<Ident(text)>>
Retyped(texts) == FlattenSeq([n \in DOMAIN texts |-> Lexed(texts[n])])

\* uniq is spelled as it was meant if it has one attribute of a metric and no
\* filters, and the value of a filter if no number was quoted.
RECURSIVE Spells(_)
Spells(e) ==
    CASE e.t = "Binary"   -> Spells(e.lhs) /\ Spells(e.rhs)
      [] e.t = "Paren"    -> Spells(e.expr)
      [] e.t = "FuncCall" -> \A n \in DOMAIN e.args : Spells(e.args[n])
      [] e.t = "Name"     -> \A n \in DOMAIN e.filters :
                                ~(e.filters[n].rhs.t = "String" /\ e.filters[n].rhs.text \in Digits)
      [] e.t = "Uniq"     -> /\ Len(e.attrs) = 1 /\ e.name.filters = <<>>
                             /\ e.name.name # "" /\ M!SplitAliasName(e.name.name)[2] = ""
      [] OTHER -> TRUE

RECURSIVE Ungrouped(_)
Ungrouped(e) ==
    CASE e.t = "Binary"   -> M!Binary(e.op, Ungrouped(e.lhs), Ungrouped(e.rhs))
      [] e.t = "Paren"    -> Ungrouped(e.expr)
      [] e.t = "FuncCall" -> [e EXCEPT !.args = [n \in DOMAIN @ |-> Ungrouped(@[n])]]
      [] OTHER -> e

\* The name a metric column gets is its expression printed.  Read again it is
\* the same expression, operators, calls and filters included, whatever the
\* rotation has regrouped, so that a column can be copied to another query.
\* This is not so of expressions that Spells leaves out: uniq($m) is printed
\* as uniq(), uniq($m, a, b) as uniq($m.a, $m.b), uniq($m.a{k=v}) without its
\* filter, and m{k='12'} as m{k=12}.
NamesReadBack ==
    LET e == metricExpr(tokens)
    IN  e # None /\ Spells(e) =>
            Ungrouped(metricExpr(Retyped(M!AppendString(e)))) = Ungrouped(e)
===========================================================================
