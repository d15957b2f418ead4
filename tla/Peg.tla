------------------------------- MODULE Peg --------------------------------
(***************************************************************************)
(* The matching machinery that the two generated query parsers share       *)
(* (tracing/tql/parser.go and metrics/mql/ast/parser.go): a parsing        *)
(* expression grammar over the tokens of a lexer.                          *)
(*                                                                         *)
(* A grammar maps the name of a rule to its alternatives, tried in order;  *)
(* an alternative is a sequence of elements and the name of the semantic   *)
(* action that builds the value.  As in the generated code a rule answers  *)
(* "ok", "backtrack" (errBacktrack: the caller tries its next alternative  *)
(* from the position it saved) or "error", which no caller recovers from.  *)
(*                                                                         *)
(* A token has an identifier of its class and a text.  Keywords are        *)
(* matched without regard to case: a text stands for its spelling in       *)
(* lower case.  Like the code, an element that asks for a text takes any   *)
(* class of token, a quoted value included.                                *)
(***************************************************************************)
EXTENDS Naturals, Sequences, PegSyntax

CONSTANTS
    Grammar,        \* rule name -> sequence of alternatives
    Act(_, _),      \* the value an action builds from the matched values
    Rejects(_, _)   \* whether an action returns an error instead

\* The token at position i, the end of file after the last one.
PeekToken(ts, i) == IF i <= Len(ts) THEN ts[i] ELSE EOF_TOKEN

Ok(i, val) == [st |-> "ok", pos |-> i, val |-> val]
errBacktrack == [st |-> "backtrack"]
Error == [st |-> "error"]

RECURSIVE Match(_, _, _)
RECURSIVE MatchSeq(_, _, _)
RECURSIVE MatchEach(_, _, _)
RECURSIVE MatchFirst(_, _, _)
RECURSIVE MatchAlts(_, _, _)

\* One element at position i.
Match(e, ts, i) ==
    LET tok == PeekToken(ts, i)
        Take(cond) == IF cond THEN Ok(i + 1, tok.text) ELSE errBacktrack
    IN  CASE e.k = "text"   -> Take(tok.text \in e.texts)
          [] e.k = "class"  -> Take(tok.id \in e.ids)
          [] e.k = "word"   -> Take(tok.id = "IDENT" /\ tok.text = e.text)
          [] e.k = "must"   -> IF tok.id = e.id THEN Ok(i + 1, tok.text) ELSE Error
          [] e.k = "maybe"  -> IF tok.text = e.text THEN Ok(i + 1, tok.text) ELSE Ok(i, "")
          [] e.k = "rule"   -> MatchAlts(Grammar[e.rule], ts, i)
          [] e.k = "choice" -> MatchFirst(e.seqs, ts, i)
          [] e.k = "each"   -> MatchEach(e.seq, ts, i)

\* All elements in order; the value is the sequence of their values.
MatchSeq(es, ts, i) ==
    IF es = <<>> THEN Ok(i, <<>>)
    ELSE LET head == Match(es[1], ts, i)
             rest == MatchSeq(Tail(es), ts, head.pos)
         IN  IF head.st # "ok" THEN head
             ELSE IF rest.st # "ok" THEN rest
             ELSE Ok(rest.pos, <<head.val>> \o rest.val)

\* As many repetitions as match (the loops of "match-each").
MatchEach(es, ts, i) ==
    LET one == MatchSeq(es, ts, i)
        more == MatchEach(es, ts, one.pos)
    IN  CASE one.st = "ok" -> IF more.st = "ok" THEN Ok(more.pos, <<one.val>> \o more.val)
                                                ELSE more
          [] one.st = "backtrack" -> Ok(i, <<>>)
          [] one.st = "error" -> Error

\* The first of several sequences that matches.
MatchFirst(seqs, ts, i) ==
    IF seqs = <<>> THEN errBacktrack
    ELSE LET first == MatchSeq(seqs[1], ts, i)
         IN  IF first.st = "backtrack" THEN MatchFirst(Tail(seqs), ts, i) ELSE first

\* The alternatives of a rule ("if-match" blocks and the last "match").
MatchAlts(alts, ts, i) ==
    IF alts = <<>> THEN errBacktrack
    ELSE LET m == MatchSeq(alts[1].seq, ts, i)
         IN  CASE m.st = "backtrack" -> MatchAlts(Tail(alts), ts, i)
               [] m.st = "error" -> Error
               [] m.st = "ok" -> IF Rejects(alts[1].act, m.val) THEN Error
                                 ELSE Ok(m.pos, Act(alts[1].act, m.val))

\* A whole query, from its first token.
Parse(rule, ts) == MatchAlts(Grammar[rule], ts, 1)
===========================================================================
