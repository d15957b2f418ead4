---------------------------- MODULE Precedence ----------------------------
(***************************************************************************)
(* How the parsers regroup a chain of binary operators.  The grammar       *)
(* nests every chain to the right; binaryOpPrecedence rotates it, one      *)
(* level of operators after the other, and marks what is bound together    *)
(* with ParenExpr.  tql/ast.go holds the same code.                        *)
(***************************************************************************)
EXTENDS Naturals, Sequences

Binary(op, lhs, rhs) == [t |-> "Binary", op |-> op, lhs |-> lhs, rhs |-> rhs]
Paren(e) == [t |-> "Paren", expr |-> e]
IsBinary(e) == e.t = "Binary"

\* The levels of operators, the tightest first (the first list is a mistaken one).
opPrecedenceSwapped ==
    << {"^"}, {"+", "-"}, {"*", "/", "%"},
       {"==", "!=", "<=", "<", ">=", ">"}, {"and", "unless"}, {"or"} >>

opPrecedence ==
    << {"^"}, {"*", "/", "%"}, {"+", "-"}, {"+", "-"},
       {"==", "!=", "<=", "<", ">=", ">"}, {"and", "unless"}, {"or"} >>

RECURSIVE unwrapBinaryExpr(_)
unwrapBinaryExpr(e) == IF e.t = "Paren" THEN unwrapBinaryExpr(e.expr) ELSE e

\* As exprPrecedence, but the rotation forgets the last operand.
exprPrecedenceLost(e, ops) ==
    IF IsBinary(e) /\ e.op \in ops /\ IsBinary(e.rhs)
    THEN Binary(e.rhs.op, Paren(Binary(e.op, e.lhs, e.rhs.lhs)), e.rhs.lhs) ELSE e

RECURSIVE exprPrecedence(_, _)
exprPrecedence(e, ops) ==
    IF ~IsBinary(e) THEN e
    ELSE IF e.op \notin ops THEN [e EXCEPT !.rhs = exprPrecedence(e.rhs, ops)]
    ELSE CASE IsBinary(e.rhs) ->
                LET rotated == Binary(e.rhs.op, Paren(Binary(e.op, e.lhs, e.rhs.lhs)), e.rhs.rhs)
                    inner == unwrapBinaryExpr(exprPrecedence(rotated, ops))
                IN  [inner EXCEPT !.rhs = exprPrecedence(inner.rhs, ops)]
           [] e.rhs.t = "Paren" -> e
           [] OTHER -> Paren(e)

RECURSIVE Levels(_, _)
Levels(e, n) == IF n > Len(opPrecedence) THEN e
                ELSE Levels(unwrapBinaryExpr(exprPrecedence(e, opPrecedence[n])), n + 1)

binaryOpPrecedence(e) == Levels(e, 1)

\* binaryExprPrecedence: other expressions are left alone.
binaryExprPrecedence(e) == IF IsBinary(e) THEN binaryOpPrecedence(e) ELSE e

---------------------------------------------------------------------------
(* The reference: split a chain of operands and operators at the last      *)
(* operator of the loosest level, so that operators of one level group to  *)
(* the left.                                                               *)
Level(op) == CASE op \in {"*", "/", "%"} -> 1 [] op \in {"+", "-"} -> 2 [] OTHER -> 3

RECURSIVE RefGroup(_, _)
RefGroup(operands, ops) ==
    IF ops = <<>> THEN operands[1]
    ELSE LET n == Len(ops)
             loosest == CHOOSE i \in 1..n :
                 \A j \in 1..n : /\ Level(ops[j]) <= Level(ops[i])
                                 /\ j > i => Level(ops[j]) < Level(ops[i])
         IN  Binary(ops[loosest],
                    RefGroup(SubSeq(operands, 1, loosest), SubSeq(ops, 1, loosest - 1)),
                    RefGroup(SubSeq(operands, loosest + 1, n + 1), SubSeq(ops, loosest + 1, n)))

\* A tree without the marks of grouping.
RECURSIVE Bare(_)
Bare(e) == CASE e.t = "Paren"  -> Bare(e.expr)
             [] e.t = "Binary" -> Binary(e.op, Bare(e.lhs), Bare(e.rhs))
             [] OTHER -> e
===========================================================================
