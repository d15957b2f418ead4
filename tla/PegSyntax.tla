----------------------------- MODULE PegSyntax ----------------------------
(***************************************************************************)
(* The elements from which the rules of the query parsers are written: the *)
(* notation of the comments above each block of the generated code.        *)
(***************************************************************************)

EOF_TOKEN == [id |-> "EOF", text |-> ""]

Text(t)   == [k |-> "text", texts |-> {t}]       \* a keyword or a character
OneOf(S)  == [k |-> "text", texts |-> S]
Class(S)  == [k |-> "class", ids |-> S]          \* a token of a class
EOF       == Class({"EOF"})
Word(t)   == [k |-> "word", text |-> t]          \* an identifier with a text
Must(id)  == [k |-> "must", id |-> id]           \* a token that must follow
Rule(r)   == [k |-> "rule", rule |-> r]
Maybe(t)  == [k |-> "maybe", text |-> t]
Choice(s) == [k |-> "choice", seqs |-> s]
Each(s)   == [k |-> "each", seq |-> s]
Alt(elems, action) == [seq |-> elems, act |-> action]
===========================================================================
