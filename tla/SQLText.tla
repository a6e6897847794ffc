------------------------------ MODULE SQLText ------------------------------
(***************************************************************************)
(* What kodeddb-core makes of a line of SQL: the lexer and the parser      *)
(* (query/lexer.go, query/parser.go) as far as they decide which tokens    *)
(* are taken and whether the statement is accepted.                        *)
(*                                                                         *)
(* A text is a sequence of words, one for each token the lexer would make: *)
(* a keyword or a sign stands for itself, "name", "type" and "op" for any  *)
(* identifier, type keyword or comparison other than "=", "int" and        *)
(* "literal" for the values, "huge" for an integer that does not fit 64    *)
(* bits, "bad" for what the lexer refuses, "--" for the start of a         *)
(* comment. OR is like AND.                                                *)
(*                                                                         *)
(* The parser looks one token ahead and never goes back, so it is a        *)
(* machine: its points are the places in the recursive descent, its moves  *)
(* <<from, word, to>> the tokens it takes there.                           *)
(***************************************************************************)
EXTENDS Integers, Sequences

CONSTANT MaxList    (* bound: elements of a list in Sentences              *)

Keywords ==
    {"SELECT", "INSERT", "UPDATE", "DELETE", "CREATE", "DROP", "TABLE", "INTO",
     "FROM", "WHERE", "SET", "VALUES", "AND", "PRIMARY", "KEY", "LIMIT",
     "ORDER", "BY", "ASC", "DESC"}
Signs == {"*", "(", ")", ",", ";", "="}
Tokens == Keywords \cup Signs \cup {"name", "type", "op", "int", "literal", "huge"}
Words == Tokens \cup {"bad", "--"}

(* Lexer.Tokenize. The text is one line, so a comment has no end; what is  *)
(* in it is not looked at.                                                 *)
Comments(text) == {i \in DOMAIN text : text[i] = "--"}
Uncommented(text) ==
    IF Comments(text) = {} THEN text
    ELSE SubSeq(text, 1, (CHOOSE i \in Comments(text) :
                            \A j \in Comments(text) : i <= j) - 1)
Lexes(text) == \A i \in DOMAIN Uncommented(text) : Uncommented(text)[i] # "bad"

-----------------------------------------------------------------------------
Values == {"int", "literal"}
Comparisons == {"=", "op"}
Ordered == {"ordered", "descending", "ascending"}

CreateMoves ==
    {<<"start", "CREATE", "create">>, <<"create", "TABLE", "create table">>,
     <<"create table", "name", "table name">>, <<"table name", "(", "columns">>,
     <<"columns", "name", "column">>, <<"column", "type", "column type">>,
     <<"column type", "PRIMARY", "primary">>, <<"primary", "KEY", "column key">>}
        \cup {<<at, ",", "columns">> : at \in {"column type", "column key"}}
        \cup {<<at, ")", "end">> : at \in {"columns", "column type", "column key"}}

DropMoves ==
    {<<"start", "DROP", "drop">>, <<"drop", "TABLE", "drop table">>,
     <<"drop table", "name", "end">>}

(* Mutant: the values need no comma between them. *)
InsertMovesWithoutCommas ==
    {<<"start", "INSERT", "insert">>, <<"insert", "INTO", "into">>,
     <<"into", "name", "target">>, <<"target", "VALUES", "values">>,
     <<"values", "(", "row">>, <<"row", ")", "end">>}
        \cup {<<"row", v, "row">> : v \in Values}
InsertMoves ==
    {<<"start", "INSERT", "insert">>, <<"insert", "INTO", "into">>,
     <<"into", "name", "target">>, <<"target", "(", "targets">>,
     <<"targets", "name", "target column">>, <<"target column", ",", "targets">>,
     <<"values", "(", "row">>, <<"value", ",", "row">>}
        \cup {<<at, ")", "targets end">> : at \in {"targets", "target column"}}
        \cup {<<at, "VALUES", "values">> : at \in {"target", "targets end"}}
        \cup {<<"row", v, "value">> : v \in Values}
        \cup {<<at, ")", "end">> : at \in {"row", "value"}}

(* WHERE and what follows it, read between two points of a statement.      *)
WhereMoves(before, after) ==
    LET condition == before \o " where"
        column == before \o " where column"
        comparison == before \o " where comparison"
    IN  {<<before, "WHERE", condition>>, <<after, "AND", condition>>,
         <<condition, "name", column>>}
            \cup {<<column, c, comparison>> : c \in Comparisons}
            \cup {<<comparison, v, after>> : v \in Values}

SelectMoves ==
    {<<"start", "SELECT", "select">>, <<"select", "*", "all">>,
     <<"select", "name", "selected">>, <<"selected", ",", "select more">>,
     <<"select more", "name", "selected">>, <<"from", "name", "query">>,
     <<"order", "BY", "order by">>, <<"order by", "name", "ordered">>,
     <<"ordered", "DESC", "descending">>}
        \cup {<<at, "FROM", "from">> : at \in {"all", "selected"}}
        \cup WhereMoves("query", "filtered")
        \cup {<<at, "ORDER", "order">> : at \in {"query", "filtered"}}
        \cup {<<at, "ASC", "ascending">> : at \in {"ordered", "descending"}}
        \cup {<<at, "LIMIT", "limit">> : at \in {"query", "filtered"} \cup Ordered}
        \cup {<<"limit", n, "end">> : n \in {"int", "huge"}}

UpdateMoves ==
    {<<"start", "UPDATE", "update">>, <<"update", "name", "updated">>,
     <<"updated", "SET", "set">>, <<"set", "name", "set column">>,
     <<"set column", "=", "new value">>, <<"assigned", ",", "set">>}
        \cup {<<"new value", v, "assigned">> : v \in Values}
        \cup WhereMoves("assigned", "updates")

DeleteMoves ==
    {<<"start", "DELETE", "delete">>, <<"delete", "FROM", "delete from">>,
     <<"delete from", "name", "deleted">>}
        \cup WhereMoves("deleted", "deletes")

(* Where the statement may end: the parser takes a semicolon that is there *)
(* and returns, whatever comes behind it.                                  *)
Ends ==
    {"end", "query", "filtered", "assigned", "updates", "deleted", "deletes"} \cup Ordered

Moves ==
    CreateMoves \cup DropMoves \cup InsertMoves \cup SelectMoves \cup UpdateMoves
        \cup DeleteMoves \cup {<<at, ";", "done">> : at \in Ends}

(* The point a token leads to. There is one at most.                       *)
Step ==
    [m \in {<<n[1], n[2]>> : n \in Moves} |->
        CHOOSE p \in {n[3] : n \in Moves} : <<m[1], m[2], p>> \in Moves]

(* The point after the first i tokens, or "stuck" if the parser does not   *)
(* take them all.                                                          *)
Points(tokens) ==
    LET point[i \in 0..Len(tokens)] ==
            IF i = 0 THEN "start"
            ELSE LET move == <<point[i - 1], tokens[i]>>
                 IN  IF move \in DOMAIN Step THEN Step[move] ELSE "stuck"
    IN  point

Taken(tokens) ==
    LET point == Points(tokens)
    IN  CHOOSE i \in DOMAIN point :
            /\ point[i] # "stuck"
            /\ i < Len(tokens) => point[i + 1] = "stuck"

(* Parse: does the text yield a statement, and the tokens it is made of.   *)
Accepted(text) ==
    LET tokens == Uncommented(text)
    IN  Lexes(text) /\ Points(tokens)[Taken(tokens)] \in Ends \cup {"done"}
Statement(text) == SubSeq(text, 1, Taken(Uncommented(text)))

-----------------------------------------------------------------------------
(* The statements of SQL the parser is for, as the comments of parser.go   *)
(* have them, with lists of up to MaxList elements. A list in parentheses  *)
(* may also be empty or end with a comma, and ASC may follow DESC.         *)

Then(A, B) == {a \o b : a \in A, b \in B}
Maybe(A) == A \cup {<<>>}
Words1(W) == {<<w>> : w \in W}

List(A) ==
    LET list[n \in Nat] ==
            IF n <= 1 THEN A
            ELSE A \cup Then(Then(A, {<<",">>}), list[n - 1])
    IN  list[MaxList]
InParentheses(A) ==
    Then(Then({<<"(">>}, Maybe(Then(List(A), Maybe({<<",">>})))), {<<")">>})

Names == {<<"name">>}
Columns == Then({<<"name", "type">>}, Maybe({<<"PRIMARY", "KEY">>}))
Assignments == Then({<<"name", "=">>}, Words1(Values))
Conditions == Then(Then(Names, Words1(Comparisons)), Words1(Values))
Where ==
    Maybe(Then({<<"WHERE">>},
               Conditions \cup Then(Then(Conditions, {<<"AND">>}), Conditions)))
OrderBy ==
    Maybe(Then({<<"ORDER", "BY", "name">>},
               Then(Maybe({<<"DESC">>}), Maybe({<<"ASC">>}))))
Limit == Maybe({<<"LIMIT", "int">>, <<"LIMIT", "huge">>})

Sentences ==
    UNION {Then({<<"CREATE", "TABLE", "name">>}, InParentheses(Columns)),
           {<<"DROP", "TABLE", "name">>},
           Then(Then({<<"INSERT", "INTO", "name">>}, Maybe(InParentheses(Names))),
                Then({<<"VALUES">>}, InParentheses(Words1(Values)))),
           Then(Then(Then({<<"SELECT">>}, {<<"*">>} \cup List(Names)),
                     {<<"FROM", "name">>}),
                Then(Where, Then(OrderBy, Limit))),
           Then(Then({<<"UPDATE", "name", "SET">>}, List(Assignments)), Where),
           Then({<<"DELETE", "FROM", "name">>}, Where)}

Texts == Sentences \cup Then(Sentences, {<<";">>})
Beginnings == UNION {{SubSeq(t, 1, i) : i \in 0..Len(t)} : t \in Texts}
=============================================================================
