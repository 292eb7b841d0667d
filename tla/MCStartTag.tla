---------------------------- MODULE MCStartTag ----------------------------
EXTENDS StartTag

UpTo(n, S) == UNION {[1..k -> S] : k \in 0..n}

\* Anything after the tag's name, as the lexer's fuzz test has it, with and
\* without an end.
Garbage == {<<"<", "a">> \o g \o e :
              g \in UpTo(4, {"/", "=", " ", "\"", "^", "a", "Null"}),
              e \in {<<">">>, <<>>}}

\* One attribute; what is between single quotes is what the HTML tokenizer
\* takes for a value.
Quoting == {"\""} \X UpTo(5, {"b", "^", "&", ";", " "})
           \cup {"'"} \X UpTo(3, {"b", "^", "\"", ">"})
Valued == {<<"<", "a", " ", "a", "=", q[1]>> \o q[2] \o <<q[1], ">">> : q \in Quoting}
          \cup {<<"<", "a", " ", "a", "=">> \o v \o <<">">> :
                  v \in UpTo(5, {"b", "^", "&", "=", "#"})}

\* Two of them.
Pairs == {<<"<", "a", " ">> \o n \o <<"=", "\"">> \o v
            \o <<"\"", " ">> \o m \o <<"=", "\"", "a", "\"", ">">> :
            n \in UpTo(3, {"a", "^"}) \ {<<>>}, v \in UpTo(2, {"a", "^"}) \cup [1..6 -> {"a", "^"}],
            m \in UpTo(2, {"a", "^"}) \ {<<>>}}

\* Without character references, and long enough for the parser to get past
\* the end.
SymbolsOnly == {<<"<", "a", " ", "a", "=", "\"">> \o v \o <<"\"", ">">> :
                  v \in UpTo(8, {"b", "^"})}

\* Carriage returns, outside and inside a value.
Returns == {<<"<", "a">> \o g \o <<">">> :
              g \in UpTo(4, {"/", "=", "\r", "\"", "^", "a"})}
           \cup {<<"<", "a", " ", "a", "=", "\"">> \o v \o <<"\"", ">">> :
                    v \in UpTo(4, {"b", "^", "\r"})}

MCTags == Garbage \cup Valued \cup Pairs \cup SymbolsOnly \cup Returns
MCLetters == {"a", "b"}
MCRefs == {<<"b">>, <<"b", "b">>}
=============================================================================
