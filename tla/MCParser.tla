------------------------------ MODULE MCParser ------------------------------
EXTENDS Parser

MCNames == {"x"}
MCOpen == [t \in {"<p>", "<b/>", "<br>"} |->
             CASE t = "<p>" -> "p" [] t = "<b/>" -> "b" [] t = "<br>" -> "br"]
MCClose == [t \in {"</p>", "</b>"} |-> IF t = "</p>" THEN "p" ELSE "b"]
\* Expressions of a name, a call or the like, and of these.
Deeper(S) == S \cup {e \o <<".", "x">> : e \in S} \cup {e \o <<"(", ")">> : e \in S}
               \cup {<<"(">> \o e \o <<")">> : e \in S}
               \cup {e \o <<"(">> \o f \o <<")">> : e, f \in S}
               \cup {e \o <<"[">> \o f \o <<"]">> : e, f \in S}
MCGoExprs == Deeper({<<"layout">>, <<"str">>} \cup Deeper({<<"x">>}))

UpTo(n, S) == UNION {[1..k -> S] : k \in 0..n}
Around(a, S, b) == {a \o s \o b : s \in S}

\* Texts and tags, with symbols.
Texts == UpTo(4, {"^", "x", "layout", " ", "<p>", "</p>", "!"})
         \cup UpTo(4, {"^", "layouts", " ", "x"})

\* The content of a block.
Contents == UpTo(4, {"<p>", "</p>", "<b/>", "</b>", "<br>", "^", "x", " "})
Blocks == Around(<<"^", "if", " ", "x", "{">>, Contents, <<"}">>)
InElement == {"^", "x", " ", "<!-- -->", "<!doctype>", "{", "}", "str"}
Sections == Around(<<"^", "section", " ", "x", "{", "<p>">>,
                   UpTo(3, InElement), <<"</p>", "}">>)

\* What follows the block of an if.
IfBlock == <<"^", "if", " ", "x", "{", "<br>", "}">>
Elses == Around(IfBlock, UpTo(3, {"^", "else", " ", "\n", "x", "if"}),
                <<"{", "<br>", "}">>)
         \cup Around(IfBlock \o <<"^", "else", "^">>, UpTo(1, {"if", "x", " "}),
                     <<" ", "x", "{", "<br>", "}">>)

\* Scans.
Scanned == UNION {Around(<<"^", k>>, UpTo(4, {" ", "{", "}", "x", "\n"}), e) :
                    k \in {"for", "handler", "{", "if"},
                    e \in {<<>>, <<"}">>, <<"<br>", "}">>}}

\* Expressions.
Expressions ==
  Around(<<"^", "x">>, UpTo(4, {"(", ")", ".", "x", " ", "[", "]"}), <<>>)
  \cup Around(<<"^", "x", "(", " ", ")">>, UpTo(5, {"(", ")", ".", "x", " "}), <<>>)
  \cup Around(<<"^", "(">>, UpTo(4, {"(", ")", "x", " ", "#"}), <<")", "x">>)

Imports == Around(<<"^", "import", " ">>, UpTo(3, {".", "x", "str", " ", "^"}),
                  <<"\n", "x">>)

\* Three of these, one after the other.
Fragments == {<<"<p>">>, <<"</p>">>, <<"x">>, <<"^", "x">>, <<" ">>, <<"\n">>,
              <<"^", "^">>, <<"^", "{", "x", "}">>, <<"^", "(", "x", ")">>,
              <<"^", "if", " ", "x", "{", "<p>", "^", "x", "</p>", "}">>,
              <<" ", "^", "else", " ", "{", "<br>", "}">>,
              <<" ", "^", "else", " ", "^", "if", " ", "x", "{", "<br>", "}">>,
              <<"^", "for", " ", "x", "{", " ", "^", "partial", " ", "x", "{", "<br>", "}", "\n", "}">>,
              <<"^", "import", " ", "str">>}
Documents == {a \o b \o c : a, b, c \in Fragments}

Lexed(S) == {s \in S : \A k \in 2..Len(s) : s[k - 1] \notin Words \/ s[k] \notin Words}

MCPages == Lexed(Documents \cup Texts \cup Blocks \cup Sections \cup Elses
                 \cup Scanned \cup Expressions \cup Imports)
MCValues == {SubSeq(s, 2, Len(s)) :
               s \in {t \in MCPages : t # <<>> /\ t[1] = "^"}}
=============================================================================
