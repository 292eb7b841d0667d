------------------------------- MODULE Parser -------------------------------
(***************************************************************************)
(* The parser of a page, or of a text in an attribute: an HTML parser and a *)
(* Go parser that call each other at the transition symbol ^ and share     *)
(* nothing but the offset up to which the source has been read.            *)
(*                                                                         *)
(* A source is a sequence of lexemes of length one: a tag, a blank, a      *)
(* symbol, a word.  Each of the two sees it its own way: to the HTML       *)
(* tokenizer all that is between tags is one text; the Go scanner skips    *)
(* blanks, ends a statement at a newline, and reads one token ahead.       *)
(* Offsets are the code's, counted from 0.  The Go functions on the call   *)
(* stack are frames, of which the last runs.                               *)
(***************************************************************************)
EXTENDS Integers, Sequences, FiniteSets

CONSTANTS
  Pages,     \* pages
  Values,    \* what follows the symbol in an attribute's name or value
  Names,     \* identifiers without a meaning of their own
  Open,      \* the start and self-closing tags, with their elements' names
  Close,     \* the end tags, with their elements' names
  GoExprs    \* what go/parser.ParseExpr accepts, without blanks

Keywords == {"if", "else", "for", "import"}
\* "layouts" stands for any longer word that begins with layout.
Idents == Names \cup {"handler", "section", "partial", "layout", "layouts"}
Words == Idents \cup Keywords
Markup == DOMAIN Open \cup DOMAIN Close \cup {"<!-- -->", "<!doctype>"}
Blanks == {" ", "\n"}
Signs == {"^", "{", "}", "(", ")", "[", "]", ".", "!", "#", "str"}

Lexemes == Words \cup Markup \cup Blanks \cup Signs

\* Two words next to each other would be one.
ASSUME SourcesAssumption ==
  \A s \in Pages \cup Values :
    /\ s \in Seq(Lexemes)
    /\ \A k \in 2..Len(s) : s[k - 1] \notin Words \/ s[k] \notin Words

ASSUME LexemesAssumption ==
  /\ Markup \cap (Words \cup Blanks \cup Signs \cup {"", ";", "EOF"}) = {}
  /\ Names \cap (Keywords \cup Blanks \cup Signs \cup {"", ";", "EOF"}) = {}
  /\ Names \cap {"handler", "section", "partial", "layout", "layouts"} = {}
  /\ DOMAIN Open \cap DOMAIN Close = {}
  /\ {"<!-- -->", "<!doctype>"} \cap (DOMAIN Open \cup DOMAIN Close) = {}
  /\ \A t \in DOMAIN Open : Open[t] \in STRING
  /\ \A t \in DOMAIN Close : Close[t] \in STRING

VARIABLES
  src,      \* p.src
  offset,   \* p.offset
  html,     \* the HTML parser's current token: where it starts and ends
  code,     \* the Go parser: baseOffset, lookaheadToken and acceptedToken
  stack,    \* the calls
  nodes,    \* the pieces of the tree in the order in which they are made
  phase     \* "run", "parsed", "done", "error" (a syntax error) or "crashed"

vars == <<src, offset, html, code, stack, nodes, phase>>

Least(S) == {e \in S : \A d \in S : e <= d}

At(o) == IF o \in 0..(Len(src) - 1) THEN src[o + 1] ELSE ""
-----------------------------------------------------------------------------
(* The two tokenizers.                                                     *)

\* The HTML token at o: a tag, or everything up to the next one; at the end of
\* the source it is empty.
HtmlAt(o) ==
  IF o >= Len(src) THEN {[start |-> o, end |-> o]}
  ELSE {[start |-> o, end |-> e] :
          e \in Least({d \in (o + 1)..Len(src) :
                         At(o) \in Markup \/ d = Len(src) \/ At(d) \in Markup})}

HtmlAdvance(o) == \E t \in HtmlAt(o) : html' = t /\ offset' = t.end

Symbols(t) == {o \in t.start..(t.end - 1) : At(o) = "^"}
Pairs(t)   == {o \in Symbols(t) : o + 1 \in Symbols(t)}

IsText(t) == At(t.start) \notin Markup \cup {""}

IsAllWhitespace(t) == IsText(t) /\ \A o \in t.start..(t.end - 1) : At(o) \in Blanks

\* The Go token that is found from o on, counted from b.
Scan(b, o, insertSemi) ==
  {[tok |-> IF At(b + k) = "\n" THEN ";"
            ELSE IF At(b + k) # "" THEN At(b + k)
            ELSE IF insertSemi THEN ";" ELSE "EOF",
    at  |-> k] :
     k \in Least({d \in o..(Len(src) - b) :
                    At(b + d) \notin (IF insertSemi THEN {" "} ELSE Blanks)})}

InsertsSemi(tok) == tok \in Idents \cup {"str", ")", "]", "}"}

NoToken == [tok |-> "", at |-> 0]

\* The width of a token's text, also where it is not in the source.
Width(tok) == IF tok = "EOF" THEN 3 ELSE 1

\* Offsets are taken for those of the source.
ResetForgets(o) ==
  \E t \in Scan(o, 0, FALSE) : code' = [base |-> 0, look |-> t, acc |-> NoToken]

Reset(o) ==
  \E t \in Scan(o, 0, FALSE) : code' = [base |-> o, look |-> t, acc |-> NoToken]

\* With the wrong sign.
TokenOffsetBack(t) == t.at - code.base

TokenOffset(t) == code.base + t.at

Look == code.look.tok

\* peek, sync and lookahead.
NextTokens ==
  Scan(code.base,
       IF code.base + code.look.at < Len(src) THEN code.look.at + 1 ELSE code.look.at,
       InsertsSemi(Look))

Sync == offset' = TokenOffset(code.look) + Width(Look)

Advance ==
  /\ Sync
  /\ \E t \in NextTokens : code' = [code EXCEPT !.look = t, !.acc = code.look]
-----------------------------------------------------------------------------
(* Calls, nodes, errors.                                                   *)

Frame(pc) == [pc |-> pc, open |-> <<>>, from |-> 0, end |-> 0, depth |-> 0]

Top == stack[Len(stack)]
Callers == SubSeq(stack, 1, Len(stack) - 1)

In(pc) == phase = "run" /\ Top.pc = pc

Become(f)     == stack' = Append(Callers, f)
Call(f, back) == stack' = Callers \o <<back, f>>
Return        == stack' = Callers
Stay          == UNCHANGED stack

Node(kind, a, b) == [kind |-> kind, from |-> a, to |-> b]
Add(more) == nodes' = nodes \o more

\* One lexeme is not text enough.
LeadOne(t, o) == IF o > t.start + 1 THEN <<Node("literal", t.start, o)>> ELSE <<>>

Lead(t, o) == IF o > t.start THEN <<Node("literal", t.start, o)>> ELSE <<>>

Stop(p) == phase' = p /\ UNCHANGED <<offset, html, code, stack, nodes>>

\* errorf panics with a syntaxError, which parse recovers; but the column is
\* computed first, from the source up to the error or its last character.
Fail == Stop(IF src = <<>> THEN "crashed" ELSE "error")

Code == UNCHANGED <<src, html>>

Init ==
  /\ offset = 0
  /\ html = [start |-> 0, end |-> 0]
  /\ nodes = <<>>
  /\ phase = "run"
  /\ \/ /\ src \in Pages
        /\ stack = <<Frame("document")>>
        /\ code = [base |-> 0, look |-> NoToken, acc |-> NoToken]
     \/ /\ src \in Values
        /\ stack = <<Frame("attribute"), Frame("keyword")>>
        /\ \E t \in Scan(0, 0, FALSE) :
             code = [base |-> 0, look |-> t, acc |-> NoToken]
-----------------------------------------------------------------------------
(* parseDocument.                                                          *)

Tokenize(t) == In("document") /\ t \in HtmlAt(offset) /\ html' = t /\ UNCHANGED src

DocumentEnd ==
  /\ \E t \in HtmlAt(offset) : Tokenize(t) /\ At(t.start) = ""
  /\ phase' = "parsed" /\ UNCHANGED <<offset, code, stack, nodes>>

\* An attribute's parser is done after one expression.
AttributeEnd ==
  /\ In("attribute")
  /\ phase' = "done" /\ UNCHANGED <<src, offset, html, code, stack, nodes>>

DocumentLiteral ==
  \E t \in HtmlAt(offset) :
    /\ Tokenize(t) /\ At(t.start) # "" /\ Symbols(t) = {}
    /\ Add(<<Node("literal", t.start, t.end)>>)
    /\ offset' = t.end
    /\ UNCHANGED <<code, stack, phase>>

\* A doubled symbol anywhere in a text comes first.
DocumentEscape ==
  \E t \in HtmlAt(offset) : \E o \in Least(Pairs(t)) :
    /\ Tokenize(t)
    /\ Add(Lead(t, o) \o <<Node("escape", o, o + 2)>>)
    /\ offset' = o + 2
    /\ UNCHANGED <<code, stack, phase>>

LayoutEnd(o) ==
  IF At(o) = "!" THEN {o + 1}
  ELSE Least({e \in o..Len(src) : At(e) \notin Words \cup {"."}})

\* Any word that begins with layout.
LayoutAt(o) == At(o) \in {"layout", "layouts"}

DocumentLayout ==
  \E t \in HtmlAt(offset) : \E o \in Least(Symbols(t)) :
    /\ In("document") /\ Pairs(t) = {} /\ LayoutAt(o + 1)
    /\ IF <<At(o + 1), At(o + 2)>> # <<"layout", " ">> THEN Fail
       ELSE /\ \E e \in LayoutEnd(o + 3) :
                 Add(<<Node("layout", o + 1, e)>>) /\ offset' = e
            /\ html' = t
            /\ UNCHANGED <<code, stack, phase>>
    /\ UNCHANGED src

DocumentTransition ==
  \E t \in HtmlAt(offset) : \E o \in Least(Symbols(t)) :
    /\ Tokenize(t) /\ Pairs(t) = {} /\ ~LayoutAt(o + 1)
    /\ Add(Lead(t, o))
    /\ offset' = o + 1
    /\ Reset(o + 1)
    /\ Call(Frame("keyword"), Top)
    /\ UNCHANGED phase
-----------------------------------------------------------------------------
(* parseElement and parseChildren, within blocks.                          *)

\* isVoidElement
Void == {"area", "base", "br", "col", "embed", "hr", "img", "input", "link",
         "meta", "source", "track", "wbr"}

Child == At(html.start)

\* The call for the children is made before the element is on elemStack; no one
\* looks at it there before the call returns.
ChildElement ==
  /\ In("children") /\ Child \in DOMAIN Open
  /\ Add(<<Node("element", html.start, html.end)>>)
  /\ HtmlAdvance(offset)
  /\ IF Open[Child] \in Void THEN Stay
     ELSE Call(Frame("children"), [Top EXCEPT !.open = Append(@, Open[Child])])
  /\ UNCHANGED <<src, code, phase>>

ChildrenReturn ==
  /\ In("children")
  /\ Child = "" \/ (Child \in DOMAIN Close /\ Top.open = <<>>)
  /\ Return
  /\ UNCHANGED <<src, offset, html, code, nodes, phase>>

\* Whatever its name is.
ChildEndAny ==
  /\ In("children") /\ Child \in DOMAIN Close /\ Top.open # <<>>
  /\ HtmlAdvance(offset)
  /\ Add(<<Node("end", html.start, html.end)>>)
  /\ Become([Top EXCEPT !.open = SubSeq(@, 1, Len(@) - 1)])
  /\ UNCHANGED <<code, phase, src>>

\* An end tag is no node of the tree, where an element has its name.
ChildEnd ==
  /\ In("children") /\ Child \in DOMAIN Close /\ Top.open # <<>>
  /\ IF Top.open[Len(Top.open)] # Close[Child] THEN Fail
     ELSE /\ HtmlAdvance(offset)
          /\ Add(<<Node("end", html.start, html.end)>>)
          /\ Become([Top EXCEPT !.open = SubSeq(@, 1, Len(@) - 1)])
          /\ UNCHANGED <<code, phase>>
  /\ UNCHANGED src

\* A text with a doubled symbol first, and a comment, leave no node.
ChildDropped ==
  /\ In("children")
  /\ \/ Child = "<!-- -->"
     \/ IsText(html) /\ \E o \in Least(Symbols(html)) : o \in Pairs(html)
  /\ HtmlAdvance(offset)
  /\ UNCHANGED <<src, code, stack, nodes, phase>>

ChildLiteral ==
  /\ In("children") /\ IsText(html) /\ Symbols(html) = {}
  /\ Add(<<Node("literal", html.start, html.end)>>)
  /\ HtmlAdvance(offset)
  /\ UNCHANGED <<src, code, stack, phase>>

ChildTransition ==
  /\ In("children") /\ IsText(html)
  /\ \E o \in Least(Symbols(html)) \ Pairs(html) :
       Add(Lead(html, o)) /\ offset' = o + 1 /\ Reset(o + 1)
  /\ Call(Frame("keyword"), [Top EXCEPT !.pc = "resume"])
  /\ UNCHANGED <<src, html, phase>>

ChildResume ==
  /\ In("resume")
  /\ HtmlAdvance(offset)
  /\ Become([Top EXCEPT !.pc = "children"])
  /\ UNCHANGED <<src, code, nodes, phase>>

ChildDoctype == In("children") /\ Child = "<!doctype>" /\ Fail /\ UNCHANGED src

\* The rest of parseElement and of transition, when the children are parsed.
ElementEnd ==
  /\ In("element")
  /\ IF Child \in DOMAIN Close /\ Top.open = <<Close[Child]>>
     THEN /\ Add(<<Node("end", html.start, html.end)>>)
          /\ Reset(offset)
          /\ Return
          /\ UNCHANGED <<offset, html, phase>>
     ELSE Fail
  /\ UNCHANGED src
-----------------------------------------------------------------------------
(* parseCode and what it calls: one action per token, as a rule.           *)

\* A step over the current token that makes no node.
Step(pc, S) == In(pc) /\ Look \in S /\ Advance /\ Code /\ UNCHANGED <<nodes, phase>>
Fails(pc, S) == In(pc) /\ Look \in S /\ Fail /\ UNCHANGED src
FailsBut(pc, S) == In(pc) /\ Look \notin S /\ Fail /\ UNCHANGED src

\* What a scan for a closing token begins with, at the token after this one.
Scanning(pc) ==
  Become([Frame(pc) EXCEPT !.from = code'.base + code'.look.at, !.depth = 1])

Keyword ==
  \/ /\ Step("keyword", {"handler", "section", "partial", "import"})
     /\ Become(Frame(Look))
  \/ Step("keyword", {"if"}) /\ Scanning("cond")
  \/ Step("keyword", {"for"}) /\ Scanning("clause")
  \/ Step("keyword", {"{"}) /\ Scanning("code")
  \/ Step("keyword", {"("}) /\ Scanning("expr")
  \/ /\ Step("keyword", Idents \ {"handler", "section", "partial"})
     /\ LET at == TokenOffset(code.look)
        IN Become([Frame(IF At(at + 1) \in Blanks THEN "named" ELSE "name")
                     EXCEPT !.from = at, !.end = at + 1])
  \/ FailsBut("keyword", Idents \cup {"if", "for", "import", "{", "("})

Opener == [cond |-> "", clause |-> "", code |-> "{", handling |-> "{", expr |-> "("]
Closer == [cond |-> "{", clause |-> "{", code |-> "}", handling |-> "}", expr |-> ")"]

Closed(pc) == In(pc) /\ Look = Closer[pc] /\ Top.depth = 1

Depth(pc) == Top.depth + (IF Look = Opener[pc] THEN 1 ELSE 0)
                       - (IF Look = Closer[pc] THEN 1 ELSE 0)

\* No loop over braces knows the end of the source.
EndsScanNot(pc) == (IF pc \in {"code", "handling"} THEN {} ELSE {"EOF"})
                   \cup (IF pc = "expr" THEN {"#"} ELSE {})

EndsScan(pc) == (IF pc = "handling" THEN {} ELSE {"EOF"})
                \cup (IF pc = "expr" THEN {"#"} ELSE {})

\* The loops over tokens.  The one of parseHandlerKeyword does not know the
\* end of the source, where it goes on for ever.
ScanToken(pc) ==
  \/ /\ In(pc) /\ ~Closed(pc) /\ Look \notin EndsScan(pc)
     /\ Advance
     /\ Become([Top EXCEPT !.depth = Depth(pc)])
     /\ Code /\ UNCHANGED <<nodes, phase>>
  \/ Fails(pc, EndsScan(pc))

\* How far a scan has come: maxread and lastlit begin with the token it starts
\* at; the code of a loop's clause and of a handler ends with prev().
MaxRead ==
  LET t == IF TokenOffset(code.acc) >= Top.from THEN code.acc ELSE code.look
  IN TokenOffset(t) + Width(t.tok)

PrevEnd == TokenOffset(code.acc) + Width(code.acc.tok)

Parses(a, b) ==
  SelectSeq(SubSeq(src, a + 1, b), LAMBDA l : l \notin Blanks) \in GoExprs

Found(kind, a, b) == Add(<<Node(kind, a, b)>>) /\ Code /\ UNCHANGED phase

CondDone ==
  /\ Closed("cond")
  /\ IF ~Parses(Top.from, MaxRead) THEN Fail /\ UNCHANGED src
     ELSE /\ Found("expr", Top.from, MaxRead)
          /\ Call(Frame("block"), Frame("else"))
          /\ UNCHANGED <<offset, code>>

\* With nothing before the brace the length is negative, and slicing panics.
ClauseDone ==
  /\ Closed("clause")
  /\ IF PrevEnd < Top.from THEN Stop("crashed") /\ UNCHANGED src
     ELSE /\ Found("code", Top.from, PrevEnd)
          /\ Become(Frame("block"))
          /\ UNCHANGED <<offset, code>>

CodeDone(pc) ==
  LET end == IF pc = "code" THEN MaxRead ELSE PrevEnd IN
  /\ Closed(pc)
  /\ IF end < Top.from THEN Stop("crashed") /\ UNCHANGED src
     ELSE Found("code", Top.from, end) /\ Advance /\ Return

\* The closing parenthesis is read, but stays the lookahead token.
ExprDone ==
  /\ Closed("expr")
  /\ IF ~Parses(Top.from, MaxRead) THEN Fail /\ UNCHANGED src
     ELSE Found("expr", Top.from, MaxRead) /\ Sync /\ Return /\ UNCHANGED code

\* The path after a name is not consumed.
Import ==
  \/ /\ In("import") /\ Look = "str"
     /\ LET at == TokenOffset(code.look) IN Found("import", at, at + 1)
     /\ Advance /\ Return
  \/ /\ Step("import", Idents \cup {"."})
     /\ Become([Frame("path") EXCEPT !.from = TokenOffset(code.look)])
  \/ /\ In("path") /\ Look = "str"
     /\ Found("import", Top.from, TokenOffset(code.look) + 1)
     /\ Return /\ UNCHANGED <<offset, code>>
  \/ FailsBut("import", Idents \cup {"str", "."}) \/ FailsBut("path", {"str"})

Handler == \/ Step("handler", {"{"}) /\ Scanning("handling")
           \/ FailsBut("handler", {"{"})

\* Sections and partials.
NamedBlock(pc) ==
  \/ /\ In(pc) /\ Look \in Idents
     /\ LET at == TokenOffset(code.look) IN Found("name", at, at + 1)
     /\ Advance /\ Become(Frame("block"))
  \/ FailsBut(pc, Idents)

Block == \/ Step("block", {"{"}) /\ Become(Frame("body"))
         \/ FailsBut("block", {"{"})

BlockCode ==
  \/ Step("body", {"^"}) /\ Call(Frame("keyword"), Frame("after"))
  \/ Fails("body", {"EOF"})
  \/ Step("after", {";"}) /\ Become(Frame("close"))
  \/ /\ In("after") /\ Look # ";" /\ Become(Frame("close"))
     /\ Code /\ UNCHANGED <<offset, code, nodes, phase>>

\* transition and the start of parseElement: one element after white space.
BlockMarkup ==
  /\ In("body") /\ Look \notin {"^", "EOF"}
  /\ \E t \in HtmlAt(offset) :
     \E u \in IF IsAllWhitespace(t) THEN HtmlAt(t.end) ELSE {t} :
       IF At(u.start) \notin DOMAIN Open THEN Fail
       ELSE /\ Add((IF u = t THEN <<>> ELSE <<Node("literal", t.start, t.end)>>)
                     \o <<Node("element", u.start, u.end)>>)
            /\ IF Open[At(u.start)] \in Void
               THEN /\ html' = u /\ offset' = u.end /\ Reset(u.end)
                    /\ Become(Frame("close"))
               ELSE /\ HtmlAdvance(u.end)
                    /\ stack' = Callers \o
                         <<Frame("close"),
                           [Frame("element") EXCEPT !.open = <<Open[At(u.start)]>>],
                           Frame("children")>>
                    /\ UNCHANGED code
            /\ UNCHANGED phase
  /\ UNCHANGED src

BlockEnd ==
  \/ Step("close", {"}"}) /\ Return
  \/ FailsBut("close", {"}"})

\* After the block of an if: the symbol is consumed before it is known that
\* else follows.
Else ==
  \/ Step("else", {"^"}) /\ Become(Frame("alt"))
  \/ Step("alt", {"else"}) /\ Become(Frame("alternative"))
  \/ /\ (In("else") /\ Look # "^") \/ (In("alt") /\ Look # "else")
     /\ Return /\ Code /\ UNCHANGED <<offset, code, nodes, phase>>
  \/ Step("alternative", {"^"}) /\ Become(Frame("elseif"))
  \/ /\ In("alternative") /\ Look # "^" /\ Become(Frame("block"))
     /\ Code /\ UNCHANGED <<offset, code, nodes, phase>>
  \/ Step("elseif", {"if"}) /\ Scanning("cond")
  \/ FailsBut("elseif", {"if"})
-----------------------------------------------------------------------------
(* parseImplicitExpression, after its first name.                          *)

Grows(pc, end) == Become([Top EXCEPT !.pc = pc, !.end = end])

Bracket(pc) == IF pc = "call" THEN "(" ELSE "["
Unbracket(pc) == IF pc = "call" THEN ")" ELSE "]"

\* A bracket within is a token like others: the first closing one ends it.
Arguments(pc) ==
  \/ Step("name", {Bracket(pc)}) /\ Grows(pc, Top.end + 1)
  \/ Step(pc, {Unbracket(pc)}) /\ Grows("name", Top.end + 1)
  \/ Fails(pc, {"#", "EOF"})
  \/ /\ In(pc) /\ Look \notin {Unbracket(pc), "#", "EOF"}
     /\ Advance /\ Grows(pc, TokenOffset(code.look) + Width(Look))
     /\ Code /\ UNCHANGED <<nodes, phase>>

\* A period that no name follows at once is given back.
Period ==
  \/ /\ In("name") /\ Look = "."
     /\ \E t \in NextTokens :
          IF t.at - code.look.at > 1 \/ t.tok \notin Idents
          THEN /\ offset' = TokenOffset(code.look)
               /\ code' = [code EXCEPT !.acc = code.look]
               /\ Grows("named", Top.end)
          ELSE Advance /\ Grows("member", Top.end + 2)
     /\ Code /\ UNCHANGED <<nodes, phase>>
  \/ /\ Step("member", Idents)
     /\ Grows(IF At(Top.end) \in Blanks THEN "named" ELSE "name", Top.end)

\* The lookahead token is read too, as in ExprDone.
NameDoneSyncs ==
  /\ In("named") \/ (In("name") /\ Look \notin {"(", "[", "."})
  /\ IF ~Parses(Top.from, Top.end) THEN Fail /\ UNCHANGED src
     ELSE Found("expr", Top.from, Top.end) /\ Sync /\ Return /\ UNCHANGED code

NameDone ==
  /\ In("named") \/ (In("name") /\ Look \notin {"(", "[", "."})
  /\ IF ~Parses(Top.from, Top.end) THEN Fail /\ UNCHANGED src
     ELSE /\ Found("expr", Top.from, Top.end)
          /\ Return /\ UNCHANGED <<offset, code>>
-----------------------------------------------------------------------------
(* compile, after parse: the optimizer, which is applied on demand.        *)

Tags(a, b) == {k \in a..b : /\ nodes[k].kind \in {"element", "end"}
                            /\ \/ nodes[k].kind = "end"
                               \/ Open[At(nodes[k].from)] \notin Void}
Balance(a, b) == Cardinality({k \in Tags(a, b) : nodes[k].kind = "element"})
                 - Cardinality({k \in Tags(a, b) : nodes[k].kind = "end"})

\* A literal at the top of the tree.
IsLiteral(k) == nodes[k].kind \in {"literal", "escape"} /\ Balance(1, k) = 0

\* The n-th node is joined to the one before it where both are literals; where
\* that has become long, a new one begins.
Join(begins, before, n) ==
  IF n > 1 /\ IsLiteral(n - 1) /\ IsLiteral(n) /\ n \notin begins
  THEN [before EXCEPT ![Len(before)].to = nodes[n].to]
  ELSE Append(before, nodes[n])

CoalesceLiterals(begins) ==
  LET joined[n \in 0..Len(nodes)] ==
        IF n = 0 THEN <<>> ELSE Join(begins, joined[n - 1], n)
  IN joined[Len(nodes)]

\* Lexemes stand for texts of any length.
Compile ==
  /\ phase = "parsed" /\ phase' = "done"
  /\ \/ UNCHANGED nodes
     \/ \E begins \in SUBSET {k \in DOMAIN nodes : IsLiteral(k)} :
          nodes' = CoalesceLiterals(begins)
  /\ UNCHANGED <<src, offset, html, code, stack>>
-----------------------------------------------------------------------------
Scans == DOMAIN Closer

HtmlStep == \/ DocumentEnd \/ AttributeEnd \/ DocumentLiteral \/ DocumentEscape
            \/ DocumentLayout \/ DocumentTransition
            \/ ChildElement \/ ChildrenReturn \/ ChildEnd \/ ChildDropped
            \/ ChildLiteral \/ ChildTransition \/ ChildResume \/ ChildDoctype
            \/ ElementEnd

CodeStep == \/ Keyword \/ \E pc \in Scans : ScanToken(pc)
            \/ CondDone \/ ClauseDone \/ CodeDone("code") \/ CodeDone("handling")
            \/ ExprDone \/ Import \/ Handler
            \/ NamedBlock("section") \/ NamedBlock("partial")
            \/ Block \/ BlockCode \/ BlockMarkup \/ BlockEnd \/ Else
            \/ Arguments("call") \/ Arguments("index") \/ Period \/ NameDone

Over == phase \notin {"run", "parsed"} /\ UNCHANGED vars

Next == HtmlStep \/ CodeStep \/ Compile \/ Over

Spec == Init /\ [][Next]_vars /\ WF_vars(Next)
-----------------------------------------------------------------------------
(* What must be true.                                                      *)

Pcs == {"document", "attribute", "children", "resume", "element", "keyword",
        "import", "path", "handler", "section", "partial", "block", "body",
        "after", "close", "else", "alt", "alternative", "elseif", "name",
        "named", "member", "call", "index"} \cup Scans

Frames == [pc : Pcs, open : Seq(STRING), from : Nat, end : Nat, depth : Int]
GoTokens == [tok : Lexemes \cup {"", ";", "EOF"}, at : Nat]
Kinds == {"literal", "escape", "layout", "expr", "code", "import", "name",
          "element", "end"}

\* The types of what the two parsers keep.
TypeOK ==
  /\ src \in Seq(Lexemes)
  /\ offset \in Nat
  /\ html \in [start : Nat, end : Nat]
  /\ code \in [base : Nat, look : GoTokens, acc : GoTokens]
  /\ stack \in Seq(Frames)
  /\ nodes \in Seq([kind : Kinds, from : Nat, to : Int])
  /\ phase \in {"run", "parsed", "done", "error", "crashed"}

\* Except for the path of an import with a name, which is then read as text,
\* nothing comes into the tree twice, and the tree is in the source's order,
\* although two tokenizers move one offset forwards and backwards.
InOrder ==
  \A k \in 2..Len(nodes) : nodes[k - 1].to <= nodes[k].from
                           \/ (nodes[k - 1].kind = "import" /\ nodes[k - 1].from + 1 < nodes[k - 1].to)

Covered(o) == \E k \in DOMAIN nodes : nodes[k].from <= o /\ o < nodes[k].to

\* The text that o is in.
Run(o) == {e \in 0..(Len(src) - 1) :
             \A d \in (IF e < o THEN e..o ELSE o..e) : At(d) \notin Markup}

Doubled(e) == At(e) = "^" /\ At(e + 1) = "^"

\* o lies behind the k-th node, and before the next one.
Between(k, o) == /\ nodes[k].to <= o \/ (nodes[k].kind = "import" /\ nodes[k].from <= o)
                 /\ k < Len(nodes) => o < nodes[k + 1].from

\* Elements are open there, and e is the first symbol of the text from o on, if
\* it is not before o, and doubled.
Skips(k, e, o) == /\ Balance(1, k) > 0 /\ Between(k, o) /\ Between(k, e)
                  /\ Doubled(e) /\ \A d \in o..(e - 1) : At(d) # "^"

\* What the parser leaves out on purpose: a text in an element whose first symbol
\* is doubled, and the text up to the symbol of ^layout.
Escaped(o) == \E k \in DOMAIN nodes : \E e \in Run(o) : Skips(k, e, o)
BeforeLayout(o) ==
  \E k \in DOMAIN nodes : /\ nodes[k].kind = "layout" /\ o < nodes[k].from
                          /\ \A d \in o..(nodes[k].from - 2) : At(d) \notin Markup \cup {"^"}
LeftOut(o) == Escaped(o) \/ BeforeLayout(o)

\* A blank that the Go scanner skips within an expression.
Skipped(o) == /\ At(o) \in Blanks
              /\ \E c \in o..(Len(src) - 1) :
                   /\ At(c) \in {"(", ")", "[", "]", "."}
                   /\ \A d \in o..(c - 1) : At(d) \in Blanks

Trails(a, o) == \A d \in a..o : At(d) \in Idents \cup {"(", ")", "[", "]", "."} \/ Skipped(d)

\* What was cut off at the end of an expression: parseImplicitExpression does not
\* count the blanks before a bracket or a period.
CutOff(o) ==
  \E k \in DOMAIN nodes :
    /\ nodes[k].kind = "expr" /\ nodes[k].to <= o
    /\ \E b \in nodes[k].from..(nodes[k].to - 1) : Skipped(b)
    /\ Trails(nodes[k].to, o)

IsWord(o) == At(o) \in Names \cup DOMAIN Open \cup DOMAIN Close

\* In the tree of a page no word or tag is lost, but for the end of such an
\* expression and what is left out on purpose.
WordsKept ==
  phase = "parsed" =>
    \A o \in 0..(Len(src) - 1) :
      IsWord(o) => Covered(o) \/ LeftOut(o) \/ CutOff(o)

\* Only spaces lie between a closing brace and o.
AfterBlock(o) ==
  \E b \in 0..(o - 1) : At(b) = "}" /\ \A e \in (b + 1)..(o - 1) : At(e) = " "

\* o is in text or in a tag; a doubled symbol is there, or follows in the text.
InText(o) == \E k \in DOMAIN nodes : /\ nodes[k].kind \in {"literal", "escape", "element"}
                                     /\ nodes[k].from <= o /\ o < nodes[k].to
Paired(o) == \E e \in Run(o) : o - 1 <= e /\ Doubled(e)

\* o is the end of a text with a doubled symbol before it.
AtEnd(o) == At(o + 1) \in Markup \cup {""} /\ \E e \in Run(o) : e < o /\ Doubled(e)

\* A symbol makes Go code of what follows: that does not come into the tree as
\* text or a tag, whatever has been parsed.  There are three exceptions.  After a
\* closing brace on the same line the symbol may be taken for that of an else,
\* and is lost.  In a text at the top in which a doubled symbol follows, a
\* symbol is text itself.  And a tag may come after a text that is left out.
SymbolsAct ==
  phase # "done" =>
    \A o \in 0..(Len(src) - 1) :
      /\ At(o) = "^"
      /\ \E k \in DOMAIN nodes : /\ nodes[k].kind \in {"literal", "element"}
                                 /\ nodes[k].from <= o + 1 /\ o + 1 < nodes[k].to
      => AfterBlock(o) \/ (InText(o) /\ Paired(o)) \/ AtEnd(o)

\* The elements of blocks are closed in the order in which they were opened, by
\* their own names: the generator writes end tags from the names.
Balanced ==
  phase = "done" =>
    /\ Balance(1, Len(nodes)) = 0
    /\ \A k \in 1..Len(nodes) : Balance(1, k) >= 0
    /\ \A j, k \in Tags(1, Len(nodes)) :
         /\ j < k /\ nodes[j].kind = "element" /\ Balance(j, k) = 0
         /\ \A i \in j..(k - 1) : Balance(j, i) > 0
         => Open[At(nodes[j].from)] = Close[At(nodes[k].from)]

\* "expected syntax error, got %T" (parser_test.go): a source that cannot be
\* parsed makes for a syntax error.
ErrorsAreSyntaxErrors == stack[1].pc = "document" => phase # "crashed"

\* The two parsers do not call each other for ever, or wait for a token that
\* does not come: only an open handler does.
Ends == <>(phase \notin {"run", "parsed"} \/ (In("handling") /\ Look = "EOF"))
=============================================================================
