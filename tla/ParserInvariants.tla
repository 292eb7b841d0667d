------------------------- MODULE ParserInvariants ---------------------------
(* What the theorems about the two parsers rest on: the inductive invariants,
   and what a step does that keeps them.                                   *)
EXTENDS Parser

-----------------------------------------------------------------------------
(* The inductive invariants behind TypeOK, InOrder and WordsKept.          *)

CodePcs == Pcs \ {"document", "attribute", "children", "resume", "element"}

\* The frames that one can return to.
Below(pc) == CASE pc \in {"children", "resume"} -> {"children", "element"}
               [] pc = "element" -> {"close"}
               [] pc \in {"document", "attribute"} -> {}
               [] OTHER -> {"document", "attribute", "resume", "after", "else"}

\* An element is open for whose children a frame runs.
Sits(f, g) == g.pc \in Below(f.pc) /\ (f.pc \in {"children", "resume"} => g.open # <<>>)

Linked == /\ Len(stack) >= 1 /\ stack[1].pc \in {"document", "attribute"}
          /\ \A k \in 2..Len(stack) : Sits(stack[k], stack[k - 1])

LookAt == TokenOffset(code.look)

\* The Go parser's next token is in the source, or what the scanner says at its
\* end; only blanks precede it.
GoodLook ==
  /\ LookAt <= Len(src)
  /\ LookAt < Len(src) => Look = IF At(LookAt) = "\n" THEN ";" ELSE At(LookAt)
  /\ LookAt = Len(src) => Look \in {";", "EOF"}
  /\ \A o \in offset..(LookAt - 1) : At(o) \in Blanks

\* It has not been read, or has been, but is needed no more.
Unread == offset <= LookAt
JustRead == offset <= LookAt + 1

Expressing == {"name", "named", "call", "index"}

\* Where the two parsers are with respect to each other.
Placed ==
  /\ Top.pc \in {"children", "element"} => html.start <= html.end /\ offset = html.end
  /\ Top.pc \in CodePcs => GoodLook
  /\ Top.pc \in CodePcs \ {"after", "close", "else"} =>
       Unread \/ (Look = "EOF" /\ Top.pc \in Scans \cup {"call", "index"})
  /\ Top.pc \in {"after", "close", "else"} => JustRead
  /\ Top.pc \in Scans => /\ Top.from <= LookAt /\ offset = PrevEnd
                         /\ offset <= Top.from \/ Top.from <= TokenOffset(code.acc)
  /\ Top.pc \in Expressing => Top.from <= Top.end /\ Top.end <= offset
  /\ Top.pc = "member" => /\ Top.from <= Top.end /\ Top.end <= LookAt + 1
                          /\ Look \in Idents
  /\ Top.pc = "path" => Top.from < offset

TInv == TypeOK /\ Linked /\ (phase = "run" => Placed)

\* Up to where there are nodes.
Last == nodes[Len(nodes)]
Done(o) == \/ nodes = <<>> \/ Last.to <= o
           \/ Last.kind = "import" /\ Last.from + 1 < Last.to /\ Last.from <= o

Floor == CASE Top.pc \in {"children", "element"} -> html.start
           [] Top.pc \in Scans \cup Expressing \cup {"member", "path"} -> Top.from
           [] Top.pc = "block" -> LookAt + 1
           [] OTHER -> offset

OInv == InOrder /\ (phase = "run" => Done(Floor))

\* Up to where no word is lost: no node can come between the last one and what is
\* left out for a doubled symbol.
Kept(o) == Covered(o) \/ BeforeLayout(o) \/ CutOff(o)
LeftForGood(o) ==
  \E k \in DOMAIN nodes : \E e \in Run(o) :
    Skips(k, e, o) /\ (k = Len(nodes) => o < Floor /\ e < Floor)
KeptTo(n) == \A o \in 0..(n - 1) : IsWord(o) => Kept(o) \/ LeftForGood(o)

\* Where there are children, an element is open.
Opened == phase = "run" /\ Top.pc = "children" => Child = "" \/ Balance(1, Len(nodes)) > 0

WFloor == IF Top.pc = "block" THEN offset ELSE Floor

\* An expression that ends at its end has blanks cut off, or the parser is there;
\* nothing but brackets, names and blanks is cut off.
Cuts == \E b \in Top.from..(Top.end - 1) : Skipped(b)

Behind ==
  /\ Trails(Top.end, offset - 1)
  /\ Top.pc \in Expressing => Cuts \/ \A d \in Top.end..(offset - 1) : At(d) \in Blanks
  /\ Top.pc = "member" => LookAt = offset /\ (Cuts \/ offset < Top.end)

Literals == {"literal", "escape"}
Forward == \A k \in DOMAIN nodes : nodes[k].kind \in Literals => nodes[k].from <= nodes[k].to

WInv ==
  /\ phase = "run" => /\ KeptTo(WFloor)
                      /\ Top.pc \in {"children", "element"} => html \in HtmlAt(html.start)
                      /\ Top.pc \in Expressing \cup {"member"} => Behind
  /\ phase \in {"run", "parsed"} => Forward
  /\ WordsKept

\* The optimizer loses nothing of the tree.
OptimizerKeeps ==
  [][phase = "parsed" => \A o \in 0..(Len(src) - 1) : Covered(o) => Covered(o)']_vars
-----------------------------------------------------------------------------
(* Where the parsers are.                                                  *)

CodePcList == {"keyword", "import", "path", "handler", "section", "partial",
               "block", "body", "after", "close", "else", "alt", "alternative",
               "elseif", "name", "named", "member", "call", "index",
               "cond", "clause", "code", "handling", "expr"}

\* Go code is called for by these.
Callables == {"document", "attribute", "resume", "after", "else"}

\* Frames that only the next token concerns.
Plain == CodePcList \ ({"after", "close", "else", "member", "path", "cond", "clause",
                        "code", "handling", "expr"} \cup Expressing)

\* Frames that a step over the current token leads to.
Leads(f) == f.pc \in Plain \cup {"after", "close", "else"} /\ (f.pc \in Plain => Look # ";")

\* Where text may begin, or else is looked for.
TextPcs == {"document", "resume", "children", "body", "path", "name", "named", "alt", "else"}

\* While the parser runs.
Running == TInv /\ phase = "run"

\* The frame that runs may become f.
Replaces(f) == IF Len(stack) = 1 THEN f.pc \in {"document", "attribute"}
               ELSE Below(f.pc) = Below(Top.pc)

Chained(s) == \A k \in 2..Len(s) : Sits(s[k], s[k - 1])
-----------------------------------------------------------------------------
(* Nodes.                                                                  *)

GoParsers == [base : Nat, look : GoTokens, acc : GoTokens]
Pieces == [kind : Kinds, from : Nat, to : Int]

\* All but the stack.
Typed == /\ src \in Seq(Lexemes) /\ offset \in Nat
         /\ html \in [start : Nat, end : Nat] /\ code \in GoParsers
         /\ nodes \in Seq(Pieces) /\ phase = "run"

\* What InOrder says of the nodes.
Follow(m, n) == m.to <= n.from \/ (m.kind = "import" /\ m.from + 1 < m.to)

Ordered(s) == \A k \in 2..Len(s) : Follow(s[k - 1], s[k])
Tagged == Names \cup DOMAIN Open \cup DOMAIN Close

\* The steps of the parser only add nodes.
Onward(s) == \A k \in DOMAIN s : s[k].kind \in Literals => s[k].from <= s[k].to

Grown == \E more \in Seq(Pieces) : nodes' = nodes \o more /\ Onward(more)

\* The nodes of Go code tell of no text.
Coded == \/ UNCHANGED nodes
         \/ \E kind \in {"expr", "code", "import", "name"} : \E a, b : Add(<<Node(kind, a, b)>>)
-----------------------------------------------------------------------------
(* What a step does to the floors, and must keep.                          *)

\* Up to where the source is in the tree, by what the parser does.
FloorRule ==
  /\ Top.pc \in {"children", "element"} => Floor = html.start
  /\ Top.pc \in Scans \cup Expressing \cup {"member", "path"} => Floor = Top.from
  /\ Top.pc = "block" => Floor = LookAt + 1
  /\ Top.pc \notin {"children", "element", "block", "member", "path"} \cup Scans \cup Expressing
     => Floor = offset

\* A step that does not leave the order of the source.
Orderly ==
  \/ UNCHANGED nodes /\ Floor <= Floor'
  \/ \E n \in Pieces : /\ Add(<<n>>) /\ Floor <= n.from
                       /\ \/ n.to <= Floor'
                          \/ n.kind = "import" /\ n.from + 1 < n.to /\ n.from <= Floor'
  \/ \E m, n \in Pieces : /\ Add(<<m, n>>) /\ Floor <= m.from
                          /\ m.to <= n.from /\ n.to <= Floor'

\* What is to be shown of every step of the parser.
Sound == TInv' /\ ((phase' # "run" /\ UNCHANGED nodes) \/ Orderly)

\* Where words have been kept up to.
WFloorRule ==
  /\ Top.pc \in {"children", "element"} => WFloor = html.start
  /\ Top.pc \in Scans \cup Expressing \cup {"member", "path"} => WFloor = Top.from
  /\ Top.pc \notin {"children", "element", "member", "path"} \cup Scans \cup Expressing
     => WFloor = offset

\* What is to be shown of every step that does not end the parser.
KeepsWords ==
  /\ src' = src
  /\ Grown
  /\ \A o \in WFloor..(WFloor' - 1) : IsWord(o) => (Kept(o) \/ LeftForGood(o))'
  /\ Top'.pc \in {"children", "element"} => (html \in HtmlAt(html.start))'
  /\ Top'.pc \in Expressing \cup {"member"} => Behind'

IInv == TInv /\ OInv
-----------------------------------------------------------------------------
(* Elements are closed in the order in which they were opened.             *)

\* What a node does to the number of elements that are open.
Rise(n) == IF n.kind = "end" THEN -1
           ELSE IF n.kind = "element" /\ Open[At(n.from)] \notin Void THEN 1
           ELSE 0

Heights(s, B) ==
  /\ B \in [0..Len(s) -> Int] /\ B[0] = 0
  /\ \A k \in 1..Len(s) : B[k] = B[k - 1] + Rise(s[k])

\* Among the first n pieces of s, the h-th element that is still open has the name.
OpenAt(s, B, n, h, name) ==
  \E j \in 1..n : /\ Rise(s[j]) = 1 /\ B[j] = h /\ Open[At(s[j].from)] = name
                  /\ \A m \in j..n : h <= B[m]

\* The elements that are open are w.
Stacked(s, B, n, w) == /\ w \in Seq(STRING) /\ Len(w) = B[n]
                       /\ \A h \in 1..Len(w) : OpenAt(s, B, n, h, w[h])

\* The k-th piece ends only an element of its own name.
EndsOwn(s, B, k) ==
  Rise(s[k]) = -1 =>
    \A j \in 1..(k - 1) : /\ Rise(s[j]) = 1 /\ B[j - 1] = B[k]
                          /\ \A i \in j..(k - 1) : B[j - 1] < B[i]
                          => Open[At(s[j].from)] = Close[At(s[k].from)]

Tagging(n) == n.kind = "element" => At(n.from) \in DOMAIN Open

\* Nested with heights B, and w is left open.
NestedBy(s, B, w) ==
  /\ Heights(s, B)
  /\ \A k \in 1..Len(s) : 0 <= B[k] /\ EndsOwn(s, B, k) /\ Tagging(s[k])
  /\ Stacked(s, B, Len(s), w)

Nested(s, w) == \E B : NestedBy(s, B, w)

\* The names that the frames hold, from the first to the last.
Holding == {"children", "resume", "element"}

HeldBy(f, held, w) ==
  /\ held \in [0..Len(f) -> Nat] /\ held[0] = 0
  /\ \A k \in 1..Len(f) : /\ held[k] = held[k - 1] + Len(f[k].open)
                          /\ \A i \in 1..Len(f[k].open) : w[held[k - 1] + i] = f[k].open[i]
                          /\ f[k].pc \in Holding \/ f[k].open = <<>>
  /\ w \in Seq(STRING) /\ Len(w) = held[Len(f)]

Held(f, w) == \E held : HeldBy(f, held, w)

\* At the end of the source the elements that are left open are dropped, and the
\* block they are in is an error.
Unended == Top.pc \in {"children", "element"} /\ Child = ""

BInv ==
  /\ phase = "run" => Unended \/ \E w : Held(stack, w) /\ Nested(nodes, w)
  /\ phase = "parsed" => Nested(nodes, <<>>)
  /\ Balanced

\* What becomes of the open elements w when e follows.
Moves(e, w, v) ==
  /\ v \in Seq(STRING)
  /\ Rise(e) = 0 => v = w
  /\ Rise(e) = 1 => v = Append(w, Open[At(e.from)])
  /\ Rise(e) = -1 => w = Append(v, Close[At(e.from)])

\* The last element that is open: what it is within was as high as what follows
\* an end tag.
LastAt(s, B, n, name) ==
  \E q \in 1..(n - 1) : /\ Rise(s[q]) = 1 /\ Open[At(s[q].from)] = name
                        /\ B[q - 1] = B[n] /\ \A m \in q..(n - 1) : B[q - 1] < B[m]

Bears(f) == f.pc \in Holding \/ f.open = <<>>

\* The last frame's names are the last ones.
HeldBelow(w) == \E v : Held(Callers, v) /\ v \in Seq(STRING) /\ w = v \o Top.open

Tagless(n) == n.kind \notin {"element", "end"}

\* A step that makes no tag.
Untagged == \/ UNCHANGED nodes \/ Add(<<>>)
            \/ \E n : Tagless(n) /\ Add(<<n>>)
            \/ \E m, n : Tagless(m) /\ Tagless(n) /\ Add(<<m, n>>)

\* A step between frames that hold nothing.
Shifted == \/ Stay \/ Return
           \/ \E f : f.open = <<>> /\ Become(f)
           \/ \E f, b : f.open = <<>> /\ b.open = <<>> /\ Call(f, b)

\* What the frames hold is what is open in the tree.
Nesting(w) == w \in Seq(STRING) /\ Held(stack, w) /\ Nested(nodes, w)

KeepsNested == Unended' \/ \E w : Held(stack', w) /\ Nested(nodes', w)
Settled == nodes \in Seq(Pieces) /\ Nested(nodes, <<>>)
-----------------------------------------------------------------------------
(* A symbol acts: what follows it is not text.                             *)

\* A symbol that is neither text, nor lost after a block or at the end of a text.
Bare(o) == At(o) = "^" /\ ~InText(o) /\ ~AfterBlock(o) /\ ~AtEnd(o)

\* No such symbol is right before n.
Clear(n) == \A o \in 0..(Len(src) - 1) : Bare(o) => n # o + 1

\* With each symbol there is, or follows, a doubled one.
Neat(a, b) == \A o \in a..(b - 1) : At(o) = "^" => Paired(o)

Tellers == {"literal", "element"}
Texts == {"literal", "escape", "element"}

\* No text or tag in the tree follows such a symbol, or has one that is not doubled
\* and with no doubled one behind it.
Honest(n) == /\ n.kind \in Tellers => Clear(n.from)
             /\ n.kind \in Texts => Neat(n.from, n.to)
Acted == \A k \in DOMAIN nodes : Honest(nodes[k])

\* What the parser has read last, where text may begin.
Seen ==
  /\ Top.pc \in {"document", "resume"} => Clear(offset)
  /\ Top.pc = "children" => Clear(html.start)
  /\ Top.pc \in {"body", "path", "name", "named"} => At(offset - 1) # "^"
  /\ Top.pc = "alt" => AfterBlock(offset - 1)
  /\ Top.pc = "else" => At(offset - 1) = "}" /\ \A e \in offset..(LookAt - 1) : At(e) = " "

BlockPcs == {"block", "body", "after", "close"}

\* What is called before an else is looked for is the block.
OverElse == \A k \in 2..Len(stack) : stack[k - 1].pc = "else" => stack[k].pc \in BlockPcs

SInv == (phase = "run" => Seen /\ OverElse) /\ (phase # "done" => Acted)

\* The nodes that a step adds do not follow a lost symbol.
Told ==
  \E more \in Seq(Pieces) :
    /\ nodes' = nodes \o more
    /\ \A k \in DOMAIN more : Honest(more[k])'

\* What is to be shown of a step in Go code.
Sees == Seen' /\ OverElse'

\* At o there is text, or the end of one with a doubled symbol, or no symbol.
Behinds(o) == InText(o)' \/ AtEnd(o) \/ At(o) # "^"
=============================================================================
