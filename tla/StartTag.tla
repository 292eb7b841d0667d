------------------------------ MODULE StartTag ------------------------------
(***************************************************************************)
(* A start tag on its way from the HTML tokenizer into the syntax tree.    *)
(*                                                                         *)
(* scanAttrs reads the tag a second time, by the states of the HTML        *)
(* standard, to find out where the names and values of its attributes are; *)
(* parseStartTag then cuts the tag at these places into literals and, at   *)
(* the transition symbol ^, into Go expressions.  A tag that scanAttrs     *)
(* fails on has no attributes for parseStartTag: it is one literal.        *)
(*                                                                         *)
(* Characters are classes: the letter "a" stands for any that goes on a    *)
(* name or an expression, " " for a tab, newline or space.  The lexer has  *)
(* no case for the carriage return, "\r", which is white space for the     *)
(* tokenizer and for the Go scanner.  A text is the sequence of its        *)
(* characters' positions in the tag, from 1, so that the code's offsets    *)
(* are one less; 0 is a character that a reference was decoded to.         *)
(***************************************************************************)
EXTENDS Integers, Sequences, FiniteSets

CONSTANTS
  Tags,      \* the tags, as sequences of characters
  Letters,   \* letters
  Null,      \* the character U+0000
  Eof,       \* no character: the end of the tag
  Refs       \* the named character references that need no semicolon

Marks == {"<", ">", "/", "=", " ", "\"", "'", "&", "#", ";", "^", "\r"}

\* How the HTML tokenizer goes through a tag (readTag): what it is in after
\* another character c.
ReadOn(p, c) ==
  CASE p = "name"     -> IF c \in {" ", "\r", "/"} THEN "before" ELSE "name"
    [] p = "before"   -> IF c \in {" ", "\r", "/"} THEN "before" ELSE "key"
    [] p = "key"      -> IF c = "/" THEN "before" ELSE IF c = "=" THEN "equals" ELSE "key"
    [] p = "equals"   -> IF c \in {" ", "\r"} THEN "equals"
                         ELSE IF c \in {"\"", "'"} THEN c ELSE "unquoted"
    [] p = "unquoted" -> IF c \in {" ", "\r"} THEN "before" ELSE "unquoted"
    [] OTHER          -> IF c = p THEN "before" ELSE p

ReadOf(t) ==
  LET r[k \in 1..Len(t)] == IF k = 1 THEN "name" ELSE ReadOn(r[k - 1], t[k]) IN r

\* It ends a tag at the first > that is not between quotes.
Whole(t) == \A k \in 2..(Len(t) - 1) : t[k] = ">" => ReadOf(t)[k - 1] \in {"\"", "'"}

ASSUME TagsAssumption ==
  \A t \in Tags : t \in Seq(STRING \ {Eof}) /\ Len(t) > 1 /\ t[1] = "<" /\ Whole(t)

ASSUME CharsAssumption ==
  /\ Letters \subseteq STRING /\ Null \in STRING /\ Eof \in STRING
  /\ Null # Eof /\ Letters \cap {Null, Eof} = {}
  /\ (Letters \cup {Null, Eof}) \cap Marks = {}

VARIABLES
  tag,          \* p.raw
  phase,        \* "lex", "emit", "done", "error" or "crashed"
  err,          \* p.err: what scanAttrs says, which nobody reads
  state,        \* of the lexer
  returnState,  \* where a character reference goes back to
  pos,          \* how many characters have been taken
  ch,           \* nextInputChar
  again,        \* provideCurrInputChar: ch is to be consumed again
  attrs,        \* the attributes, the last one being currAttr
  turn,         \* how many of them parseStartTag is through with
  part,         \* where it is: "gap", "name", "between" or "value"
  rest,         \* what is left of that name or value
  read,         \* bytesRead, or pos in parseAttributeNameOrValue
  out           \* the pieces of the tag that have become nodes, in order

lexer == <<err, state, returnState, pos, ch, again, attrs>>
parser == <<turn, part, rest, read, out>>
vars == <<tag, phase, lexer, parser>>

\* The HTML tokenizer's hasAttr: something other than white space and slashes
\* follows the tag's name.
HasAttr(t) ==
  \E e \in 2..Len(t), k \in 2..Len(t) :
    /\ t[e] \in {" ", "\r", "/"} /\ e < k /\ t[k] \notin {" ", "\r", "/", ">"}

Init ==
  /\ tag \in Tags
  /\ phase = IF HasAttr(tag) THEN "lex" ELSE "emit"
  /\ err = FALSE
  /\ state = "Data"
  /\ returnState = "Data"
  /\ pos = 0
  /\ ch = Eof
  /\ again = FALSE
  /\ attrs = <<>>
  /\ turn = 0
  /\ part = "gap"
  /\ rest = <<>>
  /\ read = 0
  /\ out = <<>>
-----------------------------------------------------------------------------
(* consumeNextInputChar: Char is the character consumed, Pos the position   *)
(* that l.pos has after it.                                                *)

\* As if the end were a character.
PosCountsEof == IF again THEN pos ELSE pos + 1

Char == IF again THEN ch ELSE IF pos < Len(tag) THEN tag[pos + 1] ELSE Eof
Pos  == IF again \/ pos = Len(tag) THEN pos ELSE pos + 1

Consume(s) == /\ phase = "lex" /\ state = s
              /\ pos' = Pos /\ ch' = Char
              /\ UNCHANGED <<tag, parser>>

\* switchState and reconsumeIn.
Switch(s, twice) == state' = s /\ again' = twice /\ UNCHANGED <<phase, err>>
Same == UNCHANGED <<returnState, attrs>>

To(s)          == Switch(s, FALSE) /\ Same
ReconsumeIn(s) == Switch(s, TRUE) /\ Same

\* The end of scan's loop.
Break == phase' = "emit" /\ UNCHANGED <<err, state, again>> /\ Same

\* errorf, specParseError: the panic that scanAttrs turns into an error.
Error == /\ phase' = "emit" /\ err' = TRUE /\ attrs' = <<>>
         /\ UNCHANGED <<state, again, returnState>>

NewAttr ==
  /\ attrs' = Append(attrs, [name |-> <<>>, nameAt |-> 0,
                             value |-> <<>>, valueAt |-> 0])
  /\ UNCHANGED returnState

\* The start follows the last character.
AppendCurrMoves(f, at, text, last) ==
  LET a == attrs[Len(attrs)] IN
  /\ attrs' = [attrs EXCEPT ![Len(attrs)] =
                 [a EXCEPT ![f] = a[f] \o text, ![at] = last]]
  /\ UNCHANGED returnState

\* Appends to the name or the value (f) of currAttr, which starts (at) where
\* the last character taken is.
AppendCurr(f, at, text, last) ==
  LET a == attrs[Len(attrs)] IN
  /\ attrs' = [attrs EXCEPT ![Len(attrs)] =
                 [a EXCEPT ![f] = a[f] \o text,
                           ![at] = IF a[at] = 0 THEN last ELSE a[at]]]
  /\ UNCHANGED returnState

AppendName(text)       == AppendCurr("name", "nameAt", text, Pos)
AppendVal(text, last)  == AppendCurr("value", "valueAt", text, last)
-----------------------------------------------------------------------------
(* The states of scan, one action each.                                    *)

Data == Consume("Data") /\ IF Char = "<" THEN To("TagOpen") ELSE Error

TagOpen == /\ Consume("TagOpen")
           /\ IF Char \in Letters THEN ReconsumeIn("TagName") ELSE Error

TagName ==
  /\ Consume("TagName")
  /\ \/ Char = " " /\ To("BeforeAttrName")
     \/ Char = "/" /\ To("SelfClosing")
     \/ Char = ">" /\ Break
     \/ Char \in {Null, Eof} /\ Error
     \/ Char \notin {" ", "/", ">", Null, Eof} /\ To("TagName")

\* An equals sign begins a value here too.
BeforeAttrNameEquals ==
  /\ Consume("BeforeAttrName")
  /\ \/ Char = " " /\ To("BeforeAttrName")
     \/ Char \in {"/", ">", Eof} /\ ReconsumeIn("AfterAttrName")
     \/ Char = "=" /\ To("BeforeAttrVal")
     \/ /\ Char \notin {" ", "/", ">", Eof, "="}
        /\ Switch("AttrName", TRUE) /\ NewAttr

\* A name's first character is not given back.
BeforeAttrNameConsumes ==
  /\ Consume("BeforeAttrName")
  /\ \/ Char = " " /\ To("BeforeAttrName")
     \/ Char \in {"/", ">", Eof} /\ ReconsumeIn("AfterAttrName")
     \/ Char = "=" /\ Error
     \/ /\ Char \notin {" ", "/", ">", Eof, "="}
        /\ Switch("AttrName", FALSE) /\ NewAttr

BeforeAttrName ==
  /\ Consume("BeforeAttrName")
  /\ \/ Char = " " /\ To("BeforeAttrName")
     \/ Char \in {"/", ">", Eof} /\ ReconsumeIn("AfterAttrName")
     \/ Char = "=" /\ Error
     \/ /\ Char \notin {" ", "/", ">", Eof, "="}
        /\ Switch("AttrName", TRUE) /\ NewAttr

\* cmpAttrName compares the names' buffers, which are never the same one, and
\* so has no effect.
AttrName ==
  /\ Consume("AttrName")
  /\ \/ Char \in {" ", "/", ">", Eof} /\ ReconsumeIn("AfterAttrName")
     \/ Char = "=" /\ To("BeforeAttrVal")
     \/ Char \in {Null, "\"", "'", "<"} /\ Error
     \/ /\ Char \notin {" ", "/", ">", Eof, "=", Null, "\"", "'", "<"}
        /\ Switch("AttrName", FALSE) /\ AppendName(<<Pos>>)

AfterAttrName ==
  /\ Consume("AfterAttrName")
  /\ \/ Char = " " /\ To("AfterAttrName")
     \/ Char = "/" /\ To("SelfClosing")
     \/ Char = "=" /\ To("BeforeAttrVal")
     \/ Char = ">" /\ Break
     \/ Char = Eof /\ Error
     \/ /\ Char \notin {" ", "/", "=", ">", Eof}
        /\ Switch("AttrName", TRUE) /\ NewAttr

BeforeAttrVal ==
  /\ Consume("BeforeAttrVal")
  /\ \/ Char = " " /\ To("BeforeAttrVal")
     \/ Char = "\"" /\ To("DoubleQuote")
     \/ Char = "'" /\ To("SingleQuote")
     \/ Char = ">" /\ Error
     \/ Char \notin {" ", "\"", "'", ">"} /\ ReconsumeIn("Unquoted")

ToCharRef(from) == /\ Switch("CharRef", FALSE)
                   /\ returnState' = from /\ UNCHANGED attrs

\* The end is taken for a character like others.
QuotedWaits(s) ==
  /\ Consume(s)
  /\ \/ Char = "\"" /\ To("AfterQuoted")
     \/ Char = "&" /\ ToCharRef(s)
     \/ Char \in {Null, Eof} /\ To(s)
     \/ /\ Char \notin {"\"", "&", Null, Eof}
        /\ Switch(s, FALSE) /\ AppendVal(<<Pos>>, Pos)

\* AttrValDoubleQuote and AttrValSingleQuote: both end at a double quote.
Quoted(s) ==
  /\ Consume(s)
  /\ \/ Char = "\"" /\ To("AfterQuoted")
     \/ Char = "&" /\ ToCharRef(s)
     \/ Char \in {Null, Eof} /\ Error
     \/ /\ Char \notin {"\"", "&", Null, Eof}
        /\ Switch(s, FALSE) /\ AppendVal(<<Pos>>, Pos)

Unquoted ==
  /\ Consume("Unquoted")
  /\ \/ Char = " " /\ To("BeforeAttrName")
     \/ Char = "&" /\ ToCharRef("Unquoted")
     \/ Char = ">" /\ Break
     \/ Char \in {Null, "\"", "'", "<", "=", Eof} /\ Error
     \/ /\ Char \notin {" ", "&", ">", Null, "\"", "'", "<", "=", Eof}
        /\ Switch("Unquoted", FALSE) /\ AppendVal(<<Pos>>, Pos)

AfterQuoted ==
  /\ Consume("AfterQuoted")
  /\ \/ Char = " " /\ To("BeforeAttrName")
     \/ Char = "/" /\ To("SelfClosing")
     \/ Char = ">" /\ Break
     \/ Char \notin {" ", "/", ">"} /\ Error

SelfClosing == Consume("SelfClosing") /\ IF Char = ">" THEN Break ELSE Error

\* Entered after an ampersand, which is at pos.
CharRef ==
  /\ Consume("CharRef")
  /\ \/ Char \in Letters /\ ReconsumeIn("NamedCharRef")
     \/ Char = "#" /\ To("NumericCharRef")
     \/ /\ Char \notin Letters \cup {"#"}
        /\ Switch(returnState, TRUE) /\ AppendVal(<<pos>>, Pos)

\* What follows the letters of a reference, the first of which is at pos and is
\* consumed again, is at a.
FollowedAt(a) == /\ a <= Len(tag) => tag[a] \notin Letters
                 /\ \A j \in pos..(a - 1) : tag[j] \in Letters

\* It is never consumed again, so that an equals sign is lost, and the value,
\* if it starts here, starts at what follows.
NamedCharRef ==
  /\ phase = "lex" /\ state = "NamedCharRef"
  /\ \E a \in pos..(Len(tag) + 1) :
       LET ident == SubSeq(tag, pos, a - 1)
           text  == [k \in 1..(a - pos + 1) |-> pos + k - 2]
       IN /\ FollowedAt(a)
          /\ pos' = IF a > Len(tag) THEN Len(tag) ELSE a
          /\ ch' = IF a > Len(tag) THEN Eof ELSE tag[a]
          /\ \/ /\ ident \in Refs /\ ch' = "="
                /\ Switch(returnState, FALSE) /\ AppendVal(text, pos')
             \/ /\ ident \in Refs /\ ch' = ";"
                /\ Switch(returnState, FALSE) /\ AppendVal(<<0>>, pos')
             \/ ident \in Refs /\ ch' \notin {"=", ";"} /\ Error
             \/ /\ ident \notin Refs
                /\ Switch("AmbiguousAmpersand", FALSE) /\ AppendVal(text, pos')
  /\ UNCHANGED <<tag, parser>>

\* States that scan has no case for.
Unimplemented ==
  /\ phase = "lex" /\ state \in {"NumericCharRef", "AmbiguousAmpersand"}
  /\ Error
  /\ UNCHANGED <<tag, parser, pos, ch>>

Lex == \/ Data \/ TagOpen \/ TagName \/ BeforeAttrName \/ AttrName
       \/ AfterAttrName \/ BeforeAttrVal
       \/ Quoted("DoubleQuote") \/ Quoted("SingleQuote") \/ Unquoted
       \/ AfterQuoted \/ SelfClosing \/ CharRef \/ NamedCharRef
       \/ Unimplemented
-----------------------------------------------------------------------------
(* parseStartTag, with parseAttributeNameOrValue for each name and value.  *)

Attr == attrs[turn + 1]
Text == IF part = "name" THEN Attr.name ELSE Attr.value
Start == (IF part = "name" THEN Attr.nameAt ELSE Attr.valueAt) - 1
End == Start + Len(Text)

At(s) == {k \in DOMAIN s : s[k] # 0}
Symbols(s) == {k \in At(s) : tag[s[k]] = "^"}

\* The characters from offset a up to offset b, as a literal or an expression;
\* "escape" is the symbol that a doubled one loses.
Piece(kind, a, b) == [kind |-> kind, from |-> a + 1, to |-> b]
Literal(a, b) == Piece("literal", a, b)

\* emitLiteralFromRange: the slice expression panics out of range.
Emit(pieces) ==
  IF \A k \in DOMAIN pieces : /\ pieces[k].from <= pieces[k].to + 1
                              /\ pieces[k].to <= Len(tag)
  THEN out' = out \o pieces /\ UNCHANGED phase
  ELSE phase' = "crashed" /\ UNCHANGED out

Emitting(p) == /\ phase = "emit" /\ part = p /\ turn < Len(attrs)
               /\ UNCHANGED <<tag, lexer>>

Begin(p, text) == part' = p /\ rest' = text /\ UNCHANGED turn
NextAttr == part' = "gap" /\ rest' = <<>> /\ turn' = turn + 1
Leave == IF part = "name" THEN Begin("between", <<>>) ELSE NextAttr

\* What precedes an attribute.
Gap ==
  /\ Emitting("gap")
  /\ IF Attr.nameAt - 1 > read
     THEN Emit(<<Literal(read, Attr.nameAt - 1)>>) /\ read' = Attr.nameAt - 1
     ELSE UNCHANGED <<phase, out, read>>
  /\ Begin("name", Attr.name)

\* What is between a name and its value, if it has one.
Between ==
  /\ Emitting("between")
  /\ IF Attr.valueAt > read + 1
     THEN /\ Emit(<<Literal(read, Attr.valueAt - 1)>>)
          /\ read' = Attr.valueAt - 1
          /\ Begin("value", Attr.value)
     ELSE NextAttr /\ UNCHANGED <<phase, out, read>>

\* A name or value without the transition symbol.
Verbatim(p) ==
  /\ Emitting(p)
  /\ Symbols(Text) = {}
  /\ Emit(<<Literal(Start, End)>>)
  /\ read' = End
  /\ Leave

\* The loop over the symbols of one, the next being at k of rest.
Looping(p) == Emitting(p) /\ Symbols(Text) # {}
Continues == read < End /\ Symbols(rest) # {}

\* strings.IndexRune, plus one.
NextSymbol(k) == k \in Symbols(rest) /\ \A j \in Symbols(rest) : k <= j

Lead(k) == IF k > 1 THEN <<Literal(read, read + k - 1)>> ELSE <<>>

Escape(p) ==
  /\ Looping(p) /\ Continues
  /\ \E k \in DOMAIN rest :
       /\ NextSymbol(k) /\ k + 1 \in Symbols(rest)
       /\ Emit(Lead(k) \o <<Literal(read + k - 1, read + k),
                            Piece("escape", rest[k + 1] - 1, rest[k + 1])>>)
       /\ read' = read + k + 1
       /\ rest' = SubSeq(rest, k + 2, Len(rest))
  /\ UNCHANGED <<turn, part>>

\* Where an expression that begins after k may end: it is letters after white
\* space that the Go scanner skips.
ExprEnds(k) ==
  {m \in (k + 1)..Len(rest) :
     \E j \in (k + 1)..m :
       /\ \A i \in (k + 1)..(j - 1) : i \in At(rest) /\ tag[rest[i]] \in {" ", "\r"}
       /\ \A i \in j..m : i \in At(rest) /\ tag[rest[i]] \in Letters}

\* The nested parser fails without an expression; to say where, it takes the
\* last character of its source, and panics when there is none.  What precedes
\* the symbol has been cut from the tag before.
NoExpr(k) == IF k = Len(rest) \/ (k > 1 /\ read + k - 1 > Len(tag))
             THEN "crashed" ELSE "error"

\* The symbol itself is not counted.
TransitionForgets(p) ==
  /\ Looping(p) /\ Continues
  /\ \E k \in DOMAIN rest :
       /\ NextSymbol(k) /\ k + 1 \notin Symbols(rest)
       /\ IF ExprEnds(k) = {}
          THEN phase' = NoExpr(k) /\ UNCHANGED <<rest, read, out>>
          ELSE \E m \in ExprEnds(k) :
               /\ \A n \in ExprEnds(k) : n <= m
               /\ Emit(Lead(k) \o <<Piece("expression", rest[k] - 1, rest[m])>>)
               /\ read' = read + m - 1
               /\ rest' = SubSeq(rest, m, Len(rest))
  /\ UNCHANGED <<turn, part>>

\* The code parser reads an expression.  What is left begins with its last
\* character.
Transition(p) ==
  /\ Looping(p) /\ Continues
  /\ \E k \in DOMAIN rest :
       /\ NextSymbol(k) /\ k + 1 \notin Symbols(rest)
       /\ IF ExprEnds(k) = {}
          THEN phase' = NoExpr(k) /\ UNCHANGED <<rest, read, out>>
          ELSE \E m \in ExprEnds(k) :
               /\ \A n \in ExprEnds(k) : n <= m
               /\ Emit(Lead(k) \o <<Piece("expression", rest[k] - 1, rest[m])>>)
               /\ read' = read + m
               /\ rest' = SubSeq(rest, m, Len(rest))
  /\ UNCHANGED <<turn, part>>

LoopDone(p) ==
  /\ Looping(p) /\ ~Continues
  /\ Leave
  /\ UNCHANGED <<phase, read, out>>

\* What follows the last attribute, or the whole tag when there is none.
Rest ==
  /\ phase = "emit" /\ turn = Len(attrs)
  /\ IF read <= Len(tag)
     THEN phase' = "done" /\ out' = Append(out, Literal(read, Len(tag)))
     ELSE phase' = "crashed" /\ UNCHANGED out
  /\ UNCHANGED <<tag, lexer, turn, part, rest, read>>

Over == phase \in {"done", "error", "crashed"} /\ UNCHANGED vars

Next == \/ Lex
        \/ Gap \/ Between \/ Rest
        \/ \E p \in {"name", "value"} :
             Verbatim(p) \/ Escape(p) \/ Transition(p) \/ LoopDone(p)
        \/ Over

Spec == Init /\ [][Next]_vars /\ WF_vars(Next)
-----------------------------------------------------------------------------
(* What must be true.                                                      *)

States == {"Data", "TagOpen", "TagName", "BeforeAttrName", "AttrName",
           "AfterAttrName", "BeforeAttrVal", "DoubleQuote", "SingleQuote",
           "Unquoted", "AfterQuoted", "SelfClosing", "CharRef",
           "NamedCharRef", "NumericCharRef", "AmbiguousAmpersand"}

Attributes == [name : Seq(Nat), nameAt : Nat, value : Seq(Nat), valueAt : Nat]

Pieces == [kind : {"literal", "expression", "escape"}, from : Int, to : Int]

\* The types of what scanAttrs and parseStartTag keep.
TypeOK ==
  /\ tag \in Seq(STRING)
  /\ phase \in {"lex", "emit", "done", "error", "crashed"}
  /\ err \in BOOLEAN
  /\ state \in States
  /\ returnState \in {"Data", "DoubleQuote", "SingleQuote", "Unquoted"}
  /\ pos \in 0..Len(tag)
  /\ ch \in {tag[k] : k \in DOMAIN tag} \cup {Eof}
  /\ again \in BOOLEAN
  /\ attrs \in Seq(Attributes)
  /\ turn \in 0..Len(attrs)
  /\ part \in {"gap", "name", "between", "value"}
  /\ rest \in Seq(Nat)
  /\ read \in Int
  /\ out \in Seq(Pieces)

\* currAttr is nil until an attribute begins.  The states that write to it are
\* only reached after that, whatever the tag; otherwise scanAttrs panics with
\* something that is not an openTagScanError and the compiler goes down.
AttrAtHand ==
  /\ phase = "lex"
  /\ state \in {"AttrName", "BeforeAttrVal", "DoubleQuote", "SingleQuote",
                "Unquoted", "AfterQuoted", "CharRef", "NamedCharRef"}
  => attrs # <<>>

\* Why: a state that does not write may be reached without an attribute, but
\* from AfterAttrName the next character then leads out.
Hand ==
  /\ phase = "lex" /\ state = "AfterAttrName" /\ attrs = <<>>
       => again /\ ch \in {"/", ">", Eof}
  /\ AttrAtHand

\* The invariant that is inductive.
IInv == /\ TypeOK
        /\ tag \in Tags
        /\ state # "Data" \/ again => pos >= 1
        /\ phase = "lex" => turn = 0
        /\ Hand

Has(c) == \E k \in DOMAIN tag : tag[k] = c
Placed(s, at) == \A k \in DOMAIN s : s[k] = at + k - 1

\* The offsets the lexer gives are those of the text it gives: parseStartTag
\* takes one from p.raw and searches the other.  It holds of names, and of
\* values without character references.
InPlace ==
  \A i \in DOMAIN attrs :
    /\ Placed(attrs[i].name, attrs[i].nameAt)
    /\ ~Has("&") => Placed(attrs[i].value, attrs[i].valueAt)

Positions(s, k) == {j \in DOMAIN s : s[j] = k}

\* The attributes, with the places in their names and values, that hold the
\* character at k.
Holders(k) ==
  UNION {({<<i, "name">>} \X Positions(attrs[i].name, k))
         \cup ({<<i, "value">>} \X Positions(attrs[i].value, k)) : i \in DOMAIN attrs}

\* An attribute has it, if any has: it comes after the tag's name, and is no
\* part of a character reference.
Attributed(k) == /\ tag[k] = "^" \/ (tag[k] \in Letters /\ ~Has("&"))
                 /\ \E e \in 2..(k - 1) : tag[e] \in {" ", "/"}

\* When scanAttrs succeeds, each symbol after the tag's name is in one name or
\* value and there once, and so is each letter that cannot be of a character
\* reference: nothing is lost or read twice where one state leaves a character
\* to another.  It takes that lexer and tokenizer read alike: what is between
\* single quotes does not end for the lexer where it ends for the tokenizer, and a
\* carriage return goes on a name or value that it ends for the tokenizer, so that
\* the symbol of <a\r^b> is in the tag's name for the one, in no attribute, and in
\* an attribute for the other.
Alike == ~Has("'") /\ ~Has("\r")

EveryCharacterRead ==
  phase # "lex" /\ HasAttr(tag) /\ ~err /\ Alike =>
    \A k \in DOMAIN tag : Attributed(k) => Cardinality(Holders(k)) = 1

\* The symbols of a name or value are all together: some doubled ones, and then
\* one expression at most.
Together(s) == \A j, k \in Symbols(s), i \in DOMAIN s :
                 j < i /\ i < k => i \in Symbols(s)

\* The last one is not without an expression, which would crash the parser.
Followed(s) == Len(s) \in Symbols(s) => Cardinality(Symbols(s)) % 2 = 0

Plain(s, at) == Placed(s, at) /\ Together(s) /\ Followed(s)

Tiles == /\ out[1].from = 1 /\ out[Len(out)].to = Len(tag)
         /\ \A k \in 2..Len(out) : out[k].from = out[k - 1].to + 1

\* A symbol that is left when the others are taken for pairs.
Single(s) == {s[k] : k \in {m \in Symbols(s) : /\ Cardinality(Symbols(s)) % 2 = 1
                                               /\ \A n \in Symbols(s) : n <= m}}

\* If no name or value has more than one expression, nor a reference, the nodes
\* are the whole tag in its order, each character once, and the code's
\* expressions begin where the tag has its symbols: the positions of the lexer,
\* counted in the tag, and the parser's, counted in the texts, agree.
KeptIfPlain ==
  /\ phase \in {"done", "crashed"}
  /\ \A i \in DOMAIN attrs : /\ Plain(attrs[i].name, attrs[i].nameAt)
                             /\ Plain(attrs[i].value, attrs[i].valueAt)
  => /\ phase = "done" /\ Tiles
     /\ {out[k].from : k \in {j \in DOMAIN out : out[j].kind = "expression"}}
          = UNION {Single(attrs[i].name) \cup Single(attrs[i].value) : i \in DOMAIN attrs}

\* The lexer and the parser come to an end on every tag: no state leaves a
\* character to be consumed again for ever, or waits past the end of the tag.
Ends == <>(phase \in {"done", "error", "crashed"})

\* What makes the places right: a text that can still grow is not begun, or
\* ends where the lexer is.
Grows(text, at) == text = <<>> \/ (~again /\ at + Len(text) = pos + 1)

Cur == attrs[Len(attrs)]

PlaceInv ==
  /\ InPlace
  /\ \A i \in DOMAIN attrs :
       /\ attrs[i].name = <<>> <=> attrs[i].nameAt = 0
       /\ ~Has("&") => (attrs[i].value = <<>> <=> attrs[i].valueAt = 0)
  /\ phase = "lex" =>
       /\ state \in {"AttrName", "BeforeAttrVal"} => Cur.value = <<>>
       /\ state = "AfterAttrName" => \/ again /\ ch \in {"/", ">", Eof}
                                     \/ attrs # <<>> /\ Cur.value = <<>>
       /\ state = "AttrName" => Grows(Cur.name, Cur.nameAt)
       /\ ~Has("&") =>
            /\ state \notin {"CharRef", "NamedCharRef"}
            /\ state \in {"DoubleQuote", "SingleQuote", "Unquoted"}
                 => Grows(Cur.value, Cur.valueAt)

\* What makes every character read: how many the lexer is through with, which
\* leaves out the one that is to be consumed again,
Taken == IF again /\ ch # Eof THEN pos - 1 ELSE pos

\* that these, and no others, have been given to attributes,
Given == /\ \A k \in 1..Taken : Attributed(k) => Cardinality(Holders(k)) = 1
         /\ \A i \in DOMAIN attrs :
              /\ \A j \in DOMAIN attrs[i].name : attrs[i].name[j] <= Taken
              /\ \A j \in DOMAIN attrs[i].value : attrs[i].value[j] <= Taken

\* and what it is in, which the tokenizer is in too, so that both end at the
\* same place.
InValue(s, p) == \/ s = "DoubleQuote" /\ p = "\""
                 \/ s = "Unquoted" /\ p = "unquoted"

InStep(p) ==
  /\ state \in {"BeforeAttrName", "AfterQuoted", "SelfClosing"} => p = "before"
  /\ state = "AttrName" =>
       \/ p = "key"
       \/ p = "before" /\ again /\ ch \notin {" ", "/", ">", "=", Eof}
  /\ state = "AfterAttrName" =>
       \/ p = "key"
       \/ p = "before" /\ again /\ ch \in {"/", ">", Eof}
  /\ state = "BeforeAttrVal" => p = "equals"
  /\ state = "Unquoted" =>
       \/ p = "unquoted"
       \/ p = "equals" /\ again /\ ch \notin {" ", "\"", "'", ">"}
  /\ state = "DoubleQuote" => p = "\""
  /\ state # "SingleQuote"
  /\ state = "CharRef" => ~again /\ pos >= 2 /\ tag[pos] = "&" /\ InValue(returnState, p)
  /\ state = "NamedCharRef" =>
       /\ again /\ ch \in Letters /\ pos >= 3 /\ tag[pos - 1] = "&"
       /\ InValue(returnState, p)

Reading ==
  /\ state = "Data" => ~again /\ pos = 0 /\ attrs = <<>>
  /\ state = "TagOpen" => ~again /\ pos = 1 /\ attrs = <<>>
  /\ state = "TagName" => /\ \A e \in 2..Taken : tag[e] \notin {" ", "/"}
                          /\ attrs = <<>> /\ Taken >= 1
                          /\ ReadOf(tag)[Taken] = "name"
  /\ state \notin {"Data", "TagOpen", "TagName", "NumericCharRef", "AmbiguousAmpersand"}
       => Taken >= 1 /\ Given /\ InStep(ReadOf(tag)[Taken])

ReadInv ==
  /\ phase = "lex" =>
       /\ again /\ ch # Eof => pos >= 1 /\ ch = tag[pos]
       /\ Alike => Reading
  /\ EveryCharacterRead

\* What makes the nodes the whole tag: the attributes are in its order.  An
\* attribute's characters are up to n,
Until(s, n) == \A k \in DOMAIN s : s[k] <= n
Within(a, n) == Until(a.name, n) /\ Until(a.value, n)

\* those of its value after its name and an equals sign, and
Apart(a) ==
  /\ a.value = <<>> <=> a.valueAt = 0
  /\ \A j \in DOMAIN a.name, k \in DOMAIN a.value :
       a.value[k] # 0 => a.name[j] + 1 < a.value[k]

\* those of the attributes before b before its name, which only is empty when
\* the lexer is about to read it.
Before(a, b) == \A j \in DOMAIN b.name : Within(a, b.name[j] - 1)

Named(i) ==
  attrs[i].name = <<>> =>
    /\ i = Len(attrs) /\ phase = "lex" /\ state = "AttrName" /\ again
    /\ ch \notin {" ", "/", ">", "=", Eof}

\* The last character that the lexer may have given to an attribute: the
\* ampersand of a reference waits for what follows it.
Handed == CASE state = "CharRef"      -> pos - 1
          [] state = "NamedCharRef" -> pos - 2
          [] OTHER                  -> Taken

Valuing == {"BeforeAttrVal", "DoubleQuote", "SingleQuote", "Unquoted", "CharRef",
            "NamedCharRef"}

SpreadInv ==
  /\ \A i \in DOMAIN attrs : /\ Named(i) /\ Apart(attrs[i]) /\ Within(attrs[i], Len(tag))
                             /\ \A h \in 1..(i - 1) : Before(attrs[h], attrs[i])
  /\ phase = "lex" =>
       /\ part = "gap" /\ rest = <<>> /\ read = 0 /\ out = <<>>
       /\ \A i \in DOMAIN attrs : Within(attrs[i], Handed)
       /\ state \in Valuing => Until(Cur.name, Handed - 1)
       /\ state = "CharRef" => ~again
       /\ state = "NamedCharRef" => again

\* What the parser has of the tag, and where its expressions begin: as many as
\* the names and values have symbols for, but for what is left to be read.
Tiled(s, a, b) ==
  IF s = <<>> THEN a = b
  ELSE /\ s[1].from = a + 1 /\ s[Len(s)].to = b
       /\ \A k \in 2..Len(s) : s[k].from = s[k - 1].to + 1

Begun(s) == {s[k].from : k \in {j \in DOMAIN s : s[j].kind = "expression"}}

Singles(n) == UNION {Single(attrs[i].name) \cup Single(attrs[i].value) : i \in 1..n}

Due == Singles(turn) \cup (IF part = "gap" THEN {} ELSE Single(Attr.name))
                     \cup (IF part = "value" THEN Single(Attr.value) ELSE {})

EmitInv ==
  /\ read >= 0 /\ Tiled(out, 0, read)
  /\ Begun(out) \cup Single(rest) = Due
  /\ part \in {"gap", "between"} => rest = <<>>
  /\ part = "gap" => read <= Len(tag) /\ (turn < Len(attrs) => read < Attr.nameAt)
  /\ part # "gap" => turn < Len(attrs)
  /\ part = "between" => read < Attr.nameAt + Len(Attr.name)
  /\ part = "value" => Attr.value # <<>>
  /\ part \in {"name", "value"} =>
       /\ read <= End
       /\ Symbols(Text) = {} => read = Start /\ rest = Text
       /\ Symbols(rest) # {} => Plain(rest, read + 1) /\ read + Len(rest) = End

AllPlain == \A i \in DOMAIN attrs : /\ Plain(attrs[i].name, attrs[i].nameAt)
                                    /\ Plain(attrs[i].value, attrs[i].valueAt)

KeptInv ==
  /\ SpreadInv
  /\ AllPlain => phase # "crashed" /\ (phase = "emit" => EmitInv)
  /\ KeptIfPlain
=============================================================================
