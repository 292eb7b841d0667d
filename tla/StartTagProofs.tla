--------------------------- MODULE StartTagProofs ---------------------------
(* Theorems about the reading of start tags, for tags of any length.       *)
EXTENDS StartTag, SequenceTheorems, FiniteSetTheorems, WellFoundedInduction, TLAPS

-----------------------------------------------------------------------------
(* The lexer. *)

LEMMA TagType ==
  ASSUME IInv
  PROVE  /\ tag \in Seq(STRING) /\ Len(tag) \in Nat /\ Len(tag) > 1
         /\ DOMAIN tag = 1..Len(tag) /\ pos \in Nat /\ pos <= Len(tag)
  <1>1. tag \in Seq(STRING) /\ Len(tag) > 1
    BY TagsAssumption DEF IInv
  <1> QED
    BY <1>1, LenProperties DEF IInv, TypeOK

\* What a state consumes.
LEMMA Consumed ==
  ASSUME IInv
  PROVE  /\ Pos \in 0..Len(tag) /\ pos <= Pos
         /\ Pos >= 1 /\ Pos \in Nat /\ <<Pos>> \in Seq(Nat) /\ <<pos>> \in Seq(Nat)
         /\ Char \in {tag[k] : k \in DOMAIN tag} \cup {Eof}
         /\ ~again /\ Char # Eof => Pos = pos + 1
         /\ again => Pos = pos /\ Char = ch
  <1>1. Pos \in 0..Len(tag) /\ pos <= Pos /\ Pos >= 1 /\ Pos \in Nat /\ pos \in Nat
    BY TagType DEF IInv, TypeOK, Pos
  <1>2. <<Pos>> \in Seq(Nat) /\ <<pos>> \in Seq(Nat)
    BY <1>1
  <1>3. Char \in {tag[k] : k \in DOMAIN tag} \cup {Eof}
    BY TagType DEF IInv, TypeOK, Char
  <1>4. /\ ~again /\ Char # Eof => Pos = pos + 1
        /\ again => Pos = pos /\ Char = ch
    BY TagType DEF Pos, Char
  <1> QED
    BY <1>1, <1>2, <1>3, <1>4

LEMMA NewAttrType ==
  ASSUME IInv, NewAttr
  PROVE  /\ attrs' \in Seq(Attributes) /\ attrs' # <<>>
         /\ Len(attrs') = Len(attrs) + 1
         /\ returnState' = returnState
  <1> DEFINE a == [name |-> <<>>, nameAt |-> 0, value |-> <<>>, valueAt |-> 0]
  <1>1. a \in Attributes
    BY DEF Attributes
  <1>2. attrs' = Append(attrs, a) /\ returnState' = returnState
    BY DEF NewAttr
  <1> HIDE DEF a
  <1> QED
    BY <1>1, <1>2, AppendProperties, SMTT(60) DEF IInv, TypeOK

LEMMA AppendCurrType ==
  ASSUME IInv, attrs # <<>>,
         NEW f, NEW at,
         \/ f = "name" /\ at = "nameAt"
         \/ f = "value" /\ at = "valueAt",
         NEW text \in Seq(Nat), NEW last \in Nat,
         AppendCurr(f, at, text, last)
  PROVE  /\ attrs' \in Seq(Attributes) /\ attrs' # <<>>
         /\ Len(attrs') = Len(attrs)
         /\ returnState' = returnState
  <1> DEFINE n == Len(attrs)
             old == attrs[n]
             new == [old EXCEPT ![f] = old[f] \o text,
                                ![at] = IF old[at] = 0 THEN last ELSE old[at]]
  <1>1. n \in 1..Len(attrs) /\ n # 0
    BY EmptySeq DEF IInv, TypeOK
  <1>2. old \in Attributes
    BY <1>1, ElementOfSeq DEF IInv, TypeOK
  <1>3. /\ old.name \o text \in Seq(Nat) /\ old.value \o text \in Seq(Nat)
        /\ old.nameAt \in Nat /\ old.valueAt \in Nat
    BY <1>2, ConcatProperties DEF Attributes
  <1>4. new \in Attributes
    <2>1. CASE f = "name" /\ at = "nameAt"
      BY <1>2, <1>3, <2>1 DEF Attributes
    <2>2. CASE f = "value" /\ at = "valueAt"
      BY <1>2, <1>3, <2>2 DEF Attributes
    <2> QED
      BY <2>1, <2>2
  <1>5. attrs' = [attrs EXCEPT ![n] = new] /\ returnState' = returnState
    BY DEF AppendCurr
  <1> HIDE DEF n, old, new
  <1>6. attrs' \in Seq(Attributes) /\ Len(attrs') = Len(attrs)
    BY <1>1, <1>4, <1>5, ExceptSeq DEF IInv, TypeOK, n
  <1> QED
    BY <1>1, <1>5, <1>6, EmptySeq DEF n

\* What consuming a character leaves to prove.
Moved == /\ phase' \in {"lex", "emit"} /\ err' \in BOOLEAN
         /\ state' \in States
         /\ again' \in BOOLEAN
         /\ returnState' \in {"Data", "DoubleQuote", "SingleQuote", "Unquoted"}
         /\ attrs' \in Seq(Attributes)
         /\ phase' = "lex" /\ attrs # <<>> => attrs' # <<>>

LEMMA Moves ==
  ASSUME IInv, phase = "lex", NEW s \in States
  PROVE  /\ To(s) => Moved /\ phase' = "lex" /\ state' = s /\ ~again' /\ attrs' = attrs
         /\ ReconsumeIn(s) => Moved /\ phase' = "lex" /\ state' = s /\ again' /\ attrs' = attrs
         /\ ToCharRef(s) /\ s \in {"DoubleQuote", "SingleQuote", "Unquoted"}
              => Moved /\ phase' = "lex" /\ state' = "CharRef" /\ attrs' = attrs
         /\ Break => Moved /\ phase' = "emit"
         /\ Error => Moved /\ phase' = "emit"
  <1>1. To(s) \/ ReconsumeIn(s) \/ Break => attrs' = attrs /\ returnState' = returnState
    BY DEF To, ReconsumeIn, Break, Same
  <1>2. ASSUME To(s)
        PROVE  Moved /\ phase' = "lex" /\ state' = s /\ ~again' /\ attrs' = attrs
    BY <1>1, <1>2 DEF IInv, TypeOK, Moved, To, Switch
  <1>3. ASSUME ReconsumeIn(s)
        PROVE  Moved /\ phase' = "lex" /\ state' = s /\ again' /\ attrs' = attrs
    BY <1>1, <1>3 DEF IInv, TypeOK, Moved, ReconsumeIn, Switch
  <1>4. ASSUME ToCharRef(s), s \in {"DoubleQuote", "SingleQuote", "Unquoted"}
        PROVE  Moved /\ phase' = "lex" /\ state' = "CharRef" /\ attrs' = attrs
    BY <1>4 DEF IInv, TypeOK, Moved, ToCharRef, Switch, States
  <1>5. ASSUME Break
        PROVE  Moved /\ phase' = "emit"
    BY <1>1, <1>5 DEF IInv, TypeOK, Moved, Break
  <1>6. ASSUME Error
        PROVE  Moved /\ phase' = "emit"
    <2>1. attrs' \in Seq(Attributes)
      BY <1>6, EmptySeq DEF Error
    <2> QED
      BY <1>6, <2>1 DEF IInv, TypeOK, Moved, Error
  <1> QED
    BY <1>2, <1>3, <1>4, <1>5, <1>6

LEMMA Writes ==
  ASSUME IInv, phase = "lex", NEW s \in States, NEW b \in BOOLEAN,
         NEW text \in Seq(Nat), NEW last \in Nat,
         Switch(s, b),
         \/ NewAttr
         \/ attrs # <<>> /\ (AppendName(text) \/ AppendVal(text, last))
  PROVE  Moved /\ phase' = "lex" /\ state' = s /\ again' = b /\ attrs' # <<>>
  <1>1. CASE NewAttr
    BY <1>1, NewAttrType DEF IInv, TypeOK, Moved, Switch
  <1>2. CASE attrs # <<>> /\ AppendVal(text, last)
    <2>1. attrs' \in Seq(Attributes) /\ attrs' # <<>> /\ returnState' = returnState
      BY <1>2, AppendCurrType DEF AppendVal
    <2> QED
      BY <1>2, <2>1 DEF IInv, TypeOK, Moved, Switch
  <1>3. CASE attrs # <<>> /\ AppendName(text)
    <2>1. attrs' \in Seq(Attributes) /\ attrs' # <<>> /\ returnState' = returnState
      <3>1. Pos \in Nat /\ AppendCurr("name", "nameAt", text, Pos)
        BY <1>3, Consumed, TagType DEF AppendName
      <3> QED
        BY <1>3, <3>1, AppendCurrType
    <2> QED
      BY <1>3, <2>1 DEF IInv, TypeOK, Moved, Switch
  <1> QED
    BY <1>1, <1>2, <1>3

\* With the types of the position, that is the invariant's part of a step.
LEMMA MovedType ==
  ASSUME IInv, phase = "lex", Moved, Hand', UNCHANGED <<tag, parser>>,
         pos' \in 0..Len(tag), pos' >= 1,
         ch' \in {tag[k] : k \in DOMAIN tag} \cup {Eof}
  PROVE  IInv'
  BY EmptySeq DEF IInv, TypeOK, Moved, parser

-----------------------------------------------------------------------------
(* One step per state. *)

LEMMA ConsumeType ==
  ASSUME IInv, NEW s, Consume(s), Moved, Hand'
  PROVE  IInv'
  <1>1. phase = "lex" /\ pos' = Pos /\ ch' = Char /\ UNCHANGED <<tag, parser>>
    BY DEF Consume
  <1> QED
    BY <1>1, Consumed, MovedType

LEMMA DataStep ==
  ASSUME IInv, Data
  PROVE  IInv'
  <1> USE DEF States
  <1>1. phase = "lex"
    BY DEF Data, Consume
  <1>2. Moved /\ (phase' = "lex" => state' = "TagOpen")
    BY <1>1, Moves DEF Data
  <1>3. Hand'
    BY <1>2 DEF Hand, AttrAtHand
  <1> QED
    BY <1>2, <1>3, ConsumeType DEF Data

LEMMA TagNameStep ==
  ASSUME IInv, TagOpen \/ TagName
  PROVE  IInv'
  <1> USE DEF States
  <1>1. phase = "lex"
    BY DEF Consume, TagOpen, TagName
  <1>2. Moved /\ (phase' = "lex" => state' \in {"TagName", "BeforeAttrName", "SelfClosing"})
    BY <1>1, Moves DEF TagOpen, TagName
  <1>3. Hand'
    BY <1>2 DEF Hand, AttrAtHand
  <1> QED
    BY <1>1, <1>2, <1>3, ConsumeType DEF TagOpen, TagName

LEMMA AttrNameStep ==
  ASSUME IInv, BeforeAttrName \/ AttrName \/ AfterAttrName
  PROVE  IInv'
  <1> USE DEF States
  <1>1. phase = "lex" /\ ch' = Char /\ Pos \in Nat /\ <<Pos>> \in Seq(Nat)
    BY Consumed DEF Consume, BeforeAttrName, AttrName, AfterAttrName
  <1>2. CASE BeforeAttrName
    <2>1. /\ Moved
          /\ phase' = "lex" => \/ state' = "BeforeAttrName"
                               \/ /\ state' = "AfterAttrName" /\ again'
                                  /\ Char \in {"/", ">", Eof}
                               \/ state' = "AttrName" /\ attrs' # <<>>
      BY <1>1, <1>2, Moves, Writes DEF BeforeAttrName
    <2>2. Hand'
      BY <1>1, <2>1 DEF Hand, AttrAtHand
    <2> QED
      BY <1>1, <1>2, <2>1, <2>2, ConsumeType DEF BeforeAttrName
  <1>3. CASE AttrName
    <2>1. attrs # <<>>
      BY <1>3 DEF AttrName, Consume, IInv, Hand, AttrAtHand
    <2>2. Moved
      BY <1>1, <1>3, <2>1, Moves, Writes DEF AttrName
    <2>3. phase' = "lex" => state' \in States /\ attrs' # <<>>
      BY <2>1, <2>2 DEF Moved
    <2>4. Hand'
      BY <2>3 DEF Hand, AttrAtHand
    <2> QED
      BY <1>1, <1>3, <2>2, <2>4, ConsumeType DEF AttrName
  <1>4. CASE AfterAttrName
    <2>1. CASE attrs = <<>>
      <3>1. again /\ Char \in {"/", ">", Eof}
        BY <1>1, <1>4, <2>1, Consumed DEF AfterAttrName, Consume, IInv, Hand
      <3>2. Char \notin {" ", "="}
        BY <3>1, CharsAssumption DEF Marks
      <3>3. Moved /\ (phase' = "lex" => state' = "SelfClosing")
        BY <1>1, <1>4, <3>1, <3>2, Moves DEF AfterAttrName
      <3>4. Hand'
        BY <3>3 DEF Hand, AttrAtHand
      <3> QED
        BY <1>1, <1>4, <3>3, <3>4, ConsumeType DEF AfterAttrName
    <2>2. CASE attrs # <<>>
      <3>1. Moved
        BY <1>1, <1>4, Moves, Writes DEF AfterAttrName
      <3>2. phase' = "lex" => attrs' # <<>>
        BY <2>2, <3>1 DEF Moved
      <3>3. Hand'
        BY <3>2 DEF Hand, AttrAtHand
      <3> QED
        BY <1>1, <1>4, <3>1, <3>3, ConsumeType DEF AfterAttrName
    <2> QED
      BY <2>1, <2>2
  <1> QED
    BY <1>2, <1>3, <1>4

LEMMA AttrValStep ==
  ASSUME IInv,
         \/ BeforeAttrVal \/ Unquoted \/ AfterQuoted \/ SelfClosing \/ CharRef
         \/ \E s \in {"DoubleQuote", "SingleQuote"} : Quoted(s)
  PROVE  IInv'
  <1> USE DEF States
  <1>1. /\ phase = "lex" /\ returnState \in States
        /\ Pos \in Nat /\ <<Pos>> \in Seq(Nat) /\ <<pos>> \in Seq(Nat)
    <2>1. phase = "lex"
      BY DEF Consume, BeforeAttrVal, Quoted, Unquoted, AfterQuoted, SelfClosing,
             CharRef
    <2> QED
      BY <2>1, Consumed DEF IInv, TypeOK
  <1>2. \E s \in States : Consume(s)
    BY DEF BeforeAttrVal, Quoted, Unquoted, AfterQuoted, SelfClosing, CharRef
  <1>3. CASE SelfClosing
    <2>1. Moved /\ phase' = "emit"
      BY <1>1, <1>3, Moves DEF SelfClosing
    <2>2. Hand'
      BY <2>1 DEF Hand, AttrAtHand
    <2> QED
      BY <1>1, <1>2, <2>1, <2>2, ConsumeType
  <1>4. CASE ~SelfClosing
    <2>1. attrs # <<>>
      BY <1>4 DEF BeforeAttrVal, Quoted, Unquoted, AfterQuoted, CharRef,
                  Consume, IInv, Hand, AttrAtHand
    <2>2. ASSUME BeforeAttrVal
          PROVE  Moved
      BY <1>1, <2>2, Moves DEF BeforeAttrVal
    <2>3. ASSUME \E s \in {"DoubleQuote", "SingleQuote"} : Quoted(s)
          PROVE  Moved
      <3>1. PICK s \in {"DoubleQuote", "SingleQuote"} : Quoted(s)
        BY <2>3
      <3> QED
        BY <1>1, <2>1, <3>1, Moves, Writes DEF Quoted
    <2>4. ASSUME Unquoted
          PROVE  Moved
      BY <1>1, <2>1, <2>4, Moves, Writes DEF Unquoted
    <2>5. ASSUME AfterQuoted
          PROVE  Moved
      BY <1>1, <2>5, Moves DEF AfterQuoted
    <2>6. ASSUME CharRef
          PROVE  Moved
      BY <1>1, <2>1, <2>6, Moves, Writes DEF CharRef
    <2>7. Moved
      BY <1>4, <2>2, <2>3, <2>4, <2>5, <2>6
    <2>8. phase' = "lex" => attrs' # <<>>
      BY <2>1, <2>7 DEF Moved
    <2>9. Hand'
      BY <2>8 DEF Hand, AttrAtHand
    <2> QED
      BY <1>1, <1>2, <2>7, <2>9, ConsumeType
  <1> QED
    BY <1>3, <1>4

LEMMA CharRefStep ==
  ASSUME IInv, NamedCharRef \/ Unimplemented
  PROVE  IInv'
  <1> USE DEF States
  <1>1. phase = "lex" /\ UNCHANGED <<tag, parser>> /\ returnState \in States
    BY DEF NamedCharRef, Unimplemented, IInv, TypeOK
  <1>2. CASE Unimplemented
    <2>1. state \in {"NumericCharRef", "AmbiguousAmpersand"}
          /\ pos' = pos /\ ch' = ch /\ Error
      BY <1>2 DEF Unimplemented
    <2>2. Moved /\ phase' = "emit"
      BY <1>1, <2>1, Moves
    <2>3. Hand'
      BY <2>2 DEF Hand, AttrAtHand
    <2>4. pos' \in 0..Len(tag) /\ pos' >= 1
          /\ ch' \in {tag[k] : k \in DOMAIN tag} \cup {Eof}
      BY <2>1 DEF IInv, TypeOK
    <2> QED
      BY <1>1, <2>2, <2>3, <2>4, MovedType
  <1>3. CASE NamedCharRef
    <2>1. attrs # <<>> /\ pos \in Nat /\ pos >= 1 /\ Len(tag) \in Nat /\ <<0>> \in Seq(Nat)
      <3>1. state = "NamedCharRef"
        BY <1>3 DEF NamedCharRef
      <3>2. attrs # <<>> /\ pos >= 1
        BY <1>1, <3>1 DEF IInv, Hand, AttrAtHand
      <3> QED
        BY <3>2, TagType
    <2> DEFINE text(a) == [k \in 1..(a - pos + 1) |-> pos + k - 2]
    <2>2. PICK a \in pos..(Len(tag) + 1) :
            /\ pos' = IF a > Len(tag) THEN Len(tag) ELSE a
            /\ ch' = IF a > Len(tag) THEN Eof ELSE tag[a]
            /\ \/ Switch(returnState, FALSE) /\ AppendVal(text(a), pos')
               \/ Switch(returnState, FALSE) /\ AppendVal(<<0>>, pos')
               \/ Error
               \/ Switch("AmbiguousAmpersand", FALSE) /\ AppendVal(text(a), pos')
      BY <1>3 DEF NamedCharRef
    <2>3. text(a) \in Seq(Nat)
      <3>1. text(a) \in [1..(a - pos + 1) -> Nat] /\ a - pos + 1 \in Nat
        BY <2>1
      <3> QED
        BY <3>1, SeqDef, SMTT(60)
    <2>4. pos' \in 0..Len(tag) /\ pos' >= 1 /\ pos' \in Nat
          /\ ch' \in {tag[k] : k \in DOMAIN tag} \cup {Eof}
      BY <2>1, <2>2, TagType
    <2> HIDE DEF text
    <2>5. Moved
      BY <1>1, <2>1, <2>2, <2>3, <2>4, Moves, Writes
    <2>6. Hand'
      BY <2>1, <2>5 DEF Moved, Hand, AttrAtHand
    <2> QED
      BY <1>1, <2>4, <2>5, <2>6, MovedType
  <1> QED
    BY <1>2, <1>3

-----------------------------------------------------------------------------
(* The parser. *)

\* What a step of parseStartTag leaves to prove.
LEMMA EmitType ==
  ASSUME IInv, phase = "emit", UNCHANGED <<tag, lexer>>,
         phase' \in {"emit", "done", "error", "crashed"},
         turn' \in 0..Len(attrs),
         part' \in {"gap", "name", "between", "value"},
         rest' \in Seq(Nat), read' \in Int, out' \in Seq(Pieces)
  PROVE  IInv'
  <1>1. TypeOK'
    BY DEF IInv, TypeOK, lexer
  <1>2. Hand'
    BY DEF Hand, AttrAtHand
  <1> QED
    BY <1>1, <1>2 DEF IInv, lexer

LEMMA Emits ==
  ASSUME IInv, NEW pieces \in Seq(Pieces), Emit(pieces), phase = "emit"
  PROVE  out' \in Seq(Pieces) /\ phase' \in {"emit", "crashed"}
  <1>1. out \in Seq(Pieces)
    BY DEF IInv, TypeOK
  <1>2. out \o pieces \in Seq(Pieces)
    BY <1>1, ConcatProperties
  <1> QED
    BY <1>1, <1>2 DEF Emit

LEMMA PieceType ==
  ASSUME NEW kind \in {"literal", "expression", "escape"}, NEW a \in Int, NEW b \in Int
  PROVE  /\ Piece(kind, a, b) \in Pieces
         /\ Literal(a, b) \in Pieces
         /\ <<Piece(kind, a, b)>> \in Seq(Pieces)
         /\ <<Literal(a, b)>> \in Seq(Pieces)
  BY DEF Piece, Pieces, Literal

LEMMA AttrType ==
  ASSUME IInv, turn < Len(attrs)
  PROVE  /\ Attr \in Attributes /\ turn \in Nat /\ Len(attrs) \in Nat
         /\ Attr.name \in Seq(Nat) /\ Attr.value \in Seq(Nat)
         /\ Attr.nameAt \in Nat /\ Attr.valueAt \in Nat
         /\ Text \in Seq(Nat) /\ Len(Text) \in Nat
         /\ Start \in Int /\ End \in Int
  <1>1. turn \in Nat /\ Len(attrs) \in Nat /\ attrs \in Seq(Attributes)
    BY LenProperties DEF IInv, TypeOK
  <1>2. Attr \in Attributes
    BY <1>1, ElementOfSeq DEF Attr
  <1>3. /\ Attr.name \in Seq(Nat) /\ Attr.value \in Seq(Nat)
        /\ Attr.nameAt \in Nat /\ Attr.valueAt \in Nat
    BY <1>2 DEF Attributes
  <1>4. Text \in Seq(Nat) /\ Len(Text) \in Nat
    BY <1>3, LenProperties DEF Text
  <1> QED
    BY <1>1, <1>2, <1>3, <1>4, SMTT(60) DEF Start, End

LEMMA LeaveType ==
  ASSUME IInv, turn < Len(attrs), Leave
  PROVE  /\ part' \in {"gap", "name", "between", "value"}
         /\ turn' \in 0..Len(attrs) /\ rest' \in Seq(Nat)
  <1>1. turn \in Nat /\ Len(attrs) \in Nat /\ <<>> \in Seq(Nat)
    BY AttrType, EmptySeq
  <1>2. CASE part = "name"
    BY <1>1, <1>2 DEF Leave, Begin
  <1>3. CASE part # "name"
    <2>1. part' = "gap" /\ rest' = <<>> /\ turn' = turn + 1
      BY <1>3 DEF Leave, NextAttr
    <2> QED
      BY <1>1, <2>1
  <1> QED
    BY <1>2, <1>3

LEMMA GapStep ==
  ASSUME IInv, Gap \/ Between
  PROVE  IInv'
  <1>1. /\ phase = "emit" /\ turn < Len(attrs) /\ UNCHANGED <<tag, lexer>>
        /\ read \in Int /\ out \in Seq(Pieces)
    BY DEF Gap, Between, Emitting, IInv, TypeOK
  <1>2. /\ turn \in 0..Len(attrs) /\ Len(attrs) \in Nat /\ <<>> \in Seq(Nat)
        /\ Attr.name \in Seq(Nat) /\ Attr.value \in Seq(Nat)
        /\ Attr.nameAt - 1 \in Int /\ Attr.valueAt - 1 \in Int
    BY <1>1, AttrType, EmptySeq, SMTT(60) DEF IInv, TypeOK
  <1>3. /\ <<Literal(read, Attr.nameAt - 1)>> \in Seq(Pieces)
        /\ <<Literal(read, Attr.valueAt - 1)>> \in Seq(Pieces)
    BY <1>1, <1>2, PieceType
  <1>4. CASE Gap
    <2>1. /\ read' \in Int /\ out' \in Seq(Pieces) /\ phase' \in {"emit", "crashed"}
          /\ part' = "name" /\ rest' = Attr.name /\ turn' = turn
      BY <1>1, <1>2, <1>3, <1>4, Emits DEF Gap, Begin
    <2> QED
      BY <1>1, <1>2, <2>1, EmitType
  <1>5. CASE Between
    <2>1. /\ read' \in Int /\ out' \in Seq(Pieces) /\ phase' \in {"emit", "crashed"}
          /\ part' \in {"gap", "value"} /\ rest' \in Seq(Nat) /\ turn' \in 0..Len(attrs)
      <3>1. CASE Attr.valueAt > read + 1
        BY <1>1, <1>2, <1>3, <1>5, <3>1, Emits DEF Between, Begin
      <3>2. CASE ~(Attr.valueAt > read + 1)
        <4>1. /\ part' = "gap" /\ rest' = <<>> /\ turn' = turn + 1
              /\ UNCHANGED <<phase, out, read>>
          BY <1>5, <3>2 DEF Between, NextAttr
        <4> QED
          BY <1>1, <1>2, <4>1
      <3> QED
        BY <3>1, <3>2
    <2> QED
      BY <1>1, <2>1, EmitType
  <1> QED
    BY <1>4, <1>5

LEMMA TextStep ==
  ASSUME IInv, NEW p \in {"name", "value"}, Verbatim(p) \/ LoopDone(p)
  PROVE  IInv'
  <1>1. /\ phase = "emit" /\ turn < Len(attrs) /\ UNCHANGED <<tag, lexer>>
        /\ read \in Int /\ out \in Seq(Pieces) /\ Leave
    BY DEF Verbatim, LoopDone, Looping, Emitting, IInv, TypeOK
  <1>2. /\ part' \in {"gap", "name", "between", "value"}
        /\ turn' \in 0..Len(attrs) /\ rest' \in Seq(Nat)
    BY <1>1, LeaveType
  <1>3. End \in Int /\ <<Literal(Start, End)>> \in Seq(Pieces)
    BY <1>1, AttrType, PieceType
  <1>4. read' \in Int /\ out' \in Seq(Pieces) /\ phase' \in {"emit", "crashed"}
    BY <1>1, <1>3, Emits DEF Verbatim, LoopDone
  <1> QED
    BY <1>1, <1>2, <1>4, EmitType

LEMMA RestType ==
  ASSUME IInv, NEW k \in DOMAIN rest
  PROVE  /\ k \in Nat /\ k >= 1 /\ k <= Len(rest) /\ Len(rest) \in Nat
         /\ \A i \in 1..Len(rest) : rest[i] \in Nat
         /\ \A m \in Nat : m >= 1 => SubSeq(rest, m, Len(rest)) \in Seq(Nat)
         /\ Lead(k) \in Seq(Pieces)
  <1>1. /\ k \in Nat /\ k >= 1 /\ k <= Len(rest) /\ Len(rest) \in Nat
        /\ \A i \in 1..Len(rest) : rest[i] \in Nat
    BY LenProperties, ElementOfSeq, SMTT(60) DEF IInv, TypeOK
  <1>2. ASSUME NEW m \in Nat, m >= 1
        PROVE  SubSeq(rest, m, Len(rest)) \in Seq(Nat)
    BY <1>1, <1>2, SubSeqProperties
  <1>3. Lead(k) \in Seq(Pieces)
    BY <1>1, PieceType, EmptySeq DEF Lead, IInv, TypeOK
  <1> QED
    BY <1>1, <1>2, <1>3

LEMMA EscapeStep ==
  ASSUME IInv, NEW p \in {"name", "value"}, Escape(p)
  PROVE  IInv'
  <1>1. /\ phase = "emit" /\ turn < Len(attrs) /\ UNCHANGED <<tag, lexer>>
        /\ read \in Int /\ turn' = turn /\ part' = part
    BY DEF Escape, Looping, Emitting, IInv, TypeOK
  <1>2. PICK k \in DOMAIN rest :
          /\ k + 1 \in DOMAIN rest
          /\ Emit(Lead(k) \o <<Literal(read + k - 1, read + k),
                               Piece("escape", rest[k + 1] - 1, rest[k + 1])>>)
          /\ read' = read + k + 1
          /\ rest' = SubSeq(rest, k + 2, Len(rest))
    BY DEF Escape, Symbols, At
  <1>3. /\ k \in Nat /\ k >= 1 /\ k + 2 \in Nat /\ rest[k + 1] \in Int
        /\ rest' \in Seq(Nat) /\ read' \in Int /\ Lead(k) \in Seq(Pieces)
    <2>1. k \in Nat /\ k >= 1 /\ Lead(k) \in Seq(Pieces) /\ read' \in Int
      BY <1>1, <1>2, RestType
    <2>2. k + 2 \in Nat /\ k + 2 >= 1
      BY <2>1
    <2>3. SubSeq(rest, k + 2, Len(rest)) \in Seq(Nat)
      BY <2>2, RestType
    <2>4. rest[k + 1] \in Nat
      BY <1>2, LenProperties, ElementOfSeq DEF IInv, TypeOK
    <2> QED
      BY <1>2, <2>1, <2>2, <2>3, <2>4
  <1> DEFINE two == <<Literal(read + k - 1, read + k),
                      Piece("escape", rest[k + 1] - 1, rest[k + 1])>>
  <1>4. two \in Seq(Pieces)
    BY <1>1, <1>3, PieceType, SMTT(60)
  <1> HIDE DEF two
  <1>5. Lead(k) \o two \in Seq(Pieces)
    BY <1>3, <1>4, ConcatProperties
  <1>6. out' \in Seq(Pieces) /\ phase' \in {"emit", "crashed"}
    BY <1>1, <1>2, <1>5, Emits DEF two
  <1> QED
    BY <1>1, <1>3, <1>6, EmitType DEF IInv, TypeOK

LEMMA TransitionStep ==
  ASSUME IInv, NEW p \in {"name", "value"}, Transition(p)
  PROVE  IInv'
  <1>1. /\ phase = "emit" /\ turn < Len(attrs) /\ UNCHANGED <<tag, lexer>>
        /\ read \in Int /\ turn' = turn /\ part' = part
    BY DEF Transition, Looping, Emitting, IInv, TypeOK
  <1>2. PICK k \in DOMAIN rest :
          \/ phase' \in {"error", "crashed"} /\ UNCHANGED <<rest, read, out>>
          \/ \E m \in ExprEnds(k) :
               /\ Emit(Lead(k) \o <<Piece("expression", rest[k] - 1, rest[m])>>)
               /\ read' = read + m
               /\ rest' = SubSeq(rest, m, Len(rest))
    BY DEF Transition, NoExpr
  <1>3. CASE phase' \in {"error", "crashed"} /\ UNCHANGED <<rest, read, out>>
    BY <1>1, <1>3, EmitType DEF IInv, TypeOK
  <1>4. CASE \E m \in ExprEnds(k) :
               /\ Emit(Lead(k) \o <<Piece("expression", rest[k] - 1, rest[m])>>)
               /\ read' = read + m
               /\ rest' = SubSeq(rest, m, Len(rest))
    <2>1. PICK m \in ExprEnds(k) :
               /\ Emit(Lead(k) \o <<Piece("expression", rest[k] - 1, rest[m])>>)
               /\ read' = read + m
               /\ rest' = SubSeq(rest, m, Len(rest))
      BY <1>4
    <2>2. m \in Nat /\ m >= 1 /\ m <= Len(rest)
      <3>1. k \in Nat /\ Len(rest) \in Nat /\ m \in (k + 1)..Len(rest)
        BY <2>1, RestType DEF ExprEnds
      <3> QED
        BY <3>1
    <2>3. rest' \in Seq(Nat) /\ read' \in Int /\ Lead(k) \in Seq(Pieces)
          /\ rest[k] \in Int /\ rest[m] \in Int
      BY <1>1, <2>1, <2>2, RestType
    <2>4. <<Piece("expression", rest[k] - 1, rest[m])>> \in Seq(Pieces)
      BY <2>3, PieceType
    <2>5. Lead(k) \o <<Piece("expression", rest[k] - 1, rest[m])>> \in Seq(Pieces)
      BY <2>3, <2>4, ConcatProperties
    <2>6. out' \in Seq(Pieces) /\ phase' \in {"emit", "crashed"}
      BY <1>1, <2>1, <2>5, Emits
    <2> QED
      BY <1>1, <2>3, <2>6, EmitType DEF IInv, TypeOK
  <1> QED
    BY <1>2, <1>3, <1>4

LEMMA RestStep ==
  ASSUME IInv, Rest
  PROVE  IInv'
  <1>1. /\ phase = "emit" /\ UNCHANGED <<tag, lexer>> /\ phase' \in {"done", "crashed"}
        /\ UNCHANGED <<turn, part, rest, read>>
    BY DEF Rest
  <1>2. Literal(read, Len(tag)) \in Pieces
    BY TagType, PieceType DEF IInv, TypeOK
  <1>3. out' \in Seq(Pieces)
    <2>1. out \in Seq(Pieces)
      BY DEF IInv, TypeOK
    <2>2. Append(out, Literal(read, Len(tag))) \in Seq(Pieces)
      BY <1>2, <2>1, AppendProperties
    <2> QED
      BY <2>1, <2>2 DEF Rest
  <1> QED
    BY <1>1, <1>3, EmitType DEF IInv, TypeOK

-----------------------------------------------------------------------------
(* Places. *)

\* A text that grows by the next character stays in its place.
LEMMA PlaceAppend ==
  ASSUME NEW s \in Seq(Nat), NEW at \in Nat, NEW p \in Nat, p >= 1,
         Placed(s, at), s = <<>> <=> at = 0, s = <<>> \/ at + Len(s) = p
  PROVE  /\ Placed(s \o <<p>>, IF at = 0 THEN p ELSE at)
         /\ s \o <<p>> # <<>>
         /\ (IF at = 0 THEN p ELSE at) # 0
         /\ (IF at = 0 THEN p ELSE at) + Len(s \o <<p>>) = p + 1
  <1> DEFINE t == s \o <<p>>
  <1>1. /\ t \in Seq(Nat) /\ Len(t) = Len(s) + 1 /\ Len(s) \in Nat
        /\ \A k \in 1..(Len(s) + 1) : t[k] = IF k <= Len(s) THEN s[k] ELSE p
        /\ DOMAIN s = 1..Len(s) /\ DOMAIN t = 1..Len(t)
    <2>1. <<p>> \in Seq(Nat) /\ Len(<<p>>) = 1 /\ <<p>>[1] = p
      OBVIOUS
    <2> QED
      BY <2>1, ConcatProperties, LenProperties
  <1> HIDE DEF t
  <1>2. CASE s = <<>>
    <2>1. Len(s) = 0 /\ at = 0
      BY <1>2, EmptySeq
    <2> QED
      BY <1>1, <2>1, EmptySeq DEF Placed, t
  <1>3. CASE s # <<>>
    <2>1. at # 0 /\ at + Len(s) = p /\ (IF at = 0 THEN p ELSE at) = at
      BY <1>3
    <2>2. \A k \in 1..Len(s) : s[k] = at + k - 1
      BY <1>1 DEF Placed
    <2>3. ASSUME NEW k \in 1..(Len(s) + 1) PROVE t[k] = at + k - 1
      <3>1. k \in 1..Len(s) \/ k = Len(s) + 1
        BY <1>1
      <3>2. CASE k \in 1..Len(s)
        <4>1. k <= Len(s)
          BY <1>1, <3>2
        <4> QED
          BY <1>1, <2>2, <3>2, <4>1
      <3>3. CASE k = Len(s) + 1
        <4>1. ~(k <= Len(s)) /\ at + k - 1 = p
          BY <1>1, <2>1, <3>3
        <4> QED
          BY <1>1, <3>3, <4>1
      <3> QED
        BY <3>1, <3>2, <3>3
    <2>4. Placed(t, at) /\ at + Len(t) = p + 1
      <3>1. DOMAIN t = 1..(Len(s) + 1) /\ Len(t) = Len(s) + 1 /\ Len(s) \in Nat
        BY <1>1
      <3>2. Placed(t, at)
        BY <2>3, <3>1 DEF Placed
      <3> QED
        BY <2>1, <3>1, <3>2
    <2>5. t # <<>>
      BY <1>1, EmptySeq
    <2> QED
      BY <2>1, <2>4, <2>5 DEF t
  <1> QED
    BY <1>2, <1>3

\* PlaceInv's part for one attribute; plain says that no reference is about.
AttrPlaced(a, plain) ==
  /\ Placed(a.name, a.nameAt) /\ (a.name = <<>> <=> a.nameAt = 0)
  /\ plain => /\ Placed(a.value, a.valueAt)
              /\ a.value = <<>> <=> a.valueAt = 0

NoRef == ~Has("&")
AllPlaced == \A i \in DOMAIN attrs : AttrPlaced(attrs[i], NoRef)

\* And its part for the lexer.
Growing ==
  phase = "lex" =>
    /\ state \in {"AttrName", "BeforeAttrVal"} => Cur.value = <<>>
    /\ state = "AfterAttrName" => \/ again /\ ch \in {"/", ">", Eof}
                                  \/ attrs # <<>> /\ Cur.value = <<>>
    /\ state = "AttrName" => Grows(Cur.name, Cur.nameAt)
    /\ ~Has("&") =>
         /\ state \notin {"CharRef", "NamedCharRef"}
         /\ state \in {"DoubleQuote", "SingleQuote", "Unquoted"}
              => Grows(Cur.value, Cur.valueAt)

LEMMA PlaceParts == PlaceInv <=> AllPlaced /\ Growing
  BY DEF PlaceInv, AllPlaced, AttrPlaced, NoRef, Growing, InPlace

LEMMA PlaceParts2 ==
  ASSUME tag' = tag
  PROVE  /\ NoRef' <=> NoRef
         /\ PlaceInv' <=> (\A i \in DOMAIN attrs' : AttrPlaced(attrs'[i], NoRef)) /\ Growing'
  <1>1. NoRef' <=> NoRef
    BY DEF NoRef, Has
  <1>2. PlaceInv' <=> AllPlaced' /\ Growing'
    BY PlaceParts, PTL
  <1>3. AllPlaced' <=> \A i \in DOMAIN attrs' : AttrPlaced(attrs'[i], NoRef)
    BY <1>1 DEF AllPlaced, AttrPlaced
  <1> QED
    BY <1>1, <1>2, <1>3

\* Where characters are consumed and attributes stay.
LEMMA SameAttrs ==
  ASSUME PlaceInv, attrs' = attrs, tag' = tag, Growing'
  PROVE  PlaceInv'
  BY PlaceParts, PlaceParts2 DEF AllPlaced

LEMMA OutOfLexer ==
  ASSUME PlaceInv, tag' = tag, phase' # "lex", attrs' = attrs \/ attrs' = <<>>
  PROVE  PlaceInv'
  <1>1. Growing'
    BY DEF Growing
  <1>2. CASE attrs' = attrs
    BY <1>1, <1>2, SameAttrs
  <1>3. CASE attrs' = <<>>
    BY <1>1, <1>3, PlaceParts2
  <1> QED
    BY <1>2, <1>3

\* A new attribute is empty.
LEMMA NewAttrPlaced ==
  ASSUME IInv, PlaceInv, NewAttr, tag' = tag
  PROVE  /\ \A i \in DOMAIN attrs' : AttrPlaced(attrs'[i], NoRef)
         /\ attrs' # <<>>
         /\ Cur'.name = <<>> /\ Cur'.value = <<>>
  <1> DEFINE a == [name |-> <<>>, nameAt |-> 0, value |-> <<>>, valueAt |-> 0]
  <1>1. a \in Attributes /\ a.name = <<>> /\ a.value = <<>> /\ a.nameAt = 0 /\ a.valueAt = 0
    BY DEF Attributes
  <1>2. attrs' = Append(attrs, a)
    BY DEF NewAttr
  <1> HIDE DEF a
  <1>3. /\ Len(attrs') = Len(attrs) + 1 /\ attrs'[Len(attrs) + 1] = a /\ attrs' # <<>>
        /\ \A i \in 1..Len(attrs) : attrs'[i] = attrs[i]
        /\ DOMAIN attrs' = 1..(Len(attrs) + 1) /\ DOMAIN attrs = 1..Len(attrs)
        /\ Len(attrs) \in Nat
    BY <1>1, <1>2, AppendProperties, LenProperties, SMTT(60) DEF IInv, TypeOK
  <1>4. AttrPlaced(a, NoRef)
    BY <1>1 DEF AttrPlaced, Placed
  <1>5. ASSUME NEW i \in 1..Len(attrs)
        PROVE  AttrPlaced(attrs'[i], NoRef)
    BY <1>3, <1>5, PlaceParts DEF AllPlaced
  <1> QED
    BY <1>1, <1>3, <1>4, <1>5 DEF Cur

\* What an attribute that text is appended to becomes.
LEMMA AppendedTo ==
  ASSUME IInv, attrs # <<>>, NEW f, NEW at,
         \/ f = "name" /\ at = "nameAt"
         \/ f = "value" /\ at = "valueAt",
         NEW text \in Seq(Nat), NEW last \in Nat,
         AppendCurr(f, at, text, last)
  PROVE  /\ DOMAIN attrs' = DOMAIN attrs /\ attrs' # <<>> /\ Len(attrs') \in DOMAIN attrs
         /\ \A i \in DOMAIN attrs : i # Len(attrs') => attrs'[i] = attrs[i]
         /\ Cur \in Attributes /\ Cur = attrs[Len(attrs')]
         /\ f = "name" => /\ Cur'.name = Cur.name \o text
                          /\ Cur'.nameAt = IF Cur.nameAt = 0 THEN last ELSE Cur.nameAt
                          /\ Cur'.value = Cur.value /\ Cur'.valueAt = Cur.valueAt
         /\ f = "value" => /\ Cur'.value = Cur.value \o text
                           /\ Cur'.valueAt = IF Cur.valueAt = 0 THEN last ELSE Cur.valueAt
                           /\ Cur'.name = Cur.name /\ Cur'.nameAt = Cur.nameAt
  <1> DEFINE n == Len(attrs)
             old == attrs[n]
             new == [old EXCEPT ![f] = old[f] \o text,
                                ![at] = IF old[at] = 0 THEN last ELSE old[at]]
  <1>1. /\ n \in 1..Len(attrs) /\ DOMAIN attrs = 1..Len(attrs) /\ attrs \in Seq(Attributes)
    BY EmptySeq, LenProperties DEF IInv, TypeOK
  <1>2. old \in Attributes
    BY <1>1, ElementOfSeq
  <1>3. f = "name" => /\ new.name = old.name \o text
                      /\ new.nameAt = IF old.nameAt = 0 THEN last ELSE old.nameAt
                      /\ new.value = old.value /\ new.valueAt = old.valueAt
    BY <1>2 DEF Attributes
  <1>4. f = "value" => /\ new.value = old.value \o text
                       /\ new.valueAt = IF old.valueAt = 0 THEN last ELSE old.valueAt
                       /\ new.name = old.name /\ new.nameAt = old.nameAt
    BY <1>2 DEF Attributes
  <1>5. attrs' = [attrs EXCEPT ![n] = new]
    BY DEF AppendCurr
  <1> HIDE DEF new, old
  <1>6. /\ DOMAIN attrs' = DOMAIN attrs /\ attrs'[n] = new
        /\ \A i \in DOMAIN attrs : i # n => attrs'[i] = attrs[i]
    BY <1>1, <1>5
  <1>7. Len(attrs') = n /\ attrs' # <<>>
    BY AppendCurrType
  <1>8. Cur = old /\ Cur' = new
    BY <1>6, <1>7 DEF Cur, old
  <1>9. /\ DOMAIN attrs' = DOMAIN attrs /\ attrs' # <<>> /\ Len(attrs') \in DOMAIN attrs
        /\ \A i \in DOMAIN attrs : i # Len(attrs') => attrs'[i] = attrs[i]
        /\ Cur \in Attributes /\ Cur = attrs[Len(attrs')]
    BY <1>1, <1>2, <1>6, <1>7, <1>8 DEF old
  <1> QED
    BY <1>3, <1>4, <1>8, <1>9

LEMMA NamePlaced ==
  ASSUME IInv, PlaceInv, phase = "lex", state = "AttrName", attrs # <<>>,
         Char # Eof, AppendName(<<Pos>>), tag' = tag, pos' = Pos,
         state' = "AttrName", ~again'
  PROVE  PlaceInv'
  <1>1. /\ Pos \in Nat /\ Pos >= 1 /\ <<Pos>> \in Seq(Nat)
        /\ ~again => Pos = pos + 1
    BY Consumed
  <1>2. AppendCurr("name", "nameAt", <<Pos>>, Pos)
    BY DEF AppendName
  <1>3. /\ DOMAIN attrs' = DOMAIN attrs /\ attrs' # <<>> /\ Len(attrs') \in DOMAIN attrs
        /\ \A i \in DOMAIN attrs : i # Len(attrs') => attrs'[i] = attrs[i]
        /\ Cur \in Attributes /\ Cur = attrs[Len(attrs')]
        /\ Cur'.name = Cur.name \o <<Pos>>
        /\ Cur'.nameAt = IF Cur.nameAt = 0 THEN Pos ELSE Cur.nameAt
        /\ Cur'.value = Cur.value /\ Cur'.valueAt = Cur.valueAt
    BY <1>1, <1>2, AppendedTo
  <1>4. /\ AttrPlaced(Cur, NoRef) /\ Cur.value = <<>> /\ Grows(Cur.name, Cur.nameAt)
    BY <1>3, PlaceParts DEF AllPlaced, Growing
  <1>5. Cur.name \in Seq(Nat) /\ Cur.nameAt \in Nat
    BY <1>3 DEF Attributes
  <1>6. Cur.name = <<>> \/ Cur.nameAt + Len(Cur.name) = Pos
    BY <1>1, <1>4 DEF Grows
  <1>7. /\ Placed(Cur'.name, Cur'.nameAt) /\ Cur'.name # <<>> /\ Cur'.nameAt # 0
        /\ Cur'.nameAt + Len(Cur'.name) = Pos + 1
    BY <1>1, <1>3, <1>4, <1>5, <1>6, PlaceAppend, SMTT(60) DEF AttrPlaced
  <1>8. AttrPlaced(Cur', NoRef)
    BY <1>3, <1>4, <1>7 DEF AttrPlaced
  <1>9. \A i \in DOMAIN attrs' : AttrPlaced(attrs'[i], NoRef)
    BY <1>3, <1>8, PlaceParts DEF AllPlaced, Cur
  <1>10. Growing'
    BY <1>3, <1>4, <1>7 DEF Growing, Grows
  <1> QED
    BY <1>9, <1>10, PlaceParts2

LEMMA ValuePlaced ==
  ASSUME IInv, PlaceInv, phase = "lex", attrs # <<>>, tag' = tag,
         NEW text \in Seq(Nat), NEW last \in Nat, AppendVal(text, last),
         state' \notin {"AttrName", "BeforeAttrVal", "AfterAttrName"},
         NoRef => /\ state \in {"DoubleQuote", "SingleQuote", "Unquoted"}
                  /\ text = <<Pos>> /\ last = Pos /\ Char # Eof
                  /\ pos' = Pos /\ state' = state /\ ~again'
  PROVE  PlaceInv'
  <1>1. AppendCurr("value", "valueAt", text, last)
    BY DEF AppendVal
  <1>2. /\ DOMAIN attrs' = DOMAIN attrs /\ attrs' # <<>> /\ Len(attrs') \in DOMAIN attrs
        /\ \A i \in DOMAIN attrs : i # Len(attrs') => attrs'[i] = attrs[i]
        /\ Cur \in Attributes /\ Cur = attrs[Len(attrs')]
        /\ Cur'.value = Cur.value \o text
        /\ Cur'.valueAt = IF Cur.valueAt = 0 THEN last ELSE Cur.valueAt
        /\ Cur'.name = Cur.name /\ Cur'.nameAt = Cur.nameAt
    BY <1>1, AppendedTo
  <1>3. AttrPlaced(Cur, NoRef)
    BY <1>2, PlaceParts DEF AllPlaced
  <1>4. Cur.value \in Seq(Nat) /\ Cur.valueAt \in Nat
    BY <1>2 DEF Attributes
  <1>5. ASSUME NoRef
        PROVE  /\ Placed(Cur'.value, Cur'.valueAt) /\ Cur'.value # <<>> /\ Cur'.valueAt # 0
               /\ Cur'.valueAt + Len(Cur'.value) = pos' + 1
    <2>1. /\ Pos \in Nat /\ Pos >= 1 /\ (~again => Pos = pos + 1)
      BY <1>5, Consumed
    <2>2. Grows(Cur.value, Cur.valueAt)
      BY <1>5, PlaceParts DEF Growing, NoRef
    <2>3. Cur.value = <<>> \/ Cur.valueAt + Len(Cur.value) = Pos
      BY <2>1, <2>2 DEF Grows
    <2>4. text = <<Pos>> /\ last = Pos /\ pos' = Pos
      BY <1>5
    <2>5. Placed(Cur.value, Cur.valueAt) /\ (Cur.value = <<>> <=> Cur.valueAt = 0)
      BY <1>3, <1>5 DEF AttrPlaced
    <2>6. /\ Cur'.value = Cur.value \o <<Pos>>
          /\ Cur'.valueAt = IF Cur.valueAt = 0 THEN Pos ELSE Cur.valueAt
      BY <1>2, <2>4
    <2> DEFINE v == Cur.value
               at == Cur.valueAt
    <2>7. /\ Placed(v \o <<Pos>>, IF at = 0 THEN Pos ELSE at) /\ v \o <<Pos>> # <<>>
          /\ (IF at = 0 THEN Pos ELSE at) # 0
          /\ (IF at = 0 THEN Pos ELSE at) + Len(v \o <<Pos>>) = Pos + 1
      <3>1. /\ v \in Seq(Nat) /\ at \in Nat /\ Placed(v, at) /\ (v = <<>> <=> at = 0)
            /\ v = <<>> \/ at + Len(v) = Pos
        BY <1>4, <2>3, <2>5
      <3> HIDE DEF v, at
      <3> QED
        BY <2>1, <3>1, PlaceAppend
    <2> QED
      BY <2>4, <2>6, <2>7
  <1>6. AttrPlaced(Cur', NoRef)
    BY <1>2, <1>3, <1>5 DEF AttrPlaced
  <1>7. \A i \in DOMAIN attrs' : AttrPlaced(attrs'[i], NoRef)
    BY <1>2, <1>6, PlaceParts DEF AllPlaced, Cur
  <1>8. Growing'
    <2>1. NoRef' <=> NoRef
      BY PlaceParts2
    <2>2. NoRef => /\ state' \in {"DoubleQuote", "SingleQuote", "Unquoted"}
                   /\ Grows(Cur.value, Cur.valueAt)'
      BY <1>5 DEF Grows
    <2> QED
      BY <2>1, <2>2 DEF Growing, NoRef
  <1> QED
    BY <1>7, <1>8, PlaceParts2

\* Without references there is no ampersand to consume.
LEMMA NoAmpersand == ASSUME IInv, NoRef PROVE Char # "&"
  BY Consumed, CharsAssumption DEF NoRef, Has, Marks

\* States that expect nothing of the last attribute.
LEMMA QuietPlaced ==
  ASSUME PlaceInv, tag' = tag, attrs' = attrs,
         state' \in {"TagOpen", "TagName", "BeforeAttrName", "SelfClosing", "AfterQuoted"}
  PROVE  PlaceInv'
  <1>1. Growing'
    BY DEF Growing
  <1> QED
    BY <1>1, SameAttrs

\* And those that expect it to be without a value.
LEMMA EmptyPlaced ==
  ASSUME PlaceInv, tag' = tag, attrs' = attrs, attrs # <<>>, Cur.value = <<>>,
         state' \in {"AfterAttrName", "BeforeAttrVal", "DoubleQuote", "SingleQuote", "Unquoted"}
  PROVE  PlaceInv'
  <1>1. Cur' = Cur
    BY DEF Cur
  <1>2. Growing'
    BY <1>1 DEF Growing, Grows
  <1> QED
    BY <1>2, SameAttrs

LEMMA NewPlaced ==
  ASSUME IInv, PlaceInv, tag' = tag, NewAttr, state' = "AttrName"
  PROVE  PlaceInv'
  <1>1. /\ \A i \in DOMAIN attrs' : AttrPlaced(attrs'[i], NoRef)
        /\ Cur'.name = <<>> /\ Cur'.value = <<>>
    BY NewAttrPlaced
  <1>2. Growing'
    BY <1>1 DEF Growing, Grows
  <1> QED
    BY <1>1, <1>2, PlaceParts2

\* The character reference states are not entered without an ampersand.
LEMMA RefPlaced ==
  ASSUME PlaceInv, tag' = tag, attrs' = attrs, ~NoRef,
         state' \in {"CharRef", "NamedCharRef", "NumericCharRef"}
  PROVE  PlaceInv'
  <1>1. ~NoRef'
    BY PlaceParts2
  <1>2. Growing'
    BY <1>1 DEF Growing, NoRef
  <1> QED
    BY <1>2, SameAttrs

LEMMA LeavesLexer ==
  ASSUME PlaceInv, tag' = tag, Break \/ Error
  PROVE  PlaceInv'
  BY OutOfLexer DEF Break, Error, Same

LEMMA Gets ==
  ASSUME NEW s
  PROVE  /\ To(s) => state' = s /\ attrs' = attrs
         /\ ReconsumeIn(s) => state' = s /\ attrs' = attrs /\ again'
         /\ ToCharRef(s) => state' = "CharRef" /\ attrs' = attrs
  BY DEF To, ReconsumeIn, ToCharRef, Switch, Same

LEMMA NamesPlaced ==
  ASSUME IInv, PlaceInv,
         \/ Data \/ TagOpen \/ TagName \/ BeforeAttrName \/ AttrName
         \/ AfterAttrName \/ AfterQuoted \/ SelfClosing
  PROVE  PlaceInv'
  <1>1. phase = "lex" /\ tag' = tag /\ pos' = Pos /\ ch' = Char
    BY DEF Data, TagOpen, TagName, BeforeAttrName, AttrName, AfterAttrName,
           AfterQuoted, SelfClosing, Consume
  <1>2. CASE Data \/ TagOpen \/ TagName \/ AfterQuoted \/ SelfClosing
    BY <1>1, <1>2, Gets, QuietPlaced, LeavesLexer
    DEF Data, TagOpen, TagName, AfterQuoted, SelfClosing
  <1>3. CASE BeforeAttrName
    <2>1. CASE Char = " " /\ To("BeforeAttrName")
      BY <1>1, <2>1, Gets, QuietPlaced
    <2>2. CASE Char \in {"/", ">", Eof} /\ ReconsumeIn("AfterAttrName")
      <3>1. attrs' = attrs /\ state' = "AfterAttrName" /\ again' /\ ch' \in {"/", ">", Eof}
        BY <1>1, <2>2, Gets
      <3>2. Growing'
        BY <3>1 DEF Growing
      <3> QED
        BY <1>1, <3>1, <3>2, SameAttrs
    <2>3. CASE Char = "=" /\ Error
      BY <1>1, <2>3, LeavesLexer
    <2>4. CASE Switch("AttrName", TRUE) /\ NewAttr
      BY <1>1, <2>4, NewPlaced DEF Switch
    <2> QED
      BY <1>3, <2>1, <2>2, <2>3, <2>4 DEF BeforeAttrName
  <1>4. CASE AttrName
    <2>1. attrs # <<>> /\ state = "AttrName" /\ Cur.value = <<>>
      <3>1. state = "AttrName"
        BY <1>4 DEF AttrName, Consume
      <3> QED
        BY <1>1, <3>1, PlaceParts DEF IInv, Hand, AttrAtHand, Growing
    <2>2. CASE ReconsumeIn("AfterAttrName") \/ To("BeforeAttrVal")
      BY <1>1, <2>1, <2>2, Gets, EmptyPlaced
    <2>3. CASE Error
      BY <1>1, <2>3, LeavesLexer
    <2>4. CASE Char # Eof /\ Switch("AttrName", FALSE) /\ AppendName(<<Pos>>)
      BY <1>1, <2>1, <2>4, NamePlaced DEF Switch
    <2> QED
      BY <1>4, <2>2, <2>3, <2>4 DEF AttrName
  <1>5. CASE AfterAttrName
    <2>1. Char \in {" ", "="} => attrs # <<>> /\ Cur.value = <<>>
      <3>1. \/ again /\ ch \in {"/", ">", Eof}
            \/ attrs # <<>> /\ Cur.value = <<>>
        BY <1>1, <1>5, PlaceParts DEF AfterAttrName, Consume, Growing
      <3>2. again => Char = ch
        BY Consumed
      <3>3. Eof \notin {" ", "="}
        BY CharsAssumption DEF Marks
      <3> QED
        BY <3>1, <3>2, <3>3
    <2>2. CASE \/ Char = " " /\ To("AfterAttrName")
               \/ Char = "=" /\ To("BeforeAttrVal")
      BY <1>1, <2>1, <2>2, Gets, EmptyPlaced
    <2>3. CASE To("SelfClosing")
      BY <1>1, <2>3, Gets, QuietPlaced
    <2>4. CASE Break \/ Error
      BY <1>1, <2>4, LeavesLexer
    <2>5. CASE Switch("AttrName", TRUE) /\ NewAttr
      BY <1>1, <2>5, NewPlaced DEF Switch
    <2> QED
      BY <1>5, <2>2, <2>3, <2>4, <2>5 DEF AfterAttrName
  <1> QED
    BY <1>2, <1>3, <1>4, <1>5

\* A character of a value, in the state that is in.
LEMMA CharPlaced ==
  ASSUME IInv, PlaceInv, NEW s \in {"DoubleQuote", "SingleQuote", "Unquoted"},
         Consume(s)
  PROVE  /\ To("AfterQuoted") \/ To("BeforeAttrName") => PlaceInv'
         /\ Char = "&" /\ ToCharRef(s) => PlaceInv'
         /\ Break \/ Error => PlaceInv'
         /\ Char # Eof /\ Switch(s, FALSE) /\ AppendVal(<<Pos>>, Pos) => PlaceInv'
  <1>1. phase = "lex" /\ state = s /\ tag' = tag /\ pos' = Pos
    BY DEF Consume
  <1>2. ASSUME To("AfterQuoted") \/ To("BeforeAttrName")
        PROVE  PlaceInv'
    BY <1>1, <1>2, Gets, QuietPlaced
  <1>3. ASSUME Char = "&", ToCharRef(s)
        PROVE  PlaceInv'
    BY <1>1, <1>3, Gets, NoAmpersand, RefPlaced
  <1>4. ASSUME Break \/ Error
        PROVE  PlaceInv'
    BY <1>1, <1>4, LeavesLexer
  <1>5. ASSUME Char # Eof, Switch(s, FALSE), AppendVal(<<Pos>>, Pos)
        PROVE  PlaceInv'
    <2>1. attrs # <<>> /\ <<Pos>> \in Seq(Nat) /\ Pos \in Nat
      BY <1>1, Consumed DEF IInv, Hand, AttrAtHand
    <2>2. state' = s /\ ~again'
      BY <1>5 DEF Switch
    <2> QED
      BY <1>1, <1>5, <2>1, <2>2, ValuePlaced
  <1> QED
    BY <1>2, <1>3, <1>4, <1>5

LEMMA ValuesPlaced ==
  ASSUME IInv, PlaceInv,
         \/ BeforeAttrVal \/ Unquoted
         \/ \E s \in {"DoubleQuote", "SingleQuote"} : Quoted(s)
  PROVE  PlaceInv'
  <1>1. CASE BeforeAttrVal
    <2>1. phase = "lex" /\ state = "BeforeAttrVal" /\ tag' = tag
      BY <1>1 DEF BeforeAttrVal, Consume
    <2>2. attrs # <<>> /\ Cur.value = <<>>
      BY <2>1, PlaceParts DEF IInv, Hand, AttrAtHand, Growing
    <2>3. CASE \/ To("BeforeAttrVal") \/ To("DoubleQuote") \/ To("SingleQuote")
               \/ ReconsumeIn("Unquoted")
      BY <2>1, <2>2, <2>3, Gets, EmptyPlaced
    <2>4. CASE Error
      BY <2>1, <2>4, LeavesLexer
    <2> QED
      BY <1>1, <2>3, <2>4 DEF BeforeAttrVal
  <1>2. CASE Unquoted
    <2>1. Consume("Unquoted")
      BY <1>2 DEF Unquoted
    <2> QED
      BY <1>2, <2>1, CharPlaced DEF Unquoted
  <1>3. CASE \E s \in {"DoubleQuote", "SingleQuote"} : Quoted(s)
    <2>1. PICK s \in {"DoubleQuote", "SingleQuote"} : Quoted(s)
      BY <1>3
    <2>2. Consume(s)
      BY <2>1 DEF Quoted
    <2> QED
      BY <2>1, <2>2, CharPlaced DEF Quoted
  <1> QED
    BY <1>1, <1>2, <1>3

LEMMA RefsPlaced ==
  ASSUME IInv, PlaceInv, CharRef \/ NamedCharRef \/ Unimplemented
  PROVE  PlaceInv'
  <1>1. phase = "lex" /\ tag' = tag
    BY DEF CharRef, NamedCharRef, Unimplemented, Consume
  <1>2. CASE Unimplemented
    BY <1>1, <1>2, LeavesLexer DEF Unimplemented
  <1>3. CASE ~Unimplemented
    <2>1. state \in {"CharRef", "NamedCharRef"}
      BY <1>3 DEF CharRef, NamedCharRef, Consume
    <2>2. attrs # <<>> /\ ~NoRef /\ pos \in Nat /\ pos >= 1
      BY <1>1, <2>1, PlaceParts, TagType DEF IInv, Hand, AttrAtHand, Growing, NoRef
    <2>3. returnState \notin {"AttrName", "BeforeAttrVal", "AfterAttrName"}
      BY DEF IInv, TypeOK
    <2>4. ASSUME NEW text \in Seq(Nat), NEW last \in Nat, NEW b, AppendVal(text, last),
                 Switch(returnState, b) \/ Switch("AmbiguousAmpersand", b)
          PROVE  PlaceInv'
      <3>1. state' \notin {"AttrName", "BeforeAttrVal", "AfterAttrName"}
        BY <2>3, <2>4 DEF Switch
      <3> QED
        BY <1>1, <2>2, <2>4, <3>1, ValuePlaced
    <2>5. CASE CharRef
      <3>1. <<pos>> \in Seq(Nat) /\ Pos \in Nat
        BY Consumed
      <3> QED
        BY <1>1, <2>2, <2>4, <2>5, <3>1, Gets, RefPlaced DEF CharRef
    <2>6. CASE NamedCharRef
      <3> DEFINE text(a) == [k \in 1..(a - pos + 1) |-> pos + k - 2]
      <3>1. PICK a \in pos..(Len(tag) + 1) :
              /\ pos' = IF a > Len(tag) THEN Len(tag) ELSE a
              /\ \/ Switch(returnState, FALSE) /\ AppendVal(text(a), pos')
                 \/ Switch(returnState, FALSE) /\ AppendVal(<<0>>, pos')
                 \/ Error
                 \/ Switch("AmbiguousAmpersand", FALSE) /\ AppendVal(text(a), pos')
        BY <2>6 DEF NamedCharRef
      <3>2. Len(tag) \in Nat /\ pos' \in Nat /\ <<0>> \in Seq(Nat)
        BY <2>2, <3>1, TagType
      <3>3. text(a) \in Seq(Nat)
        <4>1. text(a) \in [1..(a - pos + 1) -> Nat] /\ a - pos + 1 \in Nat
          BY <2>2, <3>2
        <4> QED
          BY <4>1, SeqDef, SMTT(60)
      <3> HIDE DEF text
      <3> QED
        BY <1>1, <2>4, <3>1, <3>2, <3>3, LeavesLexer
    <2> QED
      BY <1>3, <2>5, <2>6
  <1> QED
    BY <1>2, <1>3

\* The parser does not touch what the lexer has found.
LEMMA ParserPlaced ==
  ASSUME PlaceInv,
         \/ Gap \/ Between \/ Rest
         \/ \E p \in {"name", "value"} :
              Verbatim(p) \/ Escape(p) \/ Transition(p) \/ LoopDone(p)
  PROVE  PlaceInv'
  <1>1. phase = "emit" /\ UNCHANGED <<tag, lexer>>
    BY DEF Gap, Between, Rest, Verbatim, Escape, Transition, LoopDone, Looping, Emitting
  <1>2. \A pieces : Emit(pieces) => phase' # "lex"
    BY <1>1 DEF Emit
  <1>3. phase' # "lex"
    BY <1>1, <1>2 DEF Gap, Between, Rest, Verbatim, Escape, Transition, LoopDone, NoExpr
  <1> QED
    BY <1>1, <1>3, OutOfLexer DEF lexer

-----------------------------------------------------------------------------
(* How the tokenizer reads.                                                *)

\* A set of naturals has a least element.
LEMMA LeastNatural ==
  ASSUME NEW T \in SUBSET Nat, T # {}
  PROVE  \E n \in T : \A m \in T : n <= m
  <1> DEFINE R == OpToRel(<, Nat)
  <1>1. IsWellFoundedOn(R, Nat)
    BY NatLessThanWellFounded
  <1>2. PICK n \in T : \A m \in T : ~ (<<m, n>> \in R)
    <2> HIDE DEF R
    <2> QED
      BY <1>1, WFMin
  <1>3. \A m \in T : ~ (m < n)
    BY <1>2 DEF OpToRel
  <1> QED
    BY <1>3

\* Induction, over a set instead of a predicate.
LEMMA NatSetInduction ==
  ASSUME NEW T \in SUBSET Nat, 0 \in T, \A n \in T : n + 1 \in T
  PROVE  T = Nat
  <1> SUFFICES ASSUME Nat \ T # {} PROVE FALSE
    OBVIOUS
  <1>1. PICK n \in Nat \ T : \A m \in Nat \ T : n <= m
    BY LeastNatural
  <1>2. n # 0 /\ n - 1 \in Nat
    BY <1>1
  <1>3. n - 1 \in T
    BY <1>1, <1>2
  <1> QED
    BY <1>1, <1>2, <1>3

\* The recursive function that ReadOf is exists.
LEMMA ReadSteps ==
  ASSUME NEW t, Len(t) \in Nat, Len(t) > 0
  PROVE  /\ ReadOf(t)[1] = "name"
         /\ \A k \in 2..Len(t) : ReadOf(t)[k] = ReadOn(ReadOf(t)[k - 1], t[k])
  <1> DEFINE Steps(f, n) == /\ f[1] = "name"
                            /\ \A i \in 2..n : f[i] = ReadOn(f[i - 1], t[i])
             Stepped(n) == \E f : Steps(f, n)
             U == {n \in Nat : Stepped(n + 1)}
  <1>1. Stepped(1)
    <2>1. Steps([i \in {1} |-> "name"], 1)
      OBVIOUS
    <2> QED
      BY <2>1
  <1>2. ASSUME NEW n \in Nat, Stepped(n + 1) PROVE Stepped(n + 2)
    <2>0. n \in Nat
      BY <1>2
    <2>1. PICK f : Steps(f, n + 1)
      BY <1>2
    <2> DEFINE g == [i \in 1..(n + 2) |-> IF i = n + 2 THEN ReadOn(f[n + 1], t[n + 2])
                                          ELSE f[i]]
    <2>2. g[1] = "name"
      BY <2>0, <2>1
    <2>3. ASSUME NEW i \in 2..(n + 2) PROVE g[i] = ReadOn(g[i - 1], t[i])
      <3>1. i - 1 \in 1..(n + 2) /\ i - 1 # n + 2 /\ i \in 1..(n + 2)
        BY <2>0, <2>3
      <3>2. g[i - 1] = f[i - 1]
        BY <3>1
      <3>3. g[i] = IF i = n + 2 THEN ReadOn(f[n + 1], t[n + 2]) ELSE f[i]
        BY <3>1
      <3>4. i # n + 2 => f[i] = ReadOn(f[i - 1], t[i])
        BY <2>0, <2>1, <2>3
      <3>5. i = n + 2 => i - 1 = n + 1
        BY <2>0
      <3> HIDE DEF g
      <3> QED
        BY <3>2, <3>3, <3>4, <3>5
    <2>4. Steps(g, n + 2)
      <3> HIDE DEF g
      <3> QED
        BY <2>2, <2>3
    <2> QED
      BY <2>4
  <1>3. U = Nat
    <2>1. 0 \in U
      BY <1>1
    <2>2. ASSUME NEW n \in U PROVE n + 1 \in U
      <3>1. n \in Nat /\ (n + 1) + 1 = n + 2
        OBVIOUS
      <3>2. Stepped(n + 1)
        OBVIOUS
      <3> HIDE DEF Stepped
      <3> QED
        BY <1>2, <3>1, <3>2
    <2> HIDE DEF U
    <2> QED
      BY <2>1, <2>2, NatSetInduction DEF U
  <1> HIDE DEF Stepped
  <1>4. Stepped(Len(t))
    <2>1. Len(t) - 1 \in Nat /\ (Len(t) - 1) + 1 = Len(t)
      OBVIOUS
    <2>2. Stepped((Len(t) - 1) + 1)
      BY <1>3, <2>1
    <2> QED
      BY <2>1, <2>2
  <1> DEFINE body(f) == [k \in 1..Len(t) |->
                           IF k = 1 THEN "name" ELSE ReadOn(f[k - 1], t[k])]
             r == CHOOSE f : f = body(f)
  <1>5. r = body(r)
    <2>1. PICK f : Steps(f, Len(t))
      BY <1>4 DEF Stepped
    <2> DEFINE g == [i \in 1..Len(t) |-> f[i]]
    <2>2. g = body(g)
      <3>1. \A k \in 1..Len(t) : k # 1 => k \in 2..Len(t) /\ k - 1 \in 1..Len(t)
        OBVIOUS
      <3>2. \A k \in 1..Len(t) : k # 1 => g[k - 1] = f[k - 1]
        BY <3>1
      <3>3. \A k \in 1..Len(t) : f[k] = IF k = 1 THEN "name" ELSE ReadOn(g[k - 1], t[k])
        BY <2>1, <3>1, <3>2
      <3> QED
        BY <3>3
    <2> QED
      BY <2>2
  <1>6. ReadOf(t) = r
    BY DEF ReadOf
  <1> HIDE DEF r
  <1>7. \A k \in 1..Len(t) : r[k] = IF k = 1 THEN "name" ELSE ReadOn(r[k - 1], t[k])
    BY <1>5
  <1>8. 1 \in 1..Len(t) /\ \A k \in 2..Len(t) : k \in 1..Len(t) /\ k # 1
    OBVIOUS
  <1> QED
    BY <1>6, <1>7, <1>8

\* A step of it, where the lexer is.
Reads == ReadOf(tag)[Taken]

\* A character to be consumed again is the last one consumed.
Rereads == again /\ ch # Eof => pos >= 1 /\ ch = tag[pos]

\* What the lexer is through with after consuming a character, and what the
\* tokenizer is in then.
LEMMA Takes ==
  ASSUME IInv, phase = "lex", Rereads, tag' = tag, pos' = Pos, ch' = Char
  PROVE  /\ Taken \in Int /\ Pos \in Nat
         /\ Char = Eof => Pos = Taken
         /\ Char # Eof => Pos = Taken + 1 /\ Pos \in DOMAIN tag /\ tag[Pos] = Char
         /\ again' => Taken' = Taken
         /\ ~again' => Taken' = Pos
         /\ Rereads'
         /\ Char # Eof /\ Taken >= 1 => ReadOf(tag)[Pos] = ReadOn(Reads, Char)
  <1>1. /\ DOMAIN tag = 1..Len(tag) /\ Len(tag) \in Nat /\ pos \in Nat /\ pos <= Len(tag)
        /\ Len(tag) > 1 /\ Pos \in Nat
    BY TagType, Consumed
  <1>2. \A k \in 1..Len(tag) : tag[k] # Eof
    BY TagsAssumption, ElementOfSeq, SMTT(60) DEF IInv
  <1>3. pos # Len(tag) => pos < Len(tag) /\ pos + 1 \in DOMAIN tag
    <2>1. Len(tag) \in Nat /\ pos \in Nat /\ pos <= Len(tag)
      BY <1>1
    <2>2. pos # Len(tag) => pos < Len(tag) /\ pos + 1 \in 1..Len(tag)
      BY <2>1
    <2> QED
      BY <1>1, <2>2
  <1>4. /\ Taken \in Int
        /\ Char = Eof => Pos = Taken
        /\ Char # Eof => Pos = Taken + 1 /\ Pos \in DOMAIN tag /\ tag[Pos] = Char
    <2>1. CASE again /\ ch = Eof
      BY <1>1, <2>1 DEF Char, Pos, Taken
    <2>2. CASE again /\ ch # Eof
      <3>1. Char = ch /\ Pos = pos /\ Taken = pos - 1
        BY <2>2 DEF Char, Pos, Taken
      <3>2. pos >= 1 /\ ch = tag[pos]
        BY <2>2 DEF Rereads
      <3> QED
        BY <1>1, <2>2, <3>1, <3>2
    <2>3. CASE ~again /\ pos = Len(tag)
      <3>1. Char = Eof /\ Pos = pos /\ Taken = pos
        BY <1>1, <2>3 DEF Char, Pos, Taken
      <3> QED
        BY <1>1, <3>1
    <2>4. CASE ~again /\ pos # Len(tag)
      <3>1. pos < Len(tag) /\ pos + 1 \in DOMAIN tag
        BY <1>3, <2>4
      <3>2. Char = tag[pos + 1] /\ Pos = pos + 1 /\ Taken = pos
        BY <2>4, <3>1 DEF Char, Pos, Taken
      <3>3. Char # Eof
        BY <1>1, <1>2, <3>1, <3>2
      <3> QED
        BY <1>1, <3>1, <3>2, <3>3
    <2> QED
      BY <2>1, <2>2, <2>3, <2>4
  <1>5. /\ again' => Taken' = Taken
        /\ ~again' => Taken' = Pos
    <2>1. CASE again'
      BY <1>1, <1>4, <2>1 DEF Taken
    <2>2. CASE ~again'
      BY <2>2 DEF Taken
    <2> QED
      BY <2>1, <2>2
  <1>6. Rereads'
    BY <1>1, <1>4 DEF Rereads
  <1>7. Char # Eof /\ Taken >= 1 => ReadOf(tag)[Pos] = ReadOn(Reads, Char)
    <2> SUFFICES ASSUME Char # Eof, Taken >= 1
                 PROVE  ReadOf(tag)[Pos] = ReadOn(Reads, Char)
      OBVIOUS
    <2>1. Pos \in 2..Len(tag) /\ Pos - 1 = Taken /\ tag[Pos] = Char
      BY <1>1, <1>4
    <2>2. Len(tag) > 0
      BY <1>1
    <2> QED
      BY <1>1, <2>1, <2>2, ReadSteps DEF Reads
  <1> QED
    BY <1>1, <1>4, <1>5, <1>6, <1>7

-----------------------------------------------------------------------------
(* What attributes hold.                                                   *)

\* The places in attribute a, the i-th, that hold the character at k.
Held(a, i, k) == ({<<i, "name">>} \X Positions(a.name, k))
                 \cup ({<<i, "value">>} \X Positions(a.value, k))

LEMMA PositionsAppended ==
  ASSUME NEW s \in Seq(Nat), NEW text \in Seq(Nat), NEW k
  PROVE  /\ (\A j \in DOMAIN text : text[j] # k) => Positions(s \o text, k) = Positions(s, k)
         /\ text = <<k>> => Positions(s \o text, k) = Positions(s, k) \cup {Len(s) + 1}
  <1>1. /\ s \o text \in Seq(Nat) /\ Len(s \o text) = Len(s) + Len(text)
        /\ \A j \in 1..(Len(s) + Len(text)) :
             (s \o text)[j] = IF j <= Len(s) THEN s[j] ELSE text[j - Len(s)]
        /\ Len(s) \in Nat /\ Len(text) \in Nat /\ DOMAIN s = 1..Len(s)
        /\ DOMAIN text = 1..Len(text) /\ DOMAIN (s \o text) = 1..(Len(s) + Len(text))
    BY ConcatProperties, LenProperties
  <1> DEFINE t == s \o text
  <1>2. \A j \in 1..Len(s) : j \in DOMAIN t /\ t[j] = s[j]
    BY <1>1
  <1>3. \A j \in DOMAIN t : j \in 1..Len(s) \/ (j - Len(s) \in 1..Len(text) /\ t[j] = text[j - Len(s)])
    BY <1>1
  <1>4. ASSUME \A j \in DOMAIN text : text[j] # k
        PROVE  Positions(t, k) = Positions(s, k)
    <2>1. \A j \in DOMAIN t : t[j] = k => j \in 1..Len(s)
      BY <1>1, <1>3, <1>4
    <2> HIDE DEF t
    <2> QED
      BY <1>1, <1>2, <2>1 DEF Positions
  <1>5. ASSUME text = <<k>>
        PROVE  Positions(t, k) = Positions(s, k) \cup {Len(s) + 1}
    <2>1. Len(text) = 1 /\ text[1] = k
      BY <1>5
    <2>2. Len(s) + 1 \in DOMAIN t /\ t[Len(s) + 1] = k
      BY <1>1, <2>1
    <2>3. \A j \in DOMAIN t : j \in 1..Len(s) \/ j = Len(s) + 1
      BY <1>1, <2>1
    <2> HIDE DEF t
    <2> QED
      BY <1>1, <1>2, <2>2, <2>3 DEF Positions
  <1> QED
    BY <1>4, <1>5

\* What appending to the last attribute does to them.
Joined(u, D) == UNION {u[i] : i \in D}

LEMMA MoreHeld ==
  ASSUME NEW D, NEW n \in D, NEW u, NEW v, NEW e,
         \A i \in D : i # n => v[i] = u[i], v[n] = u[n] \cup e
  PROVE  Joined(v, D) = Joined(u, D) \cup e
  <1>1. ASSUME NEW x \in Joined(v, D)
        PROVE  x \in Joined(u, D) \cup e
    <2>1. PICK i \in D : x \in v[i]
      BY DEF Joined
    <2>2. x \in u[i] \/ x \in e
      BY <2>1
    <2> QED
      BY <2>2 DEF Joined
  <1>2. ASSUME NEW x \in Joined(u, D)
        PROVE  x \in Joined(v, D)
    <2>1. PICK i \in D : x \in u[i]
      BY DEF Joined
    <2>2. x \in v[i]
      BY <2>1
    <2> QED
      BY <2>2 DEF Joined
  <1>3. ASSUME NEW x \in e
        PROVE  x \in Joined(v, D)
    <2>1. x \in v[n]
      OBVIOUS
    <2> QED
      BY <2>1 DEF Joined
  <1> QED
    BY <1>1, <1>2, <1>3

Grown(a, b, text) == \/ b.name = a.name \o text /\ b.value = a.value
                     \/ b.value = a.value \o text /\ b.name = a.name

\* What text changes of what the i-th one holds of the character at k.
Gains(a, b, text, i, k) ==
  /\ (\A j \in DOMAIN text : text[j] # k) => Held(b, i, k) = Held(a, i, k)
  /\ text = <<k>> => \E h : Held(b, i, k) = Held(a, i, k) \cup {h}

LEMMA HeldAppended ==
  ASSUME NEW a \in Attributes, NEW b \in Attributes, NEW text \in Seq(Nat), NEW i, NEW k,
         Grown(a, b, text)
  PROVE  Gains(a, b, text, i, k)
  <1>1. a.name \in Seq(Nat) /\ a.value \in Seq(Nat)
    BY DEF Attributes
  <1>2. ASSUME \A j \in DOMAIN text : text[j] # k
        PROVE  Held(b, i, k) = Held(a, i, k)
    <2>1. /\ Positions(a.name \o text, k) = Positions(a.name, k)
          /\ Positions(a.value \o text, k) = Positions(a.value, k)
      BY <1>1, <1>2, PositionsAppended
    <2>2. /\ Positions(b.name, k) = Positions(a.name, k)
          /\ Positions(b.value, k) = Positions(a.value, k)
      BY <2>1 DEF Grown
    <2> QED
      BY <2>2 DEF Held
  <1>3. ASSUME text = <<k>>
        PROVE  \E h : Held(b, i, k) = Held(a, i, k) \cup {h}
    <2>1. CASE b.name = a.name \o text /\ b.value = a.value
      <3> DEFINE m == Len(a.name) + 1
      <3>1. Positions(a.name \o text, k) = Positions(a.name, k) \cup {m}
        BY <1>1, <1>3, PositionsAppended, ZenonT(60)
      <3>2. /\ Positions(b.name, k) = Positions(a.name, k) \cup {m}
            /\ Positions(b.value, k) = Positions(a.value, k)
        BY <2>1, <3>1
      <3> HIDE DEF m
      <3>3. Held(b, i, k) = Held(a, i, k) \cup {<<<<i, "name">>, m>>}
        BY <3>2 DEF Held
      <3> QED
        BY <3>3
    <2>2. CASE b.value = a.value \o text /\ b.name = a.name
      <3> DEFINE m == Len(a.value) + 1
      <3>1. Positions(a.value \o text, k) = Positions(a.value, k) \cup {m}
        BY <1>1, <1>3, PositionsAppended, ZenonT(60)
      <3>2. /\ Positions(b.value, k) = Positions(a.value, k) \cup {m}
            /\ Positions(b.name, k) = Positions(a.name, k)
        BY <2>2, <3>1
      <3> HIDE DEF m
      <3>3. Held(b, i, k) = Held(a, i, k) \cup {<<<<i, "value">>, m>>}
        BY <3>2 DEF Held
      <3> QED
        BY <3>3
    <2> QED
      BY <2>1, <2>2 DEF Grown
  <1> QED
    BY <1>2, <1>3 DEF Gains

HoldsMore(text, k) ==
  /\ (\A j \in DOMAIN text : text[j] # k) => Holders(k)' = Holders(k)
  /\ text = <<k>> => \E h : Holders(k)' = Holders(k) \cup {h}

LEMMA HoldersAppended ==
  ASSUME IInv, attrs # <<>>, NEW f, NEW at,
         \/ f = "name" /\ at = "nameAt"
         \/ f = "value" /\ at = "valueAt",
         NEW text \in Seq(Nat), NEW last \in Nat,
         AppendCurr(f, at, text, last), NEW k
  PROVE  HoldsMore(text, k)
  <1>1. /\ DOMAIN attrs' = DOMAIN attrs /\ Len(attrs') \in DOMAIN attrs
        /\ \A i \in DOMAIN attrs : i # Len(attrs') => attrs'[i] = attrs[i]
        /\ Cur \in Attributes /\ Cur = attrs[Len(attrs')]
        /\ f = "name" => Cur'.name = Cur.name \o text /\ Cur'.value = Cur.value
        /\ f = "value" => Cur'.value = Cur.value \o text /\ Cur'.name = Cur.name
    BY AppendedTo
  <1> DEFINE n == Len(attrs')
             D == DOMAIN attrs
             u == [i \in D |-> Held(attrs[i], i, k)]
             v == [i \in D |-> Held(attrs'[i], i, k)]
  <1>2. attrs' \in Seq(Attributes) /\ attrs' # <<>>
    BY AppendCurrType
  <1>3. Cur' \in Attributes
    <2>1. Len(attrs') \in 1..Len(attrs')
      BY <1>2, EmptySeq, LenProperties
    <2>2. attrs'[Len(attrs')] \in Attributes
      BY <1>2, <2>1, ElementOfSeq
    <2> QED
      BY <2>2 DEF Cur
  <1>4. /\ (\A j \in DOMAIN text : text[j] # k) => Held(Cur', n, k) = Held(Cur, n, k)
        /\ text = <<k>> => \E h : Held(Cur', n, k) = Held(Cur, n, k) \cup {h}
    <2>1. Grown(Cur, Cur', text)
      BY <1>1 DEF Grown
    <2>2. Cur \in Attributes
      BY <1>1
    <2>3. text \in Seq(Nat)
      OBVIOUS
    <2>4. Gains(Cur, Cur', text, n, k)
      BY <1>3, <2>1, <2>2, <2>3, HeldAppended
    <2> QED
      BY <2>4 DEF Gains
  <1>5. Cur' = attrs'[n] /\ Cur = attrs[n] /\ n \in D
    BY <1>1 DEF Cur
  <1>6. Holders(k) = Joined(u, D) /\ Holders(k)' = Joined(v, D)
    <2>1. /\ Holders(k) = UNION {Held(attrs[i], i, k) : i \in D}
          /\ Holders(k)' = UNION {Held(attrs'[i], i, k) : i \in D}
      BY <1>1 DEF Holders, Held
    <2> QED
      BY <2>1 DEF Joined
  <1>7. /\ \A i \in D : i # n => v[i] = u[i]
        /\ v[n] = Held(Cur', n, k) /\ u[n] = Held(Cur, n, k)
    BY <1>1, <1>5
  <1> HIDE DEF n, D, u, v
  <1>8. ASSUME \A j \in DOMAIN text : text[j] # k
        PROVE  Holders(k)' = Holders(k)
    <2> DEFINE e == {}
    <2>1. v[n] = u[n] \cup e
      BY <1>4, <1>7, <1>8
    <2> HIDE DEF e
    <2>2. Joined(v, D) = Joined(u, D) \cup e
      BY <1>5, <1>7, <2>1, MoreHeld
    <2> QED
      BY <1>6, <2>2 DEF e
  <1>9. ASSUME text = <<k>>
        PROVE  \E h : Holders(k)' = Holders(k) \cup {h}
    <2>1. PICK h : Held(Cur', n, k) = Held(Cur, n, k) \cup {h}
      BY <1>4, <1>9
    <2> DEFINE e == {h}
    <2>2. v[n] = u[n] \cup e
      BY <1>7, <2>1
    <2> HIDE DEF e
    <2>3. Joined(v, D) = Joined(u, D) \cup e
      BY <1>5, <1>7, <2>2, MoreHeld
    <2>4. Holders(k)' = Holders(k) \cup e
      BY <1>6, <2>3
    <2> QED
      BY <2>4 DEF e
  <1> QED
    BY <1>8, <1>9 DEF HoldsMore

\* Nothing holds what is not taken yet.
LEMMA NotHeld ==
  ASSUME Given, NEW k \in Int, Taken \in Int, k > Taken
  PROVE  Holders(k) = {}
  <1>1. ASSUME NEW i \in DOMAIN attrs
        PROVE  Held(attrs[i], i, k) = {}
    <2>1. /\ \A j \in DOMAIN attrs[i].name : attrs[i].name[j] # k
          /\ \A j \in DOMAIN attrs[i].value : attrs[i].value[j] # k
      BY DEF Given
    <2> QED
      BY <2>1 DEF Held, Positions
  <1>2. Holders(k) = UNION {Held(attrs[i], i, k) : i \in DOMAIN attrs}
    BY DEF Holders, Held
  <1>3. ASSUME NEW x, x \in Holders(k)
        PROVE  FALSE
    <2>1. PICK i \in DOMAIN attrs : x \in Held(attrs[i], i, k)
      BY <1>2, <1>3
    <2> QED
      BY <1>1, <2>1
  <1> QED
    BY <1>3

LEMMA SameAttributed ==
  ASSUME tag' = tag
  PROVE  \A k : Attributed(k)' <=> Attributed(k)
  BY DEF Attributed, Has

\* A text that has what is taken now, and of what was taken before nothing that
\* is to be held only once.
Fits(text) ==
  /\ Taken \in Int /\ Taken' \in Int /\ Taken <= Taken'
  /\ \A j \in DOMAIN text : text[j] <= Taken'
  /\ \A k \in 1..Taken' :
       Attributed(k) => \/ k <= Taken /\ \A j \in DOMAIN text : text[j] # k
                        \/ k > Taken /\ text = <<k>>

LEMMA GivenAppended ==
  ASSUME IInv, attrs # <<>>, NEW f, NEW at,
         \/ f = "name" /\ at = "nameAt"
         \/ f = "value" /\ at = "valueAt",
         NEW text \in Seq(Nat), NEW last \in Nat,
         AppendCurr(f, at, text, last),
         Given, tag' = tag, Fits(text)
  PROVE  Given'
  <1>1. Taken \in Int /\ Taken' \in Int /\ Taken <= Taken'
    BY DEF Fits
  <1>2. ASSUME NEW k \in 1..Taken', Attributed(k)
        PROVE  Cardinality(Holders(k)') = 1
    <2>1. HoldsMore(text, k)
      BY HoldersAppended
    <2>2. CASE k <= Taken /\ \A j \in DOMAIN text : text[j] # k
      <3>1. Holders(k)' = Holders(k)
        BY <2>1, <2>2 DEF HoldsMore
      <3>2. k \in 1..Taken
        BY <1>1, <2>2
      <3> QED
        BY <1>2, <3>1, <3>2 DEF Given
    <2>3. CASE k > Taken /\ text = <<k>>
      <3>1. PICK h : Holders(k)' = Holders(k) \cup {h}
        BY <2>1, <2>3 DEF HoldsMore
      <3>2. k \in Int
        OBVIOUS
      <3>3. Holders(k) = {}
        BY <1>1, <2>3, <3>2, NotHeld
      <3>4. Holders(k)' = {h}
        BY <3>1, <3>3
      <3> QED
        BY <3>4, FS_Singleton
    <2> QED
      BY <1>2, <2>2, <2>3 DEF Fits
  <1>3. /\ DOMAIN attrs' = DOMAIN attrs /\ Len(attrs') \in DOMAIN attrs
        /\ \A i \in DOMAIN attrs : i # Len(attrs') => attrs'[i] = attrs[i]
        /\ Cur \in Attributes /\ Cur = attrs[Len(attrs')] /\ Cur' = attrs'[Len(attrs')]
        /\ f = "name" => Cur'.name = Cur.name \o text /\ Cur'.value = Cur.value
        /\ f = "value" => Cur'.value = Cur.value \o text /\ Cur'.name = Cur.name
    BY AppendedTo DEF Cur
  <1>4. ASSUME NEW i \in DOMAIN attrs, NEW s \in Seq(Nat),
               s \in {attrs[i].name, attrs[i].value}
        PROVE  \A j \in DOMAIN s : s[j] <= Taken'
    <2>1. \A j \in DOMAIN s : s[j] <= Taken /\ s[j] \in Nat
      BY <1>4, ElementOfSeq, LenProperties DEF Given
    <2> QED
      BY <1>1, <2>1
  <1>5. ASSUME NEW s \in Seq(Nat), \A j \in DOMAIN s : s[j] <= Taken'
        PROVE  \A j \in DOMAIN (s \o text) : (s \o text)[j] <= Taken'
    <2>1. /\ DOMAIN (s \o text) = 1..(Len(s) + Len(text))
          /\ \A j \in 1..(Len(s) + Len(text)) :
               (s \o text)[j] = IF j <= Len(s) THEN s[j] ELSE text[j - Len(s)]
          /\ Len(s) \in Nat /\ Len(text) \in Nat /\ DOMAIN s = 1..Len(s)
          /\ DOMAIN text = 1..Len(text)
      BY ConcatProperties, LenProperties
    <2>2. ASSUME NEW j \in 1..(Len(s) + Len(text))
          PROVE  (s \o text)[j] <= Taken'
      <3>1. CASE j <= Len(s)
        <4>1. j \in DOMAIN s /\ (s \o text)[j] = s[j]
          BY <2>1, <3>1
        <4> QED
          BY <1>5, <4>1
      <3>2. CASE ~(j <= Len(s))
        <4>1. j - Len(s) \in DOMAIN text /\ (s \o text)[j] = text[j - Len(s)]
          BY <2>1, <3>2
        <4> QED
          BY <4>1 DEF Fits
      <3> QED
        BY <3>1, <3>2
    <2> QED
      BY <2>1, <2>2
  <1> DEFINE Low(s) == \A j \in DOMAIN s : s[j] <= Taken'
  <1>6. ASSUME NEW i \in DOMAIN attrs
        PROVE  Low(attrs'[i].name) /\ Low(attrs'[i].value)
    <2>1. attrs[i].name \in Seq(Nat) /\ attrs[i].value \in Seq(Nat)
      <3>1. attrs[i] \in Attributes
        BY ElementOfSeq, LenProperties DEF IInv, TypeOK
      <3> QED
        BY <3>1 DEF Attributes
    <2>2. Low(attrs[i].name) /\ Low(attrs[i].value)
      BY <1>4, <2>1
    <2>3. Low(attrs[i].name \o text) /\ Low(attrs[i].value \o text)
      BY <1>5, <2>1, <2>2
    <2> HIDE DEF Low
    <2>4. \/ attrs'[i] = attrs[i]
          \/ attrs'[i].name = attrs[i].name \o text /\ attrs'[i].value = attrs[i].value
          \/ attrs'[i].value = attrs[i].value \o text /\ attrs'[i].name = attrs[i].name
      BY <1>3
    <2> QED
      BY <2>2, <2>3, <2>4
  <1>7. \A k : Attributed(k)' <=> Attributed(k)
    BY SameAttributed
  <1> QED
    BY <1>2, <1>3, <1>6, <1>7 DEF Given

\* And where no text grows.
LEMMA GivenSame ==
  ASSUME IInv, Given, tag' = tag, Taken \in Int, Taken' \in Int,
         attrs' = attrs \/ NewAttr,
         \A k \in 1..Taken' : Attributed(k) => k <= Taken, Taken <= Taken'
  PROVE  Given'
  <1>1. /\ \A k : Holders(k)' = Holders(k)
        /\ \A i \in DOMAIN attrs' : \/ i \in DOMAIN attrs /\ attrs'[i] = attrs[i]
                                    \/ attrs'[i].name = <<>> /\ attrs'[i].value = <<>>
    <2>1. CASE attrs' = attrs
      BY <2>1 DEF Holders
    <2>2. CASE NewAttr
      <3> DEFINE a == [name |-> <<>>, nameAt |-> 0, value |-> <<>>, valueAt |-> 0]
      <3>1. a.name = <<>> /\ a.value = <<>> /\ a \in Attributes
        BY DEF Attributes
      <3>2. attrs' = Append(attrs, a)
        BY <2>2 DEF NewAttr
      <3> HIDE DEF a
      <3>3. /\ DOMAIN attrs' = DOMAIN attrs \cup {Len(attrs) + 1}
            /\ attrs'[Len(attrs) + 1] = a /\ \A i \in DOMAIN attrs : attrs'[i] = attrs[i]
        <4>1. /\ DOMAIN attrs' = 1..(Len(attrs) + 1) /\ DOMAIN attrs = 1..Len(attrs)
              /\ attrs'[Len(attrs) + 1] = a /\ \A i \in 1..Len(attrs) : attrs'[i] = attrs[i]
              /\ Len(attrs) \in Nat
          BY <3>1, <3>2, AppendProperties, LenProperties DEF IInv, TypeOK
        <4> QED
          BY <4>1
      <3>4. ASSUME NEW k PROVE Holders(k)' = Holders(k)
        <4> DEFINE n == Len(attrs) + 1
        <4>1. Held(a, n, k) = {}
          BY <3>1 DEF Held, Positions
        <4>2. /\ Holders(k) = UNION {Held(attrs[i], i, k) : i \in DOMAIN attrs}
              /\ Holders(k)' = UNION {Held(attrs'[i], i, k) : i \in DOMAIN attrs'}
          BY DEF Holders, Held
        <4> HIDE DEF n
        <4>3. ASSUME NEW x, x \in Holders(k)' PROVE x \in Holders(k)
          <5>1. PICK i \in DOMAIN attrs' : x \in Held(attrs'[i], i, k)
            BY <4>2, <4>3
          <5>2. i \in DOMAIN attrs /\ x \in Held(attrs[i], i, k)
            BY <3>3, <4>1, <5>1 DEF n
          <5> QED
            BY <4>2, <5>2
        <4>4. ASSUME NEW x, x \in Holders(k) PROVE x \in Holders(k)'
          <5>1. PICK i \in DOMAIN attrs : x \in Held(attrs[i], i, k)
            BY <4>2, <4>4
          <5>2. i \in DOMAIN attrs' /\ x \in Held(attrs'[i], i, k)
            BY <3>3, <5>1
          <5> QED
            BY <4>2, <5>2
        <4> QED
          BY <4>3, <4>4
      <3> QED
        BY <3>1, <3>3, <3>4
    <2> QED
      BY <2>1, <2>2
  <1>2. \A k : Attributed(k)' <=> Attributed(k)
    BY SameAttributed
  <1>3. ASSUME NEW i \in DOMAIN attrs, NEW s \in Seq(Nat),
               s \in {attrs[i].name, attrs[i].value}
        PROVE  \A j \in DOMAIN s : s[j] <= Taken'
    <2>1. \A j \in DOMAIN s : s[j] <= Taken /\ s[j] \in Nat
      BY <1>3, ElementOfSeq, LenProperties DEF Given
    <2> QED
      BY <2>1
  <1>4. ASSUME NEW i \in DOMAIN attrs'
        PROVE  /\ \A j \in DOMAIN attrs'[i].name : attrs'[i].name[j] <= Taken'
               /\ \A j \in DOMAIN attrs'[i].value : attrs'[i].value[j] <= Taken'
    <2>1. CASE i \in DOMAIN attrs /\ attrs'[i] = attrs[i]
      <3>1. attrs[i] \in Attributes
        BY <2>1, ElementOfSeq, LenProperties DEF IInv, TypeOK
      <3>2. attrs[i].name \in Seq(Nat) /\ attrs[i].value \in Seq(Nat)
        BY <3>1 DEF Attributes
      <3> QED
        BY <1>3, <2>1, <3>2
    <2>2. CASE attrs'[i].name = <<>> /\ attrs'[i].value = <<>>
      BY <2>2
    <2> QED
      BY <1>1, <2>1, <2>2
  <1>5. ASSUME NEW k \in 1..Taken', Attributed(k)
        PROVE  Cardinality(Holders(k)') = 1
    <2>1. k \in 1..Taken
      BY <1>5
    <2> QED
      BY <1>1, <1>5, <2>1 DEF Given
  <1> QED
    BY <1>2, <1>4, <1>5 DEF Given

-----------------------------------------------------------------------------
(* The lexer keeps in step with the tokenizer.                             *)

\* What is known of the lexer while it reads.
Course == /\ IInv /\ ReadInv /\ phase = "lex" /\ Alike

Consumes == tag' = tag /\ pos' = Pos /\ ch' = Char

LEMMA Known ==
  ASSUME Course
  PROVE  IInv /\ Rereads /\ Reading
  BY DEF Course, ReadInv, Rereads

\* The tokenizer's step, where there are no carriage returns.
StepOn(p, c) ==
  CASE p = "name"     -> IF c \in {" ", "/"} THEN "before" ELSE "name"
    [] p = "before"   -> IF c \in {" ", "/"} THEN "before" ELSE "key"
    [] p = "key"      -> IF c = "/" THEN "before" ELSE IF c = "=" THEN "equals" ELSE "key"
    [] p = "equals"   -> IF c = " " THEN "equals"
                         ELSE IF c \in {"\"", "'"} THEN c ELSE "unquoted"
    [] p = "unquoted" -> IF c = " " THEN "before" ELSE "unquoted"
    [] OTHER          -> IF c = p THEN "before" ELSE p

LEMMA NextRead ==
  ASSUME Course, Consumes, Taken >= 1
  PROVE  Reads' = IF again' \/ Char = Eof THEN Reads ELSE StepOn(Reads, Char)
  <1>1. Reads' = ReadOf(tag)[Taken']
    BY DEF Consumes, Reads
  <1>2. /\ Char = Eof => Pos = Taken
        /\ again' => Taken' = Taken
        /\ ~again' => Taken' = Pos
        /\ Char # Eof => ReadOf(tag)[Pos] = ReadOn(Reads, Char)
    BY Known, Takes DEF Course, Consumes
  <1>3. CASE again'
    BY <1>1, <1>2, <1>3 DEF Reads
  <1>4. CASE ~again' /\ Char = Eof
    BY <1>1, <1>2, <1>4 DEF Reads
  <1>5. CASE ~again' /\ Char # Eof
    <2>1. Char \in {tag[k] : k \in DOMAIN tag} \cup {Eof}
      BY Consumed DEF Course
    <2>2. Char # "\r"
      BY <2>1, CharsAssumption DEF Course, Alike, Has, Marks
    <2> QED
      BY <1>1, <1>2, <1>5, <2>2 DEF StepOn, ReadOn
  <1> QED
    BY <1>3, <1>4, <1>5

LEMMA GivenMoves ==
  ASSUME Course, Consumes, Given, Taken >= 1,
         attrs' = attrs \/ NewAttr,
         again' \/ Char \notin Letters \cup {"^"}
  PROVE  Given' /\ Taken' >= 1
  <1>1. /\ Taken \in Int /\ Pos \in Nat
        /\ Char = Eof => Pos = Taken
        /\ Char # Eof => Pos = Taken + 1 /\ tag[Pos] = Char
        /\ again' => Taken' = Taken
        /\ ~again' => Taken' = Pos
    BY Known, Takes DEF Course, Consumes
  <1>2. Taken' \in Int /\ Taken <= Taken' /\ Taken' >= 1
    <2>1. CASE again'
      BY <1>1, <2>1
    <2>2. CASE ~again'
      BY <1>1, <2>2
    <2> QED
      BY <2>1, <2>2
  <1>3. ASSUME NEW k \in 1..Taken', Attributed(k)
        PROVE  k <= Taken
    <2>1. CASE again'
      BY <1>1, <2>1
    <2>2. CASE ~again' /\ Char = Eof
      BY <1>1, <2>2
    <2>3. CASE ~again' /\ Char # Eof
      <3>1. tag[k] \in Letters \cup {"^"}
        BY <1>3 DEF Attributed
      <3>2. k # Pos
        BY <1>1, <2>3, <3>1
      <3> QED
        BY <1>1, <2>3, <3>2
    <2> QED
      BY <2>1, <2>2, <2>3
  <1>4. IInv /\ tag' = tag
    BY DEF Course, Consumes
  <1> QED
    BY <1>1, <1>2, <1>3, <1>4, GivenSame

LEMMA GivenChar ==
  ASSUME Course, Consumes, Given, Taken >= 1, attrs # <<>>, ~again', Char # Eof,
         AppendName(<<Pos>>) \/ AppendVal(<<Pos>>, Pos)
  PROVE  Given' /\ Taken' >= 1
  <1>1. /\ Taken \in Int /\ Pos \in Nat /\ Pos = Taken + 1 /\ Taken' = Pos
    BY Known, Takes DEF Course, Consumes
  <1>2. IInv /\ tag' = tag /\ <<Pos>> \in Seq(Nat)
    BY <1>1 DEF Course, Consumes
  <1>3. Fits(<<Pos>>)
    <2>1. DOMAIN <<Pos>> = {1} /\ <<Pos>>[1] = Pos
      OBVIOUS
    <2>2. ASSUME NEW k \in 1..Pos
          PROVE  \/ k <= Taken /\ \A j \in DOMAIN <<Pos>> : <<Pos>>[j] # k
                 \/ k > Taken /\ <<Pos>> = <<k>>
      <3>1. k < Pos \/ k = Pos
        BY <1>1
      <3> QED
        BY <1>1, <2>1, <3>1
    <2> QED
      BY <1>1, <2>1, <2>2 DEF Fits
  <1>4. \E f, at : /\ \/ f = "name" /\ at = "nameAt"
                      \/ f = "value" /\ at = "valueAt"
                   /\ AppendCurr(f, at, <<Pos>>, Pos)
    BY DEF AppendName, AppendVal
  <1>5. Given'
    <2>1. PICK f, at : /\ \/ f = "name" /\ at = "nameAt"
                          \/ f = "value" /\ at = "valueAt"
                       /\ AppendCurr(f, at, <<Pos>>, Pos)
      BY <1>4
    <2> QED
      BY <1>1, <1>2, <1>3, <2>1, GivenAppended
  <1> QED
    BY <1>1, <1>5

\* The lexer goes on, or it ends.
LEMMA GoesOn ==
  ASSUME Course, Consumes, phase' = "lex", Reading'
  PROVE  ReadInv'
  <1>1. Rereads'
    BY Known, Takes DEF Course, Consumes
  <1> QED
    BY <1>1 DEF ReadInv, Rereads, EveryCharacterRead

LEMMA Fails == ASSUME Error PROVE ReadInv'
  BY DEF Error, ReadInv, EveryCharacterRead

LEMMA BreakRead ==
  ASSUME Course, Consumes, Break, Char = ">",
         state \in {"TagName", "AfterAttrName", "Unquoted", "AfterQuoted", "SelfClosing"}
  PROVE  ReadInv'
  <1>1. /\ Taken \in Int /\ Pos \in Nat /\ Pos = Taken + 1
        /\ Pos \in DOMAIN tag /\ tag[Pos] = ">"
    <2>1. Char # Eof
      BY CharsAssumption DEF Marks
    <2> QED
      BY <2>1, Known, Takes DEF Course, Consumes
  <1>2. IInv /\ tag' = tag /\ attrs' = attrs /\ phase' = "emit"
    BY DEF Course, Consumes, Break, Same
  <1>3. Taken >= 1 /\ Reads \notin {"\"", "'"}
    BY Known DEF Reading, InStep, Reads
  <1>4. Pos = Len(tag)
    <2>1. Whole(tag) /\ DOMAIN tag = 1..Len(tag) /\ Len(tag) \in Nat
      BY <1>2, TagsAssumption, TagType DEF IInv
    <2>2. Pos - 1 = Taken
      BY <1>1
    <2>3. Pos \notin 2..(Len(tag) - 1)
      BY <1>1, <1>3, <2>1, <2>2 DEF Whole, Reads
    <2>4. Pos \in Nat /\ Len(tag) \in Nat /\ Pos >= 2 /\ Pos <= Len(tag)
      <3>1. Pos \in 1..Len(tag)
        BY <1>1, <2>1
      <3>2. Len(tag) \in Nat
        BY <2>1
      <3>3. Taken \in Int /\ Pos = Taken + 1 /\ Taken >= 1
        BY <1>1, <1>3
      <3> QED
        BY <3>1, <3>2, <3>3
    <2> QED
      BY <2>3, <2>4
  <1>5. ASSUME NEW k \in DOMAIN tag, Attributed(k)
        PROVE  Cardinality(Holders(k)) = 1
    <2>1. k \in 1..Taken
      <3>1. tag[k] \in Letters \cup {"^"}
        BY <1>5 DEF Attributed
      <3>2. tag[k] # ">"
        BY <3>1, CharsAssumption DEF Marks
      <3>3. k \in 1..Pos /\ k # Pos
        BY <1>1, <1>2, <1>4, <3>2, TagType
      <3> QED
        BY <1>1, <3>3
    <2>2. CASE state = "TagName"
      <3>1. PICK e \in 2..(k - 1) : tag[e] \in {" ", "/"}
        BY <1>5 DEF Attributed
      <3>2. e \in 2..Taken
        BY <1>1, <2>1
      <3> QED
        BY <2>2, <3>1, <3>2, Known DEF Reading
    <2>3. CASE state # "TagName"
      BY <1>5, <2>1, <2>3, Known DEF Reading, Given
    <2> QED
      BY <2>2, <2>3
  <1>6. EveryCharacterRead'
    <2>1. \A k : Attributed(k)' <=> Attributed(k)
      BY <1>2, SameAttributed
    <2>2. \A k : Holders(k)' = Holders(k)
      BY <1>2 DEF Holders
    <2> QED
      BY <1>2, <1>5, <2>1, <2>2 DEF EveryCharacterRead
  <1> QED
    BY <1>2, <1>6 DEF ReadInv

\* What a state the lexer goes to asks for.
Expects ==
  /\ state \notin {"Data", "TagOpen", "TagName", "NumericCharRef", "AmbiguousAmpersand"}
  /\ Taken >= 1 /\ Given /\ InStep(Reads)

LEMMA Arrives ==
  ASSUME Course, Consumes, phase' = "lex", Expects'
  PROVE  ReadInv'
  <1>1. Reading'
    BY DEF Expects, Reading, Reads
  <1> QED
    BY <1>1, GoesOn

\* A move that leaves the attributes as they are, or begins one.
LEMMA MoveRead ==
  ASSUME Course, Consumes, Given, Taken >= 1, phase' = "lex",
         attrs' = attrs \/ NewAttr,
         again' \/ Char \notin Letters \cup {"^"},
         state' \in States \ {"Data", "TagOpen", "TagName", "NumericCharRef",
                              "AmbiguousAmpersand"},
         InStep(Reads)'
  PROVE  ReadInv'
  <1>1. Given' /\ Taken' >= 1
    BY GivenMoves
  <1> QED
    BY <1>1, Arrives DEF Expects

LEMMA SignsApart ==
  Letters \cap Marks = {} /\ Eof \notin Marks /\ Null \notin Marks /\ Eof \notin Letters
  BY CharsAssumption

LEMMA DataRead ==
  ASSUME Course, Data \/ TagOpen \/ TagName
  PROVE  ReadInv'
  <1>1. Consumes /\ IInv /\ tag' = tag
    BY DEF Data, TagOpen, TagName, Consume, Consumes, Course
  <1>2. /\ Taken \in Int /\ Pos \in Nat
        /\ Char = Eof => Pos = Taken
        /\ Char # Eof => Pos = Taken + 1 /\ Pos \in DOMAIN tag /\ tag[Pos] = Char
        /\ again' => Taken' = Taken
        /\ ~again' => Taken' = Pos
    BY <1>1, Known, Takes DEF Course, Consumes
  <1>3. CASE Data
    <2>1. state = "Data" /\ pos = 0 /\ ~again /\ attrs = <<>>
      BY <1>3, Known DEF Data, Consume, Reading
    <2>2. CASE Error
      BY <2>2, Fails
    <2>3. CASE Char = "<" /\ To("TagOpen")
      <3>1. phase' = "lex" /\ state' = "TagOpen" /\ ~again' /\ attrs' = attrs
        BY <2>3 DEF To, Switch, Same, Course
      <3>2. pos' = 1
        <4>1. Char # Eof
          BY <2>3, SignsApart DEF Marks
        <4> QED
          BY <1>1, <2>1, <4>1, Consumed DEF Consumes
      <3>3. Reading'
        BY <2>1, <3>1, <3>2 DEF Reading
      <3> QED
        BY <1>1, <3>1, <3>3, GoesOn
    <2> QED
      BY <1>3, <2>2, <2>3 DEF Data
  <1>4. CASE TagOpen
    <2>1. state = "TagOpen" /\ pos = 1 /\ ~again /\ attrs = <<>>
      BY <1>4, Known DEF TagOpen, Consume, Reading
    <2>2. CASE Error
      BY <2>2, Fails
    <2>3. CASE ReconsumeIn("TagName")
      <3>1. phase' = "lex" /\ state' = "TagName" /\ again' /\ attrs' = attrs
        BY <2>3 DEF ReconsumeIn, Switch, Same, Course
      <3>2. Taken = 1 /\ Taken' = 1
        BY <1>2, <2>1, <3>1 DEF Taken
      <3>3. ReadOf(tag)[1] = "name"
        BY <1>1, TagType, ReadSteps
      <3>4. Reading'
        BY <1>1, <2>1, <3>1, <3>2, <3>3 DEF Reading
      <3> QED
        BY <1>1, <3>1, <3>4, GoesOn
    <2> QED
      BY <1>4, <2>2, <2>3 DEF TagOpen
  <1>5. CASE TagName
    <2>1. /\ state = "TagName" /\ attrs = <<>> /\ Taken >= 1 /\ Reads = "name"
          /\ \A e \in 2..Taken : tag[e] \notin {" ", "/"}
      BY <1>5, Known DEF TagName, Consume, Reading, Reads
    <2>2. CASE Error
      BY <2>2, Fails
    <2>3. CASE Char = ">" /\ Break
      BY <1>1, <2>1, <2>3, BreakRead
    <2>4. CASE \/ Char = " " /\ To("BeforeAttrName")
               \/ Char = "/" /\ To("SelfClosing")
      <3>1. /\ phase' = "lex" /\ state' \in {"BeforeAttrName", "SelfClosing"}
            /\ ~again' /\ attrs' = attrs /\ Char \in {" ", "/"} /\ Char # Eof
        BY <2>4, SignsApart DEF To, Switch, Same, Course, Marks
      <3>2. Reads' = "before"
        BY <1>1, <2>1, <3>1, NextRead DEF StepOn
      <3>3. Taken' = Taken + 1
        BY <1>2, <3>1
      <3>4. ASSUME NEW k \in 1..Taken', Attributed(k)
            PROVE  FALSE
        <4>1. PICK e \in 2..(k - 1) : tag[e] \in {" ", "/"}
          BY <3>4 DEF Attributed
        <4>2. Taken \in Int /\ k \in 1..(Taken + 1)
          BY <1>2, <3>3
        <4>3. e \in 2..Taken
          <5>1. k \in Int /\ k - 1 <= Taken
            BY <4>2
          <5>2. e \in 2..(k - 1)
            OBVIOUS
          <5> QED
            BY <4>2, <5>1, <5>2
        <4> QED
          BY <2>1, <4>1, <4>3
      <3>5. Given'
        <4>1. \A k : Attributed(k)' <=> Attributed(k)
          BY <1>1, SameAttributed
        <4>2. attrs' = <<>>
          BY <2>1, <3>1
        <4>3. DOMAIN attrs' = {}
          BY <4>2
        <4> QED
          BY <3>4, <4>1, <4>3 DEF Given
      <3>6. Expects'
        <4>1. InStep(Reads)'
          BY <3>1, <3>2 DEF InStep
        <4>2. Taken' >= 1
          <5>1. Taken \in Int /\ Taken >= 1
            BY <1>2, <2>1
          <5> QED
            BY <3>3, <5>1
        <4> QED
          BY <3>1, <3>5, <4>1, <4>2 DEF Expects
      <3> QED
        BY <1>1, <3>1, <3>6, Arrives
    <2>5. CASE Char \notin {" ", "/", ">", Null, Eof} /\ To("TagName")
      <3>1. /\ phase' = "lex" /\ state' = "TagName" /\ ~again' /\ attrs' = attrs
            /\ Char \notin {" ", "/"} /\ Char # Eof
        BY <2>5 DEF To, Switch, Same, Course
      <3>2. Reads' = "name"
        BY <1>1, <2>1, <3>1, NextRead DEF StepOn
      <3>3. Taken' = Taken + 1 /\ tag[Taken + 1] = Char
        BY <1>2, <3>1
      <3>4. \A e \in 2..Taken' : tag[e] \notin {" ", "/"}
        <4>1. \A e \in 2..Taken' : e \in 2..Taken \/ e = Taken + 1
          BY <1>2, <3>3
        <4> QED
          BY <2>1, <3>1, <3>3, <4>1
      <3>5. Taken' >= 1
        <4>1. Taken \in Int /\ Taken >= 1
          BY <1>2, <2>1
        <4> QED
          BY <3>3, <4>1
      <3>6. attrs' = <<>> /\ tag' = tag
        BY <1>1, <2>1, <3>1
      <3>7. Reading'
        BY <3>1, <3>2, <3>4, <3>5, <3>6 DEF Reading, Reads
      <3> QED
        BY <1>1, <3>1, <3>7, GoesOn
    <2> QED
      BY <1>5, <2>2, <2>3, <2>4, <2>5 DEF TagName
  <1> QED
    BY <1>3, <1>4, <1>5

\* A character that goes on a name or a value.
LEMMA CharRead ==
  ASSUME Course, Consumes, Given, Taken >= 1, attrs # <<>>, Char # Eof,
         NEW s \in {"AttrName", "DoubleQuote", "SingleQuote", "Unquoted"},
         Switch(s, FALSE),
         AppendName(<<Pos>>) \/ AppendVal(<<Pos>>, Pos),
         InStep(Reads)'
  PROVE  ReadInv'
  <1>1. phase' = "lex" /\ state' = s /\ ~again'
    BY DEF Switch, Course
  <1>2. Given' /\ Taken' >= 1
    BY <1>1, GivenChar
  <1> QED
    BY <1>1, <1>2, Arrives DEF Expects

LEMMA Goes ==
  ASSUME phase = "lex", NEW s
  PROVE  /\ To(s) => phase' = "lex" /\ state' = s /\ ~again' /\ attrs' = attrs
         /\ ReconsumeIn(s) => phase' = "lex" /\ state' = s /\ again' /\ attrs' = attrs
         /\ \A b \in BOOLEAN : Switch(s, b) => phase' = "lex" /\ state' = s /\ again' = b
         /\ ToCharRef(s) => /\ phase' = "lex" /\ state' = "CharRef" /\ ~again'
                            /\ attrs' = attrs /\ returnState' = s
  BY DEF To, ReconsumeIn, ToCharRef, Switch, Same

LEMMA InCourse ==
  ASSUME Course, NEW s, Consume(s),
         s \notin {"Data", "TagOpen", "TagName", "NumericCharRef", "AmbiguousAmpersand"}
  PROVE  /\ phase = "lex" /\ state = s /\ Consumes
         /\ Given /\ Taken >= 1 /\ InStep(Reads)
         /\ again => Char = ch
         /\ Reads' = IF again' \/ Char = Eof THEN Reads ELSE StepOn(Reads, Char)
         /\ Char # "'"
  <1>1. phase = "lex" /\ state = s /\ Consumes
    BY DEF Consume, Consumes
  <1>2. Given /\ Taken >= 1 /\ InStep(Reads)
    BY <1>1, Known DEF Reading, Reads
  <1>3. again => Char = ch
    BY DEF Char
  <1>4. Char # "'"
    <2>1. Char \in {tag[k] : k \in DOMAIN tag} \cup {Eof}
      BY Consumed DEF Course
    <2> QED
      BY <2>1, SignsApart DEF Course, Alike, Has, Marks
  <1> QED
    BY <1>1, <1>2, <1>3, <1>4, NextRead

LEMMA BeforeNameRead ==
  ASSUME Course, BeforeAttrName
  PROVE  ReadInv'
  <1>1. /\ phase = "lex" /\ state = "BeforeAttrName" /\ Consumes
        /\ Given /\ Taken >= 1 /\ InStep(Reads)
        /\ Reads' = IF again' \/ Char = Eof THEN Reads ELSE StepOn(Reads, Char)
    BY InCourse DEF BeforeAttrName
  <1>2. Reads = "before" /\ ch' = Char
    BY <1>1 DEF InStep, Consumes
  <1>3. CASE Char = " " /\ To("BeforeAttrName")
    <2>1. phase' = "lex" /\ state' = "BeforeAttrName" /\ ~again' /\ attrs' = attrs
      BY <1>1, <1>3, Goes
    <2>2. Char \notin Letters \cup {"^"} /\ Char # Eof
      BY <1>3, SignsApart DEF Marks
    <2>3. Reads' = "before"
      BY <1>1, <1>2, <1>3, <2>1, <2>2 DEF StepOn
    <2>4. InStep(Reads)'
      BY <2>1, <2>3 DEF InStep
    <2> QED
      BY <1>1, <2>1, <2>2, <2>4, MoveRead DEF States
  <1>4. CASE Char \in {"/", ">", Eof} /\ ReconsumeIn("AfterAttrName")
    <2>1. phase' = "lex" /\ state' = "AfterAttrName" /\ again' /\ attrs' = attrs
      BY <1>1, <1>4, Goes
    <2>2. Reads' = "before"
      BY <1>1, <1>2, <2>1
    <2>3. InStep(Reads)'
      BY <1>2, <1>4, <2>1, <2>2 DEF InStep
    <2> QED
      BY <1>1, <2>1, <2>3, MoveRead DEF States
  <1>5. CASE Error
    BY <1>5, Fails
  <1>6. CASE /\ Char \notin {" ", "/", ">", Eof, "="}
             /\ Switch("AttrName", TRUE) /\ NewAttr
    <2>1. phase' = "lex" /\ state' = "AttrName" /\ again'
      BY <1>1, <1>6, Goes
    <2>2. Reads' = "before"
      BY <1>1, <1>2, <2>1
    <2>3. InStep(Reads)'
      BY <1>2, <1>6, <2>1, <2>2 DEF InStep
    <2> QED
      BY <1>1, <1>6, <2>1, <2>3, MoveRead DEF States
  <1> QED
    BY <1>3, <1>4, <1>5, <1>6 DEF BeforeAttrName

LEMMA NameRead ==
  ASSUME Course, AttrName
  PROVE  ReadInv'
  <1>1. /\ phase = "lex" /\ state = "AttrName" /\ Consumes
        /\ Given /\ Taken >= 1 /\ InStep(Reads)
        /\ again => Char = ch
        /\ Reads' = IF again' \/ Char = Eof THEN Reads ELSE StepOn(Reads, Char)
    BY InCourse DEF AttrName
  <1>2. /\ ch' = Char
        /\ Reads = "key" \/ (Reads = "before" /\ Char \notin {" ", "/", ">", "=", Eof})
    BY <1>1 DEF InStep, Consumes
  <1>3. CASE Char \in {" ", "/", ">", Eof} /\ ReconsumeIn("AfterAttrName")
    <2>1. phase' = "lex" /\ state' = "AfterAttrName" /\ again' /\ attrs' = attrs
      BY <1>1, <1>3, Goes
    <2>2. Reads' = "key"
      BY <1>1, <1>2, <1>3, <2>1
    <2>3. InStep(Reads)'
      BY <2>1, <2>2 DEF InStep
    <2> QED
      BY <1>1, <2>1, <2>3, MoveRead DEF States
  <1>4. CASE Char = "=" /\ To("BeforeAttrVal")
    <2>1. phase' = "lex" /\ state' = "BeforeAttrVal" /\ ~again' /\ attrs' = attrs
      BY <1>1, <1>4, Goes
    <2>2. Char \notin Letters \cup {"^"} /\ Char # Eof
      BY <1>4, SignsApart DEF Marks
    <2>3. Reads' = "equals"
      BY <1>1, <1>2, <1>4, <2>1, <2>2 DEF StepOn
    <2>4. InStep(Reads)'
      BY <2>1, <2>3 DEF InStep
    <2> QED
      BY <1>1, <2>1, <2>2, <2>4, MoveRead DEF States
  <1>5. CASE Error
    BY <1>5, Fails
  <1>6. CASE /\ Char \notin {" ", "/", ">", Eof, "=", Null, "\"", "'", "<"}
             /\ Switch("AttrName", FALSE) /\ AppendName(<<Pos>>)
    <2>1. phase' = "lex" /\ state' = "AttrName" /\ ~again'
      BY <1>1, <1>6, Goes
    <2>2. Reads' = "key"
      BY <1>1, <1>2, <1>6, <2>1 DEF StepOn
    <2>3. InStep(Reads)'
      BY <2>1, <2>2 DEF InStep
    <2>4. attrs # <<>>
      BY <1>1 DEF Course, IInv, Hand, AttrAtHand
    <2> QED
      BY <1>1, <1>6, <2>3, <2>4, CharRead
  <1> QED
    BY <1>3, <1>4, <1>5, <1>6 DEF AttrName

LEMMA AfterNameRead ==
  ASSUME Course, AfterAttrName
  PROVE  ReadInv'
  <1>1. /\ phase = "lex" /\ state = "AfterAttrName" /\ Consumes
        /\ Given /\ Taken >= 1 /\ InStep(Reads)
        /\ again => Char = ch
        /\ Reads' = IF again' \/ Char = Eof THEN Reads ELSE StepOn(Reads, Char)
    BY InCourse DEF AfterAttrName
  <1>2. /\ ch' = Char
        /\ Reads = "key" \/ (Reads = "before" /\ Char \in {"/", ">", Eof})
    BY <1>1 DEF InStep, Consumes
  <1>3. CASE \/ Char = " " /\ To("AfterAttrName")
             \/ Char = "=" /\ To("BeforeAttrVal")
    <2>1. /\ phase' = "lex" /\ ~again' /\ attrs' = attrs
          /\ \/ Char = " " /\ state' = "AfterAttrName"
             \/ Char = "=" /\ state' = "BeforeAttrVal"
      BY <1>1, <1>3, Goes
    <2>2. Char \notin Letters \cup {"^"} /\ Char # Eof
      BY <1>3, SignsApart DEF Marks
    <2>3. Reads = "key"
      BY <1>2, <2>1, <2>2
    <2>4. Reads' = IF Char = " " THEN "key" ELSE "equals"
      BY <1>1, <2>1, <2>2, <2>3 DEF StepOn
    <2>5. InStep(Reads)'
      BY <2>1, <2>4 DEF InStep
    <2> QED
      BY <1>1, <2>1, <2>2, <2>5, MoveRead DEF States
  <1>4. CASE Char = "/" /\ To("SelfClosing")
    <2>1. phase' = "lex" /\ state' = "SelfClosing" /\ ~again' /\ attrs' = attrs
      BY <1>1, <1>4, Goes
    <2>2. Char \notin Letters \cup {"^"} /\ Char # Eof
      BY <1>4, SignsApart DEF Marks
    <2>3. Reads' = "before"
      BY <1>1, <1>2, <1>4, <2>1, <2>2 DEF StepOn
    <2>4. InStep(Reads)'
      BY <2>1, <2>3 DEF InStep
    <2> QED
      BY <1>1, <2>1, <2>2, <2>4, MoveRead DEF States
  <1>5. CASE Char = ">" /\ Break
    BY <1>1, <1>5, BreakRead
  <1>6. CASE Error
    BY <1>6, Fails
  <1>7. CASE /\ Char \notin {" ", "/", "=", ">", Eof}
             /\ Switch("AttrName", TRUE) /\ NewAttr
    <2>1. phase' = "lex" /\ state' = "AttrName" /\ again'
      BY <1>1, <1>7, Goes
    <2>2. Reads' = "key"
      BY <1>1, <1>2, <1>7, <2>1
    <2>3. InStep(Reads)'
      BY <2>1, <2>2 DEF InStep
    <2> QED
      BY <1>1, <1>7, <2>1, <2>3, MoveRead DEF States
  <1> QED
    BY <1>3, <1>4, <1>5, <1>6, <1>7 DEF AfterAttrName

LEMMA BeforeValueRead ==
  ASSUME Course, BeforeAttrVal
  PROVE  ReadInv'
  <1>1. /\ phase = "lex" /\ state = "BeforeAttrVal" /\ Consumes
        /\ Given /\ Taken >= 1 /\ InStep(Reads) /\ Char # "'"
        /\ Reads' = IF again' \/ Char = Eof THEN Reads ELSE StepOn(Reads, Char)
    BY InCourse DEF BeforeAttrVal
  <1>2. Reads = "equals" /\ ch' = Char
    BY <1>1 DEF InStep, Consumes
  <1>3. CASE \/ Char = " " /\ To("BeforeAttrVal")
             \/ Char = "\"" /\ To("DoubleQuote")
    <2>1. /\ phase' = "lex" /\ ~again' /\ attrs' = attrs
          /\ \/ Char = " " /\ state' = "BeforeAttrVal"
             \/ Char = "\"" /\ state' = "DoubleQuote"
      BY <1>1, <1>3, Goes
    <2>2. Char \notin Letters \cup {"^"} /\ Char # Eof
      BY <1>3, SignsApart DEF Marks
    <2>3. Reads' = IF Char = " " THEN "equals" ELSE "\""
      BY <1>1, <1>2, <2>1, <2>2 DEF StepOn
    <2>4. InStep(Reads)'
      BY <2>1, <2>3 DEF InStep
    <2> QED
      BY <1>1, <2>1, <2>2, <2>4, MoveRead DEF States
  <1>4. CASE Error
    BY <1>4, Fails
  <1>5. CASE Char \notin {" ", "\"", "'", ">"} /\ ReconsumeIn("Unquoted")
    <2>1. phase' = "lex" /\ state' = "Unquoted" /\ again' /\ attrs' = attrs
      BY <1>1, <1>5, Goes
    <2>2. Reads' = "equals"
      BY <1>1, <1>2, <2>1
    <2>3. InStep(Reads)'
      BY <1>2, <1>5, <2>1, <2>2 DEF InStep
    <2> QED
      BY <1>1, <2>1, <2>3, MoveRead DEF States
  <1> QED
    BY <1>1, <1>3, <1>4, <1>5 DEF BeforeAttrVal

\* In a value, an ampersand begins a character reference.
LEMMA AmpersandRead ==
  ASSUME Course, Consumes, Given, Taken >= 1, Char = "&",
         NEW s \in {"DoubleQuote", "Unquoted"}, ToCharRef(s), InValue(s, Reads')
  PROVE  ReadInv'
  <1>1. phase' = "lex" /\ state' = "CharRef" /\ ~again' /\ attrs' = attrs /\ returnState' = s
    BY Goes DEF Course
  <1>2. Char \notin Letters \cup {"^"} /\ Char # Eof
    BY SignsApart DEF Marks
  <1>3. Taken \in Int /\ Pos = Taken + 1 /\ tag[Pos] = Char /\ pos' = Pos /\ tag' = tag
    BY <1>2, Known, Takes DEF Course, Consumes
  <1>4. pos' >= 2 /\ tag'[pos'] = "&"
    BY <1>3
  <1>5. InStep(Reads)'
    BY <1>1, <1>4 DEF InStep
  <1> QED
    BY <1>1, <1>2, <1>5, MoveRead DEF States

LEMMA QuotedRead ==
  ASSUME Course, NEW s \in {"DoubleQuote", "SingleQuote"}, Quoted(s)
  PROVE  ReadInv'
  <1>1. /\ phase = "lex" /\ state = s /\ Consumes
        /\ Given /\ Taken >= 1 /\ InStep(Reads)
        /\ Reads' = IF again' \/ Char = Eof THEN Reads ELSE StepOn(Reads, Char)
    BY InCourse DEF Quoted
  <1>2. s = "DoubleQuote" /\ Reads = "\"" /\ ch' = Char
    BY <1>1 DEF InStep, Consumes
  <1>3. CASE Char = "\"" /\ To("AfterQuoted")
    <2>1. phase' = "lex" /\ state' = "AfterQuoted" /\ ~again' /\ attrs' = attrs
      BY <1>1, <1>3, Goes
    <2>2. Char \notin Letters \cup {"^"} /\ Char # Eof
      BY <1>3, SignsApart DEF Marks
    <2>3. Reads' = "before"
      BY <1>1, <1>2, <1>3, <2>1, <2>2 DEF StepOn
    <2>4. InStep(Reads)'
      BY <2>1, <2>3 DEF InStep
    <2> QED
      BY <1>1, <2>1, <2>2, <2>4, MoveRead DEF States
  <1>4. CASE Char = "&" /\ ToCharRef(s)
    <2>1. ~again' /\ Char # Eof
      BY <1>1, <1>4, Goes, SignsApart DEF Marks
    <2>2. Reads' = "\""
      BY <1>1, <1>2, <1>4, <2>1 DEF StepOn
    <2> QED
      BY <1>1, <1>2, <1>4, <2>2, AmpersandRead DEF InValue
  <1>5. CASE Error
    BY <1>5, Fails
  <1>6. CASE /\ Char \notin {"\"", "&", Null, Eof}
             /\ Switch(s, FALSE) /\ AppendVal(<<Pos>>, Pos)
    <2>1. phase' = "lex" /\ state' = s /\ ~again'
      BY <1>1, <1>6, Goes
    <2>2. Reads' = "\""
      BY <1>1, <1>2, <1>6, <2>1 DEF StepOn
    <2>3. InStep(Reads)'
      BY <1>2, <2>1, <2>2 DEF InStep
    <2>4. attrs # <<>>
      BY <1>1 DEF Course, IInv, Hand, AttrAtHand
    <2> QED
      BY <1>1, <1>6, <2>3, <2>4, CharRead
  <1> QED
    BY <1>3, <1>4, <1>5, <1>6 DEF Quoted

LEMMA UnquotedRead ==
  ASSUME Course, Unquoted
  PROVE  ReadInv'
  <1>1. /\ phase = "lex" /\ state = "Unquoted" /\ Consumes
        /\ Given /\ Taken >= 1 /\ InStep(Reads)
        /\ again => Char = ch
        /\ Reads' = IF again' \/ Char = Eof THEN Reads ELSE StepOn(Reads, Char)
    BY InCourse DEF Unquoted
  <1>2. /\ ch' = Char
        /\ \/ Reads = "unquoted"
           \/ Reads = "equals" /\ Char \notin {" ", "\"", "'", ">"}
    BY <1>1 DEF InStep, Consumes
  <1>3. CASE Char = " " /\ To("BeforeAttrName")
    <2>1. phase' = "lex" /\ state' = "BeforeAttrName" /\ ~again' /\ attrs' = attrs
      BY <1>1, <1>3, Goes
    <2>2. Char \notin Letters \cup {"^"} /\ Char # Eof
      BY <1>3, SignsApart DEF Marks
    <2>3. Reads' = "before"
      BY <1>1, <1>2, <1>3, <2>1, <2>2 DEF StepOn
    <2>4. InStep(Reads)'
      BY <2>1, <2>3 DEF InStep
    <2> QED
      BY <1>1, <2>1, <2>2, <2>4, MoveRead DEF States
  <1>4. CASE Char = "&" /\ ToCharRef("Unquoted")
    <2>1. ~again' /\ Char # Eof
      BY <1>1, <1>4, Goes, SignsApart DEF Marks
    <2>2. Reads' = "unquoted"
      BY <1>1, <1>2, <1>4, <2>1 DEF StepOn
    <2> QED
      BY <1>1, <1>4, <2>2, AmpersandRead DEF InValue
  <1>5. CASE Char = ">" /\ Break
    BY <1>1, <1>5, BreakRead
  <1>6. CASE Error
    BY <1>6, Fails
  <1>7. CASE /\ Char \notin {" ", "&", ">", Null, "\"", "'", "<", "=", Eof}
             /\ Switch("Unquoted", FALSE) /\ AppendVal(<<Pos>>, Pos)
    <2>1. phase' = "lex" /\ state' = "Unquoted" /\ ~again'
      BY <1>1, <1>7, Goes
    <2>2. Reads' = "unquoted"
      BY <1>1, <1>2, <1>7, <2>1 DEF StepOn
    <2>3. InStep(Reads)'
      BY <2>1, <2>2 DEF InStep
    <2>4. attrs # <<>>
      BY <1>1 DEF Course, IInv, Hand, AttrAtHand
    <2> QED
      BY <1>1, <1>7, <2>3, <2>4, CharRead
  <1> QED
    BY <1>3, <1>4, <1>5, <1>6, <1>7 DEF Unquoted

LEMMA AfterValueRead ==
  ASSUME Course, AfterQuoted \/ SelfClosing
  PROVE  ReadInv'
  <1>1. /\ phase = "lex" /\ state \in {"AfterQuoted", "SelfClosing"} /\ Consumes
        /\ Given /\ Taken >= 1 /\ InStep(Reads)
        /\ Reads' = IF again' \/ Char = Eof THEN Reads ELSE StepOn(Reads, Char)
    BY InCourse DEF AfterQuoted, SelfClosing
  <1>2. Reads = "before"
    BY <1>1 DEF InStep
  <1>3. CASE Char = ">" /\ Break
    BY <1>1, <1>3, BreakRead
  <1>4. CASE Error
    BY <1>4, Fails
  <1>5. CASE \/ Char = " " /\ To("BeforeAttrName")
             \/ Char = "/" /\ To("SelfClosing")
    <2>1. /\ phase' = "lex" /\ ~again' /\ attrs' = attrs /\ Char \in {" ", "/"}
          /\ state' \in {"BeforeAttrName", "SelfClosing"}
      BY <1>1, <1>5, Goes
    <2>2. Char \notin Letters \cup {"^"} /\ Char # Eof
      BY <1>5, SignsApart DEF Marks
    <2>3. Reads' = "before"
      BY <1>1, <1>2, <2>1, <2>2 DEF StepOn
    <2>4. InStep(Reads)'
      BY <2>1, <2>3 DEF InStep
    <2> QED
      BY <1>1, <2>1, <2>2, <2>4, MoveRead DEF States
  <1> QED
    BY <1>3, <1>4, <1>5 DEF AfterQuoted, SelfClosing

\* Characters that do not end a value.
GoOn(t, i, j) == \A m \in (i + 1)..j : t[m] \notin {" ", "\r", "\""}

\* The tokenizer in a value.
Inside(p) == p \in {"\"", "unquoted"}

StaysTo(t, i, j, p, m) == i <= m /\ m <= j => ReadOf(t)[m] = p

LEMMA FromOn ==
  ASSUME NEW i \in Nat, NEW j \in Nat, NEW m \in Nat, NEW n \in Nat,
         1 <= i, i <= m + 1, m + 1 <= j, j <= n, i # m + 1
  PROVE  /\ i <= m /\ m <= j /\ m + 1 \in 2..n /\ m + 1 \in (i + 1)..j
         /\ (m + 1) - 1 = m /\ n > 0
  OBVIOUS

\* A value goes on over characters that do not end it.
LEMMA ReadThrough ==
  ASSUME NEW t, Len(t) \in Nat, NEW i \in Nat, NEW j \in Nat,
         1 <= i, i <= j, j <= Len(t),
         NEW p, Inside(p), ReadOf(t)[i] = p, GoOn(t, i, j)
  PROVE  ReadOf(t)[j] = p
  <1> DEFINE T == {m \in Nat : StaysTo(t, i, j, p, m)}
  <1>1. StaysTo(t, i, j, p, 0)
    BY DEF StaysTo
  <1>2. ASSUME NEW m \in Nat, StaysTo(t, i, j, p, m) PROVE StaysTo(t, i, j, p, m + 1)
    <2> SUFFICES ASSUME i <= m + 1, m + 1 <= j, i # m + 1 PROVE ReadOf(t)[m + 1] = p
      BY DEF StaysTo
    <2>1. m \in Nat
      BY <1>2
    <2>2. /\ i <= m /\ m <= j /\ m + 1 \in 2..Len(t) /\ m + 1 \in (i + 1)..j
          /\ (m + 1) - 1 = m /\ Len(t) > 0
      BY <2>1, FromOn
    <2>3. ReadOf(t)[m] = p
      BY <1>2, <2>2 DEF StaysTo
    <2>4. ReadOf(t)[m + 1] = ReadOn(p, t[m + 1])
      BY <2>2, <2>3, ReadSteps
    <2>5. t[m + 1] \notin {" ", "\r", "\""}
      BY <2>2 DEF GoOn
    <2> QED
      BY <2>4, <2>5 DEF ReadOn, Inside
  <1>3. T = Nat
    <2>1. 0 \in T
      BY <1>1
    <2>2. \A m \in T : m + 1 \in T
      <3> TAKE m \in T
      <3>1. m \in Nat /\ StaysTo(t, i, j, p, m)
        OBVIOUS
      <3>2. StaysTo(t, i, j, p, m + 1)
        BY <1>2, <3>1
      <3>3. m + 1 \in Nat
        BY <3>1
      <3> QED
        BY <3>2, <3>3
    <2>3. T \subseteq Nat
      OBVIOUS
    <2> HIDE DEF T
    <2> QED
      BY <2>1, <2>2, <2>3, NatSetInduction
  <1>4. StaysTo(t, i, j, p, j)
    BY <1>3
  <1> QED
    BY <1>4 DEF StaysTo

LEMMA ValueAppended ==
  ASSUME Course, attrs # <<>>, NEW text \in Seq(Nat), NEW last \in Nat,
         AppendVal(text, last), Given, tag' = tag, Fits(text)
  PROVE  Given'
  <1>1. AppendCurr("value", "valueAt", text, last)
    BY DEF AppendVal
  <1> QED
    BY <1>1, GivenAppended DEF Course

\* Back in the value.
LEMMA Back ==
  ASSUME Course, NEW b \in BOOLEAN, Switch(returnState, b), InValue(returnState, Reads'),
         Taken' >= 1, Given', Rereads'
  PROVE  ReadInv'
  <1>1. phase' = "lex" /\ state' = returnState
    BY DEF Switch, Course
  <1>2. InStep(Reads)'
    BY <1>1 DEF InStep, InValue
  <1>3. Reading'
    BY <1>1, <1>2 DEF Reading, Reads, InValue
  <1> QED
    BY <1>1, <1>3 DEF ReadInv, Rereads, EveryCharacterRead

LEMMA CharRefRead ==
  ASSUME Course, CharRef
  PROVE  ReadInv'
  <1>1. /\ phase = "lex" /\ state = "CharRef" /\ Consumes
        /\ Given /\ Taken >= 1 /\ InStep(Reads)
        /\ Reads' = IF again' \/ Char = Eof THEN Reads ELSE StepOn(Reads, Char)
    BY InCourse DEF CharRef
  <1>2. ~again /\ pos >= 2 /\ tag[pos] = "&" /\ InValue(returnState, Reads)
    BY <1>1 DEF InStep
  <1>3. Taken = pos /\ pos \in Nat /\ pos' = Pos /\ ch' = Char /\ tag' = tag
    BY <1>1, <1>2, TagType DEF Taken, Consumes, Course
  <1>4. CASE Char \in Letters /\ ReconsumeIn("NamedCharRef")
    <2>1. phase' = "lex" /\ state' = "NamedCharRef" /\ again' /\ attrs' = attrs
      BY <1>1, <1>4, Goes
    <2>2. returnState' = returnState
      BY <1>4 DEF ReconsumeIn, Same
    <2>3. Reads' = Reads
      BY <1>1, <2>1
    <2>4. Pos = pos + 1
      BY <1>2, <1>4, Consumed, SignsApart DEF Course
    <2>5. pos' >= 3 /\ tag'[pos' - 1] = "&"
      BY <1>2, <1>3, <2>4
    <2>6. InStep(Reads)'
      BY <1>2, <1>3, <1>4, <2>1, <2>2, <2>3, <2>5 DEF InStep
    <2> QED
      BY <1>1, <2>1, <2>6, MoveRead DEF States
  <1>5. CASE To("NumericCharRef")
    <2>1. phase' = "lex" /\ state' = "NumericCharRef"
      BY <1>1, <1>5, Goes
    <2>2. Reading'
      BY <2>1 DEF Reading
    <2> QED
      BY <1>1, <2>1, <2>2, GoesOn
  <1>6. CASE Switch(returnState, TRUE) /\ AppendVal(<<pos>>, Pos)
    <2>1. again'
      BY <1>6 DEF Switch
    <2>2. Taken' = Taken /\ Rereads' /\ Pos \in Nat
      BY <1>1, <2>1, Known, Takes DEF Course, Consumes
    <2>3. Reads' = Reads
      BY <1>1, <2>1
    <2>4. Fits(<<pos>>)
      <3>1. DOMAIN <<pos>> = {1} /\ <<pos>>[1] = pos
        OBVIOUS
      <3>2. ASSUME NEW k \in 1..pos, Attributed(k) PROVE k # pos
        <4>1. tag[k] \in Letters \cup {"^"}
          BY <3>2 DEF Attributed
        <4> QED
          BY <1>2, <4>1, SignsApart DEF Marks
      <3>3. \A k \in 1..pos : k <= pos
        BY <1>3
      <3>4. \A k \in 1..Taken' : Attributed(k) => k <= Taken /\ \A j \in DOMAIN <<pos>> : <<pos>>[j] # k
        BY <1>3, <2>2, <3>1, <3>2, <3>3
      <3>5. Taken \in Int /\ Taken' \in Int /\ Taken <= Taken' /\ pos <= Taken'
        BY <1>3, <2>2
      <3> QED
        BY <3>1, <3>4, <3>5 DEF Fits
    <2>5. attrs # <<>>
      BY <1>1 DEF Course, IInv, Hand, AttrAtHand
    <2>6. <<pos>> \in Seq(Nat)
      BY <1>3
    <2>7. Given'
      BY <1>1, <1>3, <1>6, <2>2, <2>4, <2>5, <2>6, ValueAppended
    <2>8. InValue(returnState, Reads') /\ Taken' >= 1
      BY <1>1, <1>2, <2>2, <2>3
    <2> QED
      BY <1>6, <2>2, <2>7, <2>8, Back
  <1> QED
    BY <1>4, <1>5, <1>6 DEF CharRef

LEMMA NamedCharRefRead ==
  ASSUME Course, NamedCharRef
  PROVE  ReadInv'
  <1>1. phase = "lex" /\ state = "NamedCharRef" /\ tag' = tag
    BY DEF NamedCharRef
  <1>2. Given /\ Taken >= 1 /\ InStep(Reads) /\ Rereads
    BY <1>1, Known DEF Reading, Reads
  <1>3. /\ again /\ ch \in Letters /\ pos >= 3 /\ tag[pos - 1] = "&"
        /\ InValue(returnState, Reads)
    BY <1>1, <1>2 DEF InStep
  <1>4. /\ pos \in Nat /\ pos <= Len(tag) /\ Len(tag) \in Nat
    BY TagType DEF Course
  <1>0. pos \in Nat /\ pos >= 3
    BY <1>3, <1>4
  <1>5. Taken = pos - 1 /\ tag[pos] \in Letters
    BY <1>2, <1>3, SignsApart DEF Taken, Rereads
  <1>6. attrs # <<>>
    BY <1>1 DEF Course, IInv, Hand, AttrAtHand
  <1>7. Has("&")
    <2>1. pos - 1 \in 1..Len(tag)
      BY <1>3, <1>4
    <2> QED
      BY <1>3, <2>1, TagType DEF Has, Course
  <1> DEFINE text(a) == [k \in 1..(a - pos + 1) |-> pos + k - 2]
             decoded == <<0>>
  <1>8. PICK a \in pos..(Len(tag) + 1) :
          /\ FollowedAt(a)
          /\ pos' = IF a > Len(tag) THEN Len(tag) ELSE a
          /\ ch' = IF a > Len(tag) THEN Eof ELSE tag[a]
          /\ \/ /\ ch' = "=" /\ Switch(returnState, FALSE) /\ AppendVal(text(a), pos')
             \/ /\ ch' = ";" /\ Switch(returnState, FALSE) /\ AppendVal(<<0>>, pos')
             \/ Error
             \/ Switch("AmbiguousAmpersand", FALSE)
    BY DEF NamedCharRef
  <1>9. CASE Error
    BY <1>9, Fails
  <1>10. CASE Switch("AmbiguousAmpersand", FALSE)
    <2>1. phase' = "lex" /\ state' = "AmbiguousAmpersand" /\ ~again'
      BY <1>1, <1>10 DEF Switch
    <2> QED
      BY <2>1 DEF ReadInv, Reading, EveryCharacterRead
  <1>11. ASSUME ch' \in {"=", ";"}, Switch(returnState, FALSE),
                NEW q \in {text(a), decoded}, AppendVal(q, pos')
         PROVE  ReadInv'
    <2>1. ~again'
      BY <1>11 DEF Switch
    <2>2. a <= Len(tag) /\ a \in Nat /\ pos <= a /\ pos' = a /\ tag[a] \in {"=", ";"}
      <3>1. a \in Nat /\ pos <= a
        BY <1>4
      <3>2. ~(a > Len(tag))
        BY <1>8, <1>11, SignsApart DEF Marks
      <3>3. pos' = a /\ ch' = tag[a]
        BY <1>8, <3>2
      <3>4. Len(tag) \in Nat
        BY <1>4
      <3>5. a <= Len(tag)
        BY <3>1, <3>2, <3>4
      <3> QED
        BY <1>11, <3>1, <3>3, <3>5
    <2>20. a \in Nat /\ pos \in Nat /\ pos <= a /\ pos >= 3
      BY <1>0, <2>2
    <2>3. Taken' = a
      BY <2>1, <2>2 DEF Taken
    <2>4. \A m \in pos..(a - 1) : tag[m] \in Letters
      BY <1>8 DEF FollowedAt
    <2>5. Reads' = Reads
      <3>1. \A m \in ((pos - 1) + 1)..a : tag[m] \notin {" ", "\r", "\""}
        <4>1. ASSUME NEW m \in ((pos - 1) + 1)..a PROVE tag[m] \in Letters \cup {"=", ";"}
          <5>1. m \in pos..(a - 1) \/ m = a
            BY <2>20
          <5> QED
            BY <2>2, <2>4, <5>1
        <4> QED
          BY <4>1, SignsApart DEF Marks
      <3>2. pos - 1 \in Nat /\ 1 <= pos - 1 /\ pos - 1 <= a
        BY <2>20
      <3>3. Reads \in {"\"", "unquoted"} /\ ReadOf(tag)[pos - 1] = Reads
        BY <1>3, <1>5 DEF InValue, Reads
      <3>4. ReadOf(tag)[a] = Reads
        <4>1. PICK p \in {"\"", "unquoted"} : p = Reads
          BY <3>3
        <4>2. GoOn(tag, pos - 1, a)
          BY <3>1 DEF GoOn
        <4>3. a \in Nat /\ a <= Len(tag) /\ Len(tag) \in Nat
          BY <1>4, <2>2
        <4>4. ReadOf(tag)[pos - 1] = p
          BY <3>3, <4>1
        <4>5. ReadOf(tag)[a] = p
          BY <3>2, <4>1, <4>2, <4>3, <4>4, ReadThrough DEF Inside
        <4> QED
          BY <4>1, <4>5
      <3> QED
        BY <1>1, <2>3, <3>4 DEF Reads
    <2>6. DOMAIN text(a) = 1..(a - pos + 1) /\ \A j \in 1..(a - pos + 1) : text(a)[j] = pos + j - 2
      OBVIOUS
    <2>7. \A j \in DOMAIN q : q[j] \in Nat /\ (q[j] = 0 \/ (q[j] >= pos - 1 /\ q[j] <= a - 1))
      <3>1. CASE q = <<0>>
        BY <3>1
      <3>2. CASE q = text(a)
        <4>1. \A j \in 1..(a - pos + 1) : /\ pos + j - 2 \in Nat /\ pos + j - 2 >= pos - 1
                                          /\ pos + j - 2 <= a - 1
          BY <2>20
        <4> HIDE DEF text
        <4> QED
          BY <2>6, <3>2, <4>1
      <3> QED
        BY <1>11, <3>1, <3>2
    <2>8. q \in Seq(Nat)
      <3>1. CASE q = <<0>>
        BY <3>1
      <3>2. CASE q = text(a)
        <4>1. a - pos + 1 \in Nat /\ text(a) \in [1..(a - pos + 1) -> Nat]
          BY <2>20
        <4> QED
          BY <3>2, <4>1, SeqDef, ZenonT(60)
      <3> QED
        BY <1>11, <3>1, <3>2
    <2> HIDE DEF text
    <2>9. ASSUME NEW k \in 1..a, Attributed(k)
          PROVE  k <= Taken /\ \A j \in DOMAIN q : q[j] # k
      <3>1. tag[k] = "^"
        BY <1>7, <2>9 DEF Attributed
      <3>2. k \notin pos..(a - 1) /\ k # a /\ k # pos - 1
        BY <1>3, <2>2, <2>4, <3>1, SignsApart DEF Marks
      <3>3. k \in Nat /\ k >= 1 /\ k < pos - 1
        <4>1. k \in 1..a
          OBVIOUS
        <4> QED
          BY <2>20, <3>2, <4>1
      <3> QED
        BY <1>4, <1>5, <2>7, <3>3
    <2>10. Fits(q)
      <3>1. Taken \in Int /\ Taken' \in Int /\ Taken <= Taken'
        BY <1>5, <2>3, <2>20
      <3>2. \A j \in DOMAIN q : q[j] <= Taken'
        BY <2>3, <2>7, <2>20
      <3> QED
        BY <2>3, <2>9, <3>1, <3>2 DEF Fits
    <2>11. Given'
      BY <1>1, <1>2, <1>6, <1>11, <2>2, <2>8, <2>10, ValueAppended
    <2>12. InValue(returnState, Reads') /\ Taken' >= 1 /\ Rereads'
      <3>1. InValue(returnState, Reads)
        BY <1>3
      <3>2. returnState' = returnState
        BY <1>11 DEF AppendVal, AppendCurr
      <3>3. Taken' >= 1
        BY <2>3, <2>20
      <3>4. Rereads'
        BY <2>1 DEF Rereads
      <3> QED
        BY <2>5, <3>1, <3>2, <3>3, <3>4
    <2> QED
      BY <1>11, <2>11, <2>12, Back
  <1> QED
    BY <1>8, <1>9, <1>10, <1>11

LEMMA LexRead ==
  ASSUME Course, Lex
  PROVE  ReadInv'
  <1>1. CASE Unimplemented
    BY <1>1, Fails DEF Unimplemented
  <1> QED
    BY <1>1, DataRead, BeforeNameRead, NameRead, AfterNameRead, BeforeValueRead,
       QuotedRead, UnquotedRead, AfterValueRead, CharRefRead, NamedCharRefRead
    DEF Lex

\* A tag that lexer and tokenizer read differently is not followed.
LEMMA QuotesRead ==
  ASSUME IInv, ReadInv, Lex, ~Alike
  PROVE  ReadInv'
  <1>1. phase = "lex" /\ tag' = tag
    BY DEF Lex, Data, TagOpen, TagName, BeforeAttrName, AttrName, AfterAttrName,
           BeforeAttrVal, Quoted, Unquoted, AfterQuoted, SelfClosing, CharRef,
           NamedCharRef, Unimplemented, Consume
  <1>2. ~Alike'
    BY <1>1 DEF Alike, Has
  <1>3. phase' = "lex" => Rereads'
    <2>1. CASE NamedCharRef
      <3>1. again' => phase' # "lex"
        BY <2>1 DEF NamedCharRef, Switch, Error
      <3> QED
        BY <3>1 DEF Rereads
    <2>2. CASE Unimplemented
      BY <2>2 DEF Unimplemented, Error
    <2>3. CASE ~NamedCharRef /\ ~Unimplemented
      <3>1. pos' = Pos /\ ch' = Char
        BY <2>3 DEF Lex, Data, TagOpen, TagName, BeforeAttrName, AttrName, AfterAttrName,
                    BeforeAttrVal, Quoted, Unquoted, AfterQuoted, SelfClosing, CharRef,
                    Consume
      <3>2. Rereads
        BY <1>1 DEF ReadInv, Rereads
      <3> QED
        BY <1>1, <3>1, <3>2, Takes
    <2> QED
      BY <2>1, <2>2, <2>3
  <1> QED
    BY <1>2, <1>3 DEF ReadInv, Rereads, EveryCharacterRead

LEMMA SameRead ==
  ASSUME EveryCharacterRead, phase # "lex", UNCHANGED <<tag, err, attrs>>
  PROVE  EveryCharacterRead'
  <1>1. \A k : Attributed(k)' <=> Attributed(k)
    BY SameAttributed
  <1>2. \A k : Holders(k)' = Holders(k)
    BY DEF Holders
  <1>3. Alike' <=> Alike
    BY DEF Alike, Has
  <1> QED
    BY <1>1, <1>2, <1>3 DEF EveryCharacterRead

\* The parser does not touch what the lexer has given.
LEMMA ParserReads ==
  ASSUME ReadInv,
         \/ Gap \/ Between \/ Rest
         \/ \E p \in {"name", "value"} :
              Verbatim(p) \/ Escape(p) \/ Transition(p) \/ LoopDone(p)
  PROVE  ReadInv'
  <1>1. phase = "emit" /\ UNCHANGED <<tag, lexer>>
    BY DEF Gap, Between, Rest, Verbatim, Escape, Transition, LoopDone, Looping, Emitting
  <1>2. \A pieces : Emit(pieces) => phase' # "lex"
    BY <1>1 DEF Emit
  <1>3. phase' # "lex"
    BY <1>1, <1>2 DEF Gap, Between, Rest, Verbatim, Escape, Transition, LoopDone, NoExpr
  <1>4. EveryCharacterRead'
    BY <1>1, SameRead DEF ReadInv, lexer
  <1> QED
    BY <1>3, <1>4 DEF ReadInv

-----------------------------------------------------------------------------
(* The attributes are in the order of the tag.                             *)

LEMMA AttrSeqs ==
  ASSUME IInv
  PROVE  /\ DOMAIN attrs = 1..Len(attrs) /\ Len(attrs) \in Nat
         /\ \A i \in DOMAIN attrs : /\ attrs[i] \in Attributes
                                    /\ attrs[i].name \in Seq(Nat) /\ attrs[i].value \in Seq(Nat)
                                    /\ attrs[i].nameAt \in Nat /\ attrs[i].valueAt \in Nat
         /\ attrs # <<>> => Len(attrs) \in DOMAIN attrs
  <1>1. /\ attrs \in Seq(Attributes) /\ DOMAIN attrs = 1..Len(attrs) /\ Len(attrs) \in Nat
        /\ attrs # <<>> => Len(attrs) > 0
    BY LenProperties, EmptySeq DEF IInv, TypeOK
  <1>2. \A i \in DOMAIN attrs : attrs[i] \in Attributes
    BY <1>1, ElementOfSeq
  <1> QED
    BY <1>1, <1>2, SMTT(60) DEF Attributes

LEMMA ConcatElements ==
  ASSUME NEW s \in Seq(Nat), NEW t \in Seq(Nat)
  PROVE  /\ s \o t \in Seq(Nat) /\ Len(s \o t) = Len(s) + Len(t)
         /\ \A k \in DOMAIN (s \o t) : \/ \E j \in DOMAIN s : (s \o t)[k] = s[j]
                                       \/ \E j \in DOMAIN t : (s \o t)[k] = t[j]
         /\ t # <<>> => s \o t # <<>>
  <1>1. /\ s \o t \in Seq(Nat) /\ Len(s \o t) = Len(s) + Len(t)
        /\ Len(s) \in Nat /\ Len(t) \in Nat /\ t # <<>> => Len(t) > 0
        /\ DOMAIN s = 1..Len(s) /\ DOMAIN t = 1..Len(t) /\ DOMAIN (s \o t) = 1..Len(s \o t)
    BY ConcatProperties, LenProperties, EmptySeq
  <1>2. ASSUME NEW k \in DOMAIN (s \o t)
        PROVE  \/ \E j \in DOMAIN s : (s \o t)[k] = s[j]
               \/ \E j \in DOMAIN t : (s \o t)[k] = t[j]
    <2>1. k \in 1..(Len(s) + Len(t)) /\ (s \o t)[k] = IF k <= Len(s) THEN s[k] ELSE t[k - Len(s)]
      BY <1>1, ConcatProperties
    <2>2. CASE k <= Len(s)
      BY <1>1, <2>1, <2>2
    <2>3. CASE ~(k <= Len(s))
      <3>1. k - Len(s) \in DOMAIN t
        BY <1>1, <2>1, <2>3
      <3> QED
        BY <2>1, <2>3, <3>1
    <2> QED
      BY <2>2, <2>3
  <1> QED
    BY <1>1, <1>2, EmptySeq

LEMMA UntilConcat ==
  ASSUME NEW s \in Seq(Nat), NEW t \in Seq(Nat), NEW n, Until(s, n), Until(t, n)
  PROVE  Until(s \o t, n)
  BY ConcatElements DEF Until

LEMMA UntilMore ==
  ASSUME NEW s \in Seq(Nat), NEW m \in Int, NEW n \in Int, m <= n, Until(s, m)
  PROVE  Until(s, n)
  <1>1. \A k \in DOMAIN s : s[k] \in Nat
    BY ElementOfSeq, LenProperties
  <1> QED
    BY <1>1 DEF Until

LEMMA WithinMore ==
  ASSUME NEW a \in Attributes, NEW m \in Int, NEW n \in Int, m <= n, Within(a, m)
  PROVE  Within(a, n)
  BY UntilMore DEF Within, Attributes

AllNamed == \A i \in DOMAIN attrs : attrs[i].name # <<>>

\* In the lexer.
Spreading == /\ IInv /\ Rereads /\ SpreadInv /\ phase = "lex"
             /\ UNCHANGED <<tag, parser>>

Quiet == state \notin {"CharRef", "NamedCharRef"}

LEMMA Holds ==
  ASSUME IInv
  PROVE  /\ Taken \in Int /\ Handed \in Int /\ Len(tag) \in Nat /\ pos \in Nat
         /\ Handed <= Taken /\ Taken <= Len(tag)
         /\ Quiet => Handed = Taken
  <1>1. pos \in Nat /\ pos <= Len(tag) /\ Len(tag) \in Nat
    BY TagType
  <1>2. Taken \in Int /\ pos - 1 <= Taken /\ Taken <= pos
    BY <1>1 DEF Taken
  <1> QED
    BY <1>1, <1>2 DEF Handed, Quiet

LEMMA HoldsNext ==
  ASSUME IInv, IInv', tag' = tag
  PROVE  Handed \in Int /\ Handed' \in Int
  <1>1. pos' \in 0..Len(tag) /\ Len(tag) \in Nat /\ pos \in Nat
    BY TagType DEF IInv, TypeOK
  <1> QED
    BY <1>1 DEF Handed, Taken

LEMMA NamesThere ==
  ASSUME Spreading, NEW s, Consume(s), s # "AttrName" \/ Char \in {" ", "/", ">", "=", Eof}
  PROVE  AllNamed
  <1> SUFFICES ASSUME NEW i \in DOMAIN attrs, attrs[i].name = <<>> PROVE FALSE
    BY DEF AllNamed
  <1>1. Named(i)
    BY DEF Spreading, SpreadInv
  <1>2. state = "AttrName" /\ again /\ ch \notin {" ", "/", ">", "=", Eof} /\ state = s
    BY <1>1 DEF Named, Consume
  <1> QED
    BY <1>2, Consumed DEF Spreading

LEMMA SpreadSame ==
  ASSUME Spreading, IInv', AllNamed, attrs' = attrs, phase' = "lex", Handed <= Handed',
         state' \in Valuing => Until(Cur.name, Handed' - 1),
         state' = "CharRef" => ~again', state' = "NamedCharRef" => again'
  PROVE  SpreadInv'
  <1>1. Handed \in Int /\ Handed' \in Int
    BY HoldsNext DEF Spreading
  <1>2. \A i \in DOMAIN attrs : Within(attrs[i], Handed')
    BY <1>1, AttrSeqs, WithinMore DEF Spreading, SpreadInv
  <1>3. \A i \in DOMAIN attrs' :
           /\ Named(i)' /\ Apart(attrs'[i]) /\ Within(attrs'[i], Len(tag'))
           /\ \A h \in 1..(i - 1) : Before(attrs'[h], attrs'[i])
    BY DEF AllNamed, Named, Spreading, SpreadInv
  <1>4. part' = "gap" /\ rest' = <<>> /\ read' = 0 /\ out' = <<>>
    BY DEF Spreading, SpreadInv, parser
  <1>5. Cur' = Cur
    BY DEF Cur
  <1> QED
    BY <1>2, <1>3, <1>4, <1>5 DEF SpreadInv

LEMMA SpreadLeaves ==
  ASSUME Spreading, Error \/ (Break /\ AllNamed)
  PROVE  SpreadInv'
  <1>1. phase' = "emit"
    BY DEF Error, Break
  <1>2. CASE Error
    <2>1. attrs' = <<>>
      BY <1>2 DEF Error
    <2> QED
      BY <1>1, <2>1 DEF SpreadInv
  <1>3. CASE Break /\ AllNamed
    <2>1. attrs' = attrs
      BY <1>3 DEF Break, Same
    <2>2. \A i \in DOMAIN attrs' :
           /\ Named(i)' /\ Apart(attrs'[i]) /\ Within(attrs'[i], Len(tag'))
           /\ \A h \in 1..(i - 1) : Before(attrs'[h], attrs'[i])
      BY <1>3, <2>1 DEF AllNamed, Named, Spreading, SpreadInv
    <2> QED
      BY <1>1, <2>2 DEF SpreadInv
  <1> QED
    BY <1>2, <1>3

LEMMA OneMore ==
  \A n \in Nat : /\ \A i \in 1..(n + 1) : i = n + 1 \/ i \in 1..n
                 /\ \A i \in 1..n : \A h \in 1..(i - 1) : h \in 1..n /\ h # n
  OBVIOUS

\* A new attribute is empty, and in order with any others.
LEMMA EmptySpread ==
  ASSUME NEW a, a.name = <<>>, a.value = <<>>, a.valueAt = 0
  PROVE  Apart(a) /\ \A n : Within(a, n) /\ Before(n, a)
  <1>1. DOMAIN <<>> = {}
    OBVIOUS
  <1> QED
    BY <1>1 DEF Apart, Within, Until, Before

LEMMA NewAttrIs ==
  ASSUME IInv, NewAttr
  PROVE  /\ DOMAIN attrs = 1..Len(attrs) /\ DOMAIN attrs' = 1..(Len(attrs) + 1)
         /\ Len(attrs') = Len(attrs) + 1 /\ Len(attrs) \in Nat
         /\ \A i \in 1..Len(attrs) : attrs'[i] = attrs[i]
         /\ attrs'[Len(attrs) + 1].name = <<>> /\ attrs'[Len(attrs) + 1].value = <<>>
         /\ attrs'[Len(attrs) + 1].valueAt = 0
  <1> DEFINE a == [name |-> <<>>, nameAt |-> 0, value |-> <<>>, valueAt |-> 0]
  <1>1. a \in Attributes /\ a.name = <<>> /\ a.value = <<>> /\ a.nameAt = 0 /\ a.valueAt = 0
    BY DEF Attributes
  <1>2. attrs' = Append(attrs, a)
    BY DEF NewAttr
  <1> HIDE DEF a
  <1> QED
    BY <1>1, <1>2, AppendProperties, LenProperties DEF IInv, TypeOK

LEMMA SpreadNew ==
  ASSUME Spreading, IInv', AllNamed, NewAttr, phase' = "lex", Handed <= Handed',
         state' = "AttrName", again', ch' \notin {" ", "/", ">", "=", Eof}
  PROVE  SpreadInv'
  <1> DEFINE n == Len(attrs) + 1
  <1>1. /\ DOMAIN attrs = 1..Len(attrs) /\ DOMAIN attrs' = 1..n
        /\ Len(attrs') = n /\ Len(attrs) \in Nat
        /\ \A i \in 1..Len(attrs) : attrs'[i] = attrs[i]
        /\ attrs'[n].name = <<>> /\ attrs'[n].value = <<>> /\ attrs'[n].valueAt = 0
    BY NewAttrIs DEF Spreading
  <1>2. Apart(attrs'[n]) /\ \A m : Within(attrs'[n], m) /\ Before(m, attrs'[n])
    BY <1>1, EmptySpread
  <1>3. /\ \A i \in 1..n : i = n \/ i \in 1..Len(attrs)
        /\ \A i \in 1..Len(attrs) : \A h \in 1..(i - 1) : h \in 1..Len(attrs)
    BY <1>1, OneMore
  <1> HIDE DEF n
  <1>4. Handed \in Int /\ Handed' \in Int
    BY HoldsNext DEF Spreading
  <1>5. \A i \in DOMAIN attrs : Within(attrs[i], Handed')
    BY <1>4, AttrSeqs, WithinMore DEF Spreading, SpreadInv
  <1>6. ASSUME NEW i \in DOMAIN attrs'
        PROVE  /\ Named(i)' /\ Apart(attrs'[i]) /\ Within(attrs'[i], Len(tag'))
               /\ Within(attrs'[i], Handed')
               /\ \A h \in 1..(i - 1) : Before(attrs'[h], attrs'[i])
    <2>1. CASE i \in 1..Len(attrs)
      <3>1. attrs'[i] = attrs[i] /\ \A h \in 1..(i - 1) : attrs'[h] = attrs[h]
        BY <1>1, <1>3, <2>1
      <3>2. Named(i)'
        BY <1>1, <2>1, <3>1 DEF AllNamed, Named
      <3>3. /\ Apart(attrs[i]) /\ Within(attrs[i], Len(tag))
            /\ \A h \in 1..(i - 1) : Before(attrs[h], attrs[i])
        BY <1>1, <2>1 DEF Spreading, SpreadInv
      <3> QED
        BY <1>1, <1>5, <2>1, <3>1, <3>2, <3>3 DEF Spreading
    <2>2. CASE i = n
      <3>1. Named(i)'
        BY <1>1, <2>2 DEF Named
      <3> QED
        BY <1>2, <2>2, <3>1
    <2> QED
      BY <1>1, <1>3, <2>1, <2>2
  <1>7. part' = "gap" /\ rest' = <<>> /\ read' = 0 /\ out' = <<>>
    BY DEF Spreading, SpreadInv, parser
  <1> QED
    BY <1>6, <1>7 DEF SpreadInv, Valuing

LEMMA SpreadCur ==
  ASSUME Spreading, IInv', attrs # <<>>, phase' = "lex", Handed <= Handed',
         DOMAIN attrs' = DOMAIN attrs, Len(attrs') = Len(attrs),
         \A i \in DOMAIN attrs : i # Len(attrs') => attrs'[i] = attrs[i],
         Cur'.name # <<>>, Apart(Cur'), Within(Cur', Handed'), Within(Cur', Len(tag)),
         \A h \in 1..(Len(attrs) - 1) : Before(attrs[h], Cur'),
         state' \in Valuing => Until(Cur'.name, Handed' - 1),
         state' \notin {"CharRef", "NamedCharRef"}
  PROVE  SpreadInv'
  <1> DEFINE n == Len(attrs)
  <1>1. /\ DOMAIN attrs = 1..n /\ DOMAIN attrs' = 1..n /\ Len(attrs') = n
        /\ n \in Nat /\ n \in DOMAIN attrs
    BY AttrSeqs, SMTT(60) DEF Spreading
  <1>2. \A i \in 1..n : i # n => attrs'[i] = attrs[i]
    BY <1>1
  <1>3. Cur' = attrs'[n] /\ tag' = tag
    BY <1>1 DEF Cur, Spreading
  <1>4. Handed \in Int /\ Handed' \in Int
    BY HoldsNext DEF Spreading
  <1>5. \A i \in DOMAIN attrs : Within(attrs[i], Handed')
    BY <1>4, AttrSeqs, WithinMore, SMTT(60) DEF Spreading, SpreadInv
  <1>6. \A i \in 1..n : \A h \in 1..(i - 1) : h \in 1..n /\ h # n
    BY <1>1, OneMore, ZenonT(60)
  <1>7. ASSUME NEW i \in 1..n, i # n PROVE Named(i)'
    BY <1>1, <1>2, <1>7 DEF Named, Spreading, SpreadInv
  <1>8. Named(n)'
    BY <1>3 DEF Named
  <1> HIDE DEF n
  <1>9. ASSUME NEW i \in DOMAIN attrs'
        PROVE  /\ Named(i)' /\ Apart(attrs'[i]) /\ Within(attrs'[i], Len(tag'))
               /\ Within(attrs'[i], Handed')
               /\ \A h \in 1..(i - 1) : Before(attrs'[h], attrs'[i])
    <2>1. i \in 1..n /\ \A h \in 1..(i - 1) : attrs'[h] = attrs[h]
      BY <1>1, <1>2, <1>6
    <2>2. CASE i # n
      <3>1. attrs'[i] = attrs[i] /\ i \in DOMAIN attrs
        BY <1>1, <1>2, <2>1, <2>2
      <3>2. Apart(attrs[i]) /\ Within(attrs[i], Len(tag))
            /\ \A h \in 1..(i - 1) : Before(attrs[h], attrs[i])
        BY <3>1 DEF Spreading, SpreadInv
      <3> QED
        BY <1>3, <1>5, <1>7, <2>1, <2>2, <3>1, <3>2
    <2>3. CASE i = n
      BY <1>3, <1>8, <2>1, <2>3 DEF n
    <2> QED
      BY <2>2, <2>3
  <1>10. part' = "gap" /\ rest' = <<>> /\ read' = 0 /\ out' = <<>>
    BY DEF Spreading, SpreadInv, parser
  <1> QED
    BY <1>9, <1>10 DEF SpreadInv

\* Text that is appended to the name or the value comes after all there is.
LEMMA SpreadName ==
  ASSUME Spreading, IInv', attrs # <<>>, AppendName(<<Pos>>), phase' = "lex",
         state = "AttrName", Cur.value = <<>>, Handed < Pos, Pos <= Handed', state' = "AttrName"
  PROVE  SpreadInv'
  <1> DEFINE n == Len(attrs)
  <1>1. Pos \in Nat /\ Pos >= 1 /\ Pos <= Len(tag) /\ <<Pos>> \in Seq(Nat)
        /\ Handed \in Int /\ Handed' \in Int /\ Len(tag) \in Nat
    BY Consumed, HoldsNext, TagType DEF Spreading
  <1>2. AppendCurr("name", "nameAt", <<Pos>>, Pos)
    BY DEF AppendName
  <1>3. /\ DOMAIN attrs' = DOMAIN attrs /\ Len(attrs') \in DOMAIN attrs
        /\ \A i \in DOMAIN attrs : i # Len(attrs') => attrs'[i] = attrs[i]
        /\ Cur = attrs[Len(attrs')]
        /\ Cur'.name = Cur.name \o <<Pos>> /\ Cur'.value = Cur.value
        /\ Cur'.valueAt = Cur.valueAt /\ Cur' = attrs'[Len(attrs')]
    BY <1>1, <1>2, AppendedTo DEF Spreading, Cur
  <1>4. Len(attrs') = n /\ DOMAIN attrs = 1..n /\ n \in Nat
    BY <1>1, <1>2, AppendCurrType, AttrSeqs DEF Spreading
  <1> HIDE DEF n
  <1>5. Cur.name \in Seq(Nat) /\ Cur.value \in Seq(Nat)
    BY <1>3, AttrSeqs DEF Spreading
  <1>6. \A i \in DOMAIN attrs : Within(attrs[i], Handed')
    BY <1>1, AttrSeqs, WithinMore DEF Spreading, SpreadInv
  <1>7. /\ Apart(Cur') /\ Cur'.name # <<>> /\ Within(Cur', Handed') /\ Within(Cur', Len(tag))
    <2>1. Cur.value = <<>> /\ DOMAIN Cur.value = {} /\ Cur.valueAt = 0
      BY <1>3 DEF Spreading, SpreadInv, Apart
    <2>2. Until(<<Pos>>, Handed') /\ Until(<<Pos>>, Len(tag)) /\ <<Pos>> # <<>>
      BY <1>1 DEF Until
    <2>3. Until(Cur.name, Handed') /\ Until(Cur.name, Len(tag))
      BY <1>3, <1>6 DEF Spreading, SpreadInv, Within
    <2>4. /\ Until(Cur.name \o <<Pos>>, Handed') /\ Until(Cur.name \o <<Pos>>, Len(tag))
          /\ Cur.name \o <<Pos>> # <<>>
      BY <1>1, <1>5, <2>2, <2>3, UntilConcat, ConcatElements
    <2> QED
      BY <1>3, <2>1, <2>4 DEF Apart, Within, Until
  <1>8. ASSUME NEW h \in 1..(n - 1)
        PROVE  Before(attrs[h], Cur')
    <2>1. h \in DOMAIN attrs /\ Len(attrs') \in DOMAIN attrs /\ h \in 1..(Len(attrs') - 1)
      BY <1>3, <1>4, <1>8
    <2>2. Before(attrs[h], Cur) /\ Within(attrs[h], Handed)
      BY <1>3, <2>1 DEF Spreading, SpreadInv
    <2>3. Within(attrs[h], Pos - 1)
      BY <1>1, <2>1, <2>2, AttrSeqs, WithinMore DEF Spreading
    <2>4. ASSUME NEW j \in DOMAIN Cur'.name
          PROVE  Within(attrs[h], Cur'.name[j] - 1)
      <3>1. \/ \E i \in DOMAIN Cur.name : Cur'.name[j] = Cur.name[i]
            \/ \E i \in DOMAIN <<Pos>> : Cur'.name[j] = <<Pos>>[i]
        <4>1. j \in DOMAIN (Cur.name \o <<Pos>>) /\ Cur'.name[j] = (Cur.name \o <<Pos>>)[j]
          BY <1>3, <2>4
        <4> QED
          BY <1>1, <1>5, <4>1, ConcatElements, SMTT(60)
      <3>2. \A i \in DOMAIN <<Pos>> : <<Pos>>[i] = Pos
        OBVIOUS
      <3> QED
        BY <2>2, <2>3, <3>1, <3>2 DEF Before
    <2> QED
      BY <2>4 DEF Before
  <1> QED
    BY <1>1, <1>3, <1>4, <1>7, <1>8, SpreadCur DEF n, Valuing

LEMMA SpreadValue ==
  ASSUME Spreading, IInv', attrs # <<>>, phase' = "lex", state \in Valuing,
         NEW text \in Seq(Nat), NEW last \in Nat, AppendVal(text, last),
         text # <<>>, last # 0, Handed <= Handed', 0 <= Handed', Handed' <= Len(tag),
         \A k \in DOMAIN text : text[k] = 0 \/ (Handed < text[k] /\ text[k] <= Handed'),
         state' \in Valuing => Handed < Handed', state' \notin {"CharRef", "NamedCharRef"}
  PROVE  SpreadInv'
  <1>1. Handed \in Int /\ Handed' \in Int /\ Len(tag) \in Nat
    BY HoldsNext, TagType DEF Spreading
  <1>2. AppendCurr("value", "valueAt", text, last)
    BY DEF AppendVal
  <1>3. /\ DOMAIN attrs' = DOMAIN attrs /\ Len(attrs') \in DOMAIN attrs
        /\ \A i \in DOMAIN attrs : i # Len(attrs') => attrs'[i] = attrs[i]
        /\ Cur = attrs[Len(attrs')]
        /\ Cur'.value = Cur.value \o text /\ Cur'.name = Cur.name
        /\ Cur'.valueAt = IF Cur.valueAt = 0 THEN last ELSE Cur.valueAt
    BY <1>1, <1>2, AppendedTo DEF Spreading
  <1>4. Len(attrs') = Len(attrs) /\ DOMAIN attrs = 1..Len(attrs)
    BY <1>1, <1>2, AppendCurrType, AttrSeqs DEF Spreading
  <1>5. Cur.name \in Seq(Nat) /\ Cur.value \in Seq(Nat)
    BY <1>3, AttrSeqs DEF Spreading
  <1>6. Within(Cur, Handed) /\ Apart(Cur) /\ Until(Cur.name, Handed - 1) /\ Cur.name # <<>>
    BY <1>3 DEF Spreading, SpreadInv, Named, Valuing
  <1>7. \A j \in DOMAIN Cur.name : Cur.name[j] \in Nat /\ Cur.name[j] <= Handed - 1
    BY <1>5, <1>6, LenProperties, ElementOfSeq DEF Until
  <1>8. \A j \in DOMAIN text : text[j] \in Nat
    BY LenProperties, ElementOfSeq
  <1>9. Cur.value \o text # <<>> /\ Cur'.valueAt # 0
    BY <1>3, <1>5, ConcatElements
  <1>10. Apart(Cur')
    <2>1. ASSUME NEW j \in DOMAIN Cur.name, NEW k \in DOMAIN (Cur.value \o text),
                 (Cur.value \o text)[k] # 0
          PROVE  Cur.name[j] + 1 < (Cur.value \o text)[k]
      <3>1. CASE \E i \in DOMAIN Cur.value : (Cur.value \o text)[k] = Cur.value[i]
        BY <1>6, <2>1, <3>1 DEF Apart
      <3>2. CASE \E i \in DOMAIN text : (Cur.value \o text)[k] = text[i]
        <4>1. PICK i \in DOMAIN text : (Cur.value \o text)[k] = text[i]
          BY <3>2
        <4>2. Handed < text[i] /\ text[i] \in Nat
          BY <1>8, <2>1, <4>1
        <4> QED
          BY <1>1, <1>7, <2>1, <4>1, <4>2, SMTT(60)
      <3> QED
        BY <1>5, <2>1, <3>1, <3>2, ConcatElements
    <2> QED
      BY <1>3, <1>9, <2>1 DEF Apart
  <1>11. \A m \in {Handed', Len(tag)} : Within(Cur', m)
    <2> SUFFICES ASSUME NEW m \in {Handed', Len(tag)} PROVE Within(Cur', m)
      OBVIOUS
    <2>1. m \in Int /\ Handed <= m /\ 0 <= m /\ Handed' <= m
      BY <1>1
    <2>2. Until(Cur.name, m) /\ Until(Cur.value, m)
      BY <1>1, <1>5, <1>6, <2>1, UntilMore DEF Within
    <2>3. Until(text, m)
      BY <1>1, <1>8, <2>1 DEF Until
    <2>4. Until(Cur.value \o text, m)
      BY <1>5, <2>2, <2>3, UntilConcat
    <2> QED
      BY <1>3, <2>2, <2>4 DEF Within
  <1>12. \A h \in 1..(Len(attrs) - 1) : Before(attrs[h], Cur')
    BY <1>3, <1>4 DEF Spreading, SpreadInv, Before
  <1>13. state' \in Valuing => Until(Cur'.name, Handed' - 1)
    BY <1>1, <1>3, <1>7 DEF Until
  <1> QED
    BY <1>3, <1>4, <1>6, <1>10, <1>11, <1>12, <1>13, SpreadCur

\* How the last character that may have been given to an attribute moves.
LEMMA HandedMoves ==
  ASSUME Spreading, IInv', NEW s, Consume(s), s \notin {"CharRef", "NamedCharRef"}
  PROVE  /\ phase = "lex" /\ state = s /\ tag' = tag /\ UNCHANGED parser
         /\ Handed \in Int /\ Handed' \in Int /\ Pos \in Nat /\ Pos <= Len(tag) /\ Len(tag) \in Nat
         /\ Char # Eof => Pos = Handed + 1
         /\ state' \notin {"CharRef", "NamedCharRef"} =>
              /\ Handed <= Handed' /\ Handed' <= Len(tag) /\ 0 <= Handed'
              /\ ~again' => Handed' = Pos
         /\ state' = "CharRef" /\ Char # Eof => Handed' = Handed
  <1>1. /\ phase = "lex" /\ state = s /\ tag' = tag /\ UNCHANGED parser
        /\ pos' = Pos /\ ch' = Char
    BY DEF Consume, Spreading
  <1>2. /\ Taken \in Int /\ Pos \in Nat
        /\ Char = Eof => Pos = Taken
        /\ Char # Eof => Pos = Taken + 1
        /\ again' => Taken' = Taken
        /\ ~again' => Taken' = Pos
    BY <1>1, Takes DEF Spreading
  <1>3. Handed \in Int /\ Handed' \in Int /\ Pos <= Len(tag) /\ Len(tag) \in Nat /\ Pos >= 1
    BY HoldsNext, Consumed, TagType DEF Spreading
  <1>4. Handed = Taken
    BY <1>1 DEF Handed
  <1>5. state' \notin {"CharRef", "NamedCharRef"} => Handed' = Taken'
    BY DEF Handed
  <1>6. state' = "CharRef" => Handed' = Pos - 1
    BY <1>1 DEF Handed
  <1> QED
    BY <1>1, <1>2, <1>3, <1>4, <1>5, <1>6

\* Steps that give the attributes nothing.
LEMMA QuietSpread ==
  ASSUME Spreading, IInv', NEW s, Consume(s), s \notin {"CharRef", "NamedCharRef"}, AllNamed,
         NEW t, t \notin Valuing, To(t) \/ ReconsumeIn(t)
  PROVE  SpreadInv'
  <1>1. phase' = "lex" /\ state' = t /\ attrs' = attrs
    BY Goes DEF Spreading
  <1>2. t \notin {"CharRef", "NamedCharRef"}
    BY DEF Valuing
  <1> QED
    BY <1>1, <1>2, HandedMoves, SpreadSame

LEMMA EqualsSpread ==
  ASSUME Spreading, IInv', NEW s, Consume(s), s \notin {"CharRef", "NamedCharRef"}, AllNamed,
         Char = "=", To("BeforeAttrVal")
  PROVE  SpreadInv'
  <1>1. phase' = "lex" /\ state' = "BeforeAttrVal" /\ attrs' = attrs /\ ~again'
    BY Goes DEF Spreading
  <1>2. Char # Eof
    BY SignsApart DEF Marks
  <1>3. Handed' = Handed + 1 /\ Handed \in Int
    BY <1>1, <1>2, HandedMoves
  <1>4. attrs # <<>>
    BY <1>1 DEF IInv, Hand, AttrAtHand
  <1>5. Within(Cur, Handed)
    BY <1>4, AttrSeqs DEF Spreading, SpreadInv, Cur
  <1>6. Handed' - 1 = Handed /\ Handed <= Handed'
    BY <1>3
  <1>7. Until(Cur.name, Handed' - 1)
    BY <1>5, <1>6 DEF Within
  <1> QED
    BY <1>1, <1>6, <1>7, SpreadSame

LEMMA NewSpread ==
  ASSUME Spreading, IInv', NEW s, Consume(s), s \notin {"CharRef", "NamedCharRef"}, AllNamed,
         Char \notin {" ", "/", ">", "=", Eof}, Switch("AttrName", TRUE), NewAttr
  PROVE  SpreadInv'
  <1>1. phase' = "lex" /\ state' = "AttrName" /\ again' /\ ch' = Char
    BY DEF Switch, Consume
  <1> QED
    BY <1>1, HandedMoves, SpreadNew

LEMMA NamesSpread ==
  ASSUME Spreading, IInv', PlaceInv,
         \/ Data \/ TagOpen \/ TagName \/ BeforeAttrName \/ AttrName
         \/ AfterAttrName \/ AfterQuoted \/ SelfClosing
  PROVE  SpreadInv'
  <1> DEFINE Leads2 == {"TagOpen", "TagName", "BeforeAttrName", "SelfClosing", "AfterAttrName"}
  <1>1. \A t \in Leads2 : t \notin Valuing
    BY DEF Valuing
  <1>2. CASE Data \/ TagOpen \/ TagName \/ AfterQuoted \/ SelfClosing
    <2>1. PICK s \in {"Data", "TagOpen", "TagName", "AfterQuoted", "SelfClosing"} : Consume(s)
      BY <1>2 DEF Data, TagOpen, TagName, AfterQuoted, SelfClosing
    <2>2. AllNamed
      BY <2>1, NamesThere
    <2>3. \/ \E t \in Leads2 : To(t) \/ ReconsumeIn(t)
          \/ Break \/ Error
      BY <1>2 DEF Data, TagOpen, TagName, AfterQuoted, SelfClosing
    <2> HIDE DEF Leads2
    <2> QED
      BY <1>1, <2>1, <2>2, <2>3, QuietSpread, SpreadLeaves
  <1>3. CASE BeforeAttrName \/ AfterAttrName
    <2>1. PICK s \in {"BeforeAttrName", "AfterAttrName"} : Consume(s)
      BY <1>3 DEF BeforeAttrName, AfterAttrName
    <2>2. AllNamed
      BY <2>1, NamesThere
    <2>3. \/ \E t \in Leads2 : To(t) \/ ReconsumeIn(t)
          \/ Break \/ Error
          \/ Char = "=" /\ To("BeforeAttrVal")
          \/ /\ Char \notin {" ", "/", ">", "=", Eof}
             /\ Switch("AttrName", TRUE) /\ NewAttr
      BY <1>3 DEF BeforeAttrName, AfterAttrName
    <2> HIDE DEF Leads2
    <2> QED
      BY <1>1, <2>1, <2>2, <2>3, QuietSpread, SpreadLeaves, EqualsSpread, NewSpread
  <1>4. CASE AttrName
    <2>1. Consume("AttrName")
      BY <1>4 DEF AttrName
    <2>2. CASE \/ Char \in {" ", "/", ">", Eof} /\ ReconsumeIn("AfterAttrName")
               \/ Char = "=" /\ To("BeforeAttrVal")
      <3>1. AllNamed
        BY <2>1, <2>2, NamesThere
      <3> QED
        BY <1>1, <2>1, <2>2, <3>1, QuietSpread, EqualsSpread
    <2>3. CASE Error
      BY <2>3, SpreadLeaves
    <2>4. CASE Char # Eof /\ Switch("AttrName", FALSE) /\ AppendName(<<Pos>>)
      <3>1. phase' = "lex" /\ state' = "AttrName" /\ ~again'
        BY <2>1, <2>4 DEF Switch, Consume
      <3>2. state = "AttrName" /\ Handed \in Int /\ Pos = Handed + 1 /\ Handed' = Pos
        BY <2>1, <2>4, <3>1, HandedMoves
      <3>3. attrs # <<>> /\ Cur.value = <<>>
        BY <3>2 DEF Spreading, IInv, Hand, AttrAtHand, PlaceInv
      <3>4. Handed < Pos /\ Pos <= Handed' /\ Handed <= Handed'
        BY <3>2
      <3> QED
        BY <2>4, <3>1, <3>2, <3>3, <3>4, SpreadName
    <2> QED
      BY <1>4, <2>2, <2>3, <2>4 DEF AttrName
  <1> QED
    BY <1>2, <1>3, <1>4

LEMMA OneLess == \A m, n \in Int : m <= n => m - 1 \in Int /\ n - 1 \in Int /\ m - 1 <= n - 1
  OBVIOUS

\* In a value.
LEMMA InValueSpread ==
  ASSUME Spreading, IInv', NEW s \in {"BeforeAttrVal", "DoubleQuote", "SingleQuote", "Unquoted"},
         Consume(s)
  PROVE  /\ \A t \in {"BeforeAttrVal", "DoubleQuote", "SingleQuote", "Unquoted"} :
              To(t) \/ ReconsumeIn(t) => SpreadInv'
         /\ To("AfterQuoted") \/ To("BeforeAttrName") => SpreadInv'
         /\ Break \/ Error => SpreadInv'
         /\ Char = "&" /\ ToCharRef(s) => SpreadInv'
         /\ Char # Eof /\ s # "BeforeAttrVal" /\ Switch(s, FALSE) /\ AppendVal(<<Pos>>, Pos)
              => SpreadInv'
  <1>1. /\ phase = "lex" /\ state = s /\ s \in Valuing
        /\ s \notin {"CharRef", "NamedCharRef", "AttrName"}
        /\ "AfterQuoted" \notin Valuing /\ "BeforeAttrName" \notin Valuing
    BY DEF Consume, Valuing
  <1>2. AllNamed /\ attrs # <<>>
    BY <1>1, NamesThere DEF Spreading, IInv, Hand, AttrAtHand
  <1>3. Until(Cur.name, Handed - 1) /\ Cur.name \in Seq(Nat)
    BY <1>1, <1>2, AttrSeqs DEF Spreading, SpreadInv, Cur
  <1>4. ASSUME NEW t \in {"BeforeAttrVal", "DoubleQuote", "SingleQuote", "Unquoted"},
               To(t) \/ ReconsumeIn(t)
        PROVE  SpreadInv'
    <2>1. phase' = "lex" /\ state' = t /\ attrs' = attrs
      BY <1>1, <1>4, Goes
    <2>2. Handed <= Handed' /\ Handed \in Int /\ Handed' \in Int
      BY <1>1, <2>1, HandedMoves
    <2>3. Handed - 1 \in Int /\ Handed' - 1 \in Int /\ Handed - 1 <= Handed' - 1
      BY <2>2, OneLess
    <2>4. Until(Cur.name, Handed' - 1)
      BY <1>3, <2>3, UntilMore
    <2> QED
      BY <1>2, <2>1, <2>2, <2>4, SpreadSame
  <1>5. To("AfterQuoted") \/ To("BeforeAttrName") => SpreadInv'
    BY <1>1, <1>2, QuietSpread
  <1>6. Break \/ Error => SpreadInv'
    BY <1>2, SpreadLeaves
  <1>7. ASSUME Char = "&", ToCharRef(s)
        PROVE  SpreadInv'
    <2>1. phase' = "lex" /\ state' = "CharRef" /\ ~again' /\ attrs' = attrs
      BY <1>1, <1>7, Goes
    <2>2. Char # Eof
      BY <1>7, SignsApart DEF Marks
    <2>3. Handed' = Handed /\ Handed \in Int
      BY <1>1, <2>1, <2>2, HandedMoves
    <2> QED
      BY <1>2, <1>3, <2>1, <2>3, SpreadSame
  <1>8. ASSUME Char # Eof, s # "BeforeAttrVal", Switch(s, FALSE), AppendVal(<<Pos>>, Pos)
        PROVE  SpreadInv'
    <2>1. phase' = "lex" /\ state' = s /\ ~again'
      BY <1>1, <1>8 DEF Switch
    <2>2. /\ Handed \in Int /\ Pos \in Nat /\ Pos = Handed + 1 /\ Handed' = Pos
          /\ Pos <= Len(tag) /\ Pos >= 1 /\ <<Pos>> \in Seq(Nat)
      BY <1>1, <1>8, <2>1, HandedMoves, Consumed DEF Spreading
    <2>3. /\ Handed < Handed' /\ Handed <= Handed' /\ 0 <= Handed' /\ Handed' <= Len(tag)
          /\ Pos # 0 /\ Handed < Pos /\ Pos <= Handed'
      BY <2>2
    <2>4. <<Pos>> # <<>> /\ \A k \in DOMAIN <<Pos>> : <<Pos>>[k] = Pos
      OBVIOUS
    <2> QED
      BY <1>1, <1>2, <1>8, <2>1, <2>2, <2>3, <2>4, SpreadValue
  <1> QED
    BY <1>4, <1>5, <1>6, <1>7, <1>8

LEMMA ValuesSpread ==
  ASSUME Spreading, IInv',
         \/ BeforeAttrVal \/ Unquoted
         \/ \E s \in {"DoubleQuote", "SingleQuote"} : Quoted(s)
  PROVE  SpreadInv'
  <1>1. CASE BeforeAttrVal
    <2>1. Consume("BeforeAttrVal")
      BY <1>1 DEF BeforeAttrVal
    <2> QED
      BY <1>1, <2>1, InValueSpread DEF BeforeAttrVal
  <1>2. CASE Unquoted
    <2>1. Consume("Unquoted")
      BY <1>2 DEF Unquoted
    <2> QED
      BY <1>2, <2>1, InValueSpread DEF Unquoted
  <1>3. CASE \E s \in {"DoubleQuote", "SingleQuote"} : Quoted(s)
    <2>1. PICK s \in {"DoubleQuote", "SingleQuote"} : Quoted(s)
      BY <1>3
    <2>2. Consume(s)
      BY <2>1 DEF Quoted
    <2> QED
      BY <2>1, <2>2, InValueSpread DEF Quoted
  <1> QED
    BY <1>1, <1>2, <1>3

LEMMA RefsSpread ==
  ASSUME Spreading, IInv', CharRef \/ NamedCharRef \/ Unimplemented
  PROVE  SpreadInv'
  <1>1. phase = "lex" /\ pos \in Nat /\ Len(tag) \in Nat /\ pos <= Len(tag)
    BY TagType DEF Spreading
  <1>2. CASE Unimplemented
    BY <1>2, SpreadLeaves DEF Unimplemented
  <1>3. ASSUME state \in {"CharRef", "NamedCharRef"}
        PROVE  /\ attrs # <<>> /\ AllNamed /\ pos >= 1 /\ state \in Valuing
               /\ Until(Cur.name, Handed - 1)
               /\ returnState \notin {"CharRef", "NamedCharRef"}
    BY <1>1, <1>3 DEF Spreading, IInv, Hand, AttrAtHand, TypeOK, SpreadInv, Valuing, AllNamed,
                      Named
  <1>4. CASE CharRef
    <2>1. Consume("CharRef") /\ state = "CharRef" /\ ~again /\ pos' = Pos /\ ch' = Char
      BY <1>4 DEF CharRef, Consume, Spreading, SpreadInv
    <2>2. /\ Handed = pos - 1 /\ Pos \in Nat /\ pos <= Pos /\ Pos <= Len(tag)
          /\ Char # Eof => Pos = pos + 1
      BY <2>1, Consumed DEF Handed, Spreading
    <2>3. CASE Char \in Letters /\ ReconsumeIn("NamedCharRef")
      <3>1. phase' = "lex" /\ state' = "NamedCharRef" /\ again' /\ attrs' = attrs
        BY <1>1, <2>3, Goes
      <3>2. Char # Eof
        BY <2>3, SignsApart
      <3>3. Handed' = pos' - 2
        BY <3>1 DEF Handed
      <3>4. Handed' = Handed /\ Handed \in Int
        BY <1>1, <2>1, <2>2, <3>2, <3>3
      <3> QED
        BY <1>3, <2>1, <3>1, <3>4, SpreadSame
    <2>4. CASE To("NumericCharRef")
      <3>1. phase' = "lex" /\ state' = "NumericCharRef" /\ ~again' /\ attrs' = attrs
        BY <1>1, <2>4, Goes
      <3>2. Handed' = pos'
        BY <3>1 DEF Handed, Taken
      <3>3. Handed <= Handed'
        BY <1>1, <2>1, <2>2, <3>2
      <3> QED
        BY <1>3, <2>1, <3>1, <3>3, SpreadSame DEF Valuing
    <2>5. CASE Switch(returnState, TRUE) /\ AppendVal(<<pos>>, Pos)
      <3>1. phase' = "lex" /\ state' = returnState /\ again'
        BY <1>1, <2>5 DEF Switch
      <3>2. Handed' = IF Char # Eof THEN Pos - 1 ELSE Pos
        BY <1>3, <2>1, <3>1 DEF Handed, Taken
      <3>3. /\ Handed < Handed' /\ Handed <= Handed' /\ 0 <= Handed' /\ Handed' <= Len(tag)
            /\ Pos # 0 /\ Handed < pos /\ pos <= Handed'
        BY <1>1, <1>3, <2>1, <2>2, <3>2
      <3>4. <<pos>> # <<>> /\ <<pos>> \in Seq(Nat) /\ \A k \in DOMAIN <<pos>> : <<pos>>[k] = pos
        BY <1>1
      <3> QED
        BY <1>3, <2>1, <2>2, <2>5, <3>1, <3>3, <3>4, SpreadValue
    <2> QED
      BY <1>4, <2>3, <2>4, <2>5 DEF CharRef
  <1>5. CASE NamedCharRef
    <2>1. state = "NamedCharRef" /\ Handed = pos - 2
      BY <1>5 DEF NamedCharRef, Handed
    <2> DEFINE text(a) == [k \in 1..(a - pos + 1) |-> pos + k - 2]
    <2>2. PICK a \in pos..(Len(tag) + 1) :
            /\ pos' = IF a > Len(tag) THEN Len(tag) ELSE a
            /\ \/ Switch(returnState, FALSE) /\ AppendVal(text(a), pos')
               \/ Switch(returnState, FALSE) /\ AppendVal(<<0>>, pos')
               \/ Error
               \/ Switch("AmbiguousAmpersand", FALSE) /\ AppendVal(text(a), pos')
      BY <1>5 DEF NamedCharRef
    <2>3. /\ text(a) \in Seq(Nat) /\ DOMAIN text(a) = 1..(a - pos + 1) /\ text(a) # <<>>
          /\ \A k \in DOMAIN text(a) : text(a)[k] = pos + k - 2
      <3>1. text(a) \in [1..(a - pos + 1) -> Nat] /\ a - pos + 1 \in Nat /\ a - pos + 1 > 0
        BY <1>1, <1>3, <2>1
      <3>2. text(a) \in Seq(Nat) /\ DOMAIN text(a) = 1..(a - pos + 1) /\ 1 \in DOMAIN text(a)
        BY <3>1, SeqDef, SMTT(60)
      <3> QED
        BY <3>2
    <2> HIDE DEF text
    <2>4. /\ pos' \in Nat /\ pos' # 0 /\ pos' <= Len(tag) /\ Handed < pos' /\ a - 1 <= pos'
          /\ 0 <= pos' /\ Handed <= pos' /\ \A k \in 1..(a - pos + 1) : Handed < pos + k - 2 /\ pos + k - 2 <= pos'
      BY <1>1, <1>3, <2>1, <2>2
    <2>5. <<0>> \in Seq(Nat) /\ <<0>> # <<>> /\ \A k \in DOMAIN <<0>> : <<0>>[k] = 0
      OBVIOUS
    <2>6. ASSUME NEW s \in {returnState, "AmbiguousAmpersand"}, NEW t \in Seq(Nat), t # <<>>,
                 \A k \in DOMAIN t : t[k] = 0 \/ (Handed < t[k] /\ t[k] <= pos'),
                 Switch(s, FALSE), AppendVal(t, pos')
          PROVE  SpreadInv'
      <3>1. phase' = "lex" /\ state' \notin {"CharRef", "NamedCharRef"} /\ ~again'
        BY <1>1, <1>3, <2>1, <2>6 DEF Switch
      <3>2. Handed' = pos'
        BY <3>1 DEF Handed, Taken
      <3> QED
        BY <1>3, <2>1, <2>4, <2>6, <3>1, <3>2, SpreadValue
    <2> QED
      BY <2>2, <2>3, <2>4, <2>5, <2>6, SpreadLeaves
  <1> QED
    BY <1>2, <1>4, <1>5

-----------------------------------------------------------------------------
(* The symbols of a name or value.                                         *)

LEMMA SymbolsIn ==
  ASSUME NEW s \in Seq(Nat)
  PROVE  /\ DOMAIN s = 1..Len(s) /\ Len(s) \in Nat
         /\ Symbols(s) \subseteq 1..Len(s) /\ IsFiniteSet(Symbols(s))
         /\ Cardinality(Symbols(s)) \in Nat
         /\ Symbols(s) = {} => Single(s) = {}
         /\ s = <<>> => Symbols(s) = {}
  <1>1. DOMAIN s = 1..Len(s) /\ Len(s) \in Nat
    BY LenProperties
  <1>2. Symbols(s) \subseteq 1..Len(s)
    BY <1>1 DEF Symbols, At
  <1>3. IsFiniteSet(1..Len(s))
    BY <1>1, FS_Interval
  <1>4. IsFiniteSet(Symbols(s)) /\ Cardinality(Symbols(s)) \in Nat
    BY <1>2, <1>3, FS_Subset, FS_CardinalityType
  <1>5. Symbols(s) = {} => Single(s) = {}
    BY DEF Single
  <1>6. s = <<>> => Symbols(s) = {}
    BY <1>1, <1>2
  <1> QED
    BY <1>1, <1>2, <1>4, <1>5, <1>6

LEMMA Rests ==
  \A n, d \in Nat : d <= n => /\ (IF d + 1 <= n THEN n - (d + 1) + 1 ELSE 0) = n - d
                              /\ n - (d + 1) + 1 = n - d
  BY SMTT(60)

\* What is left of a text.
LEMMA Tailing ==
  ASSUME NEW s \in Seq(Nat), NEW d \in Nat, d <= Len(s)
  PROVE  /\ SubSeq(s, d + 1, Len(s)) \in Seq(Nat)
         /\ Len(SubSeq(s, d + 1, Len(s))) = Len(s) - d
         /\ \A j \in 1..(Len(s) - d) : SubSeq(s, d + 1, Len(s))[j] = s[d + j] /\ d + j \in DOMAIN s
         /\ \A j \in DOMAIN s : d < j => j - d \in 1..(Len(s) - d)
         /\ \A j \in Nat : j \in Symbols(SubSeq(s, d + 1, Len(s))) <=> j >= 1 /\ d + j \in Symbols(s)
  <1> DEFINE t == SubSeq(s, d + 1, Len(s))
  <1>1. Len(s) \in Nat /\ DOMAIN s = 1..Len(s) /\ \A j \in 1..Len(s) : s[j] \in Nat
    BY LenProperties, ElementOfSeq
  <1>2. \A j \in (d + 1)..Len(s) : s[j] \in Nat
    BY <1>1
  <1>3. /\ t \in Seq(Nat)
        /\ Len(t) = IF d + 1 <= Len(s) THEN Len(s) - (d + 1) + 1 ELSE 0
        /\ \A j \in 1..(Len(s) - (d + 1) + 1) : t[j] = s[d + 1 + j - 1]
    <2> DEFINE m == d + 1
               n == Len(s)
    <2>1. m \in Int /\ n \in Int /\ \A j \in m..n : s[j] \in Nat
      BY <1>1, <1>2
    <2> HIDE DEF m, n
    <2>2. SubSeq(s, m, n) \in Seq(Nat)
      BY <2>1, SubSeqProperties
    <2>3. Len(SubSeq(s, m, n)) = IF m <= n THEN n - m + 1 ELSE 0
      BY <2>1, SubSeqProperties
    <2>4. \A j \in 1..(n - m + 1) : SubSeq(s, m, n)[j] = s[m + j - 1]
      BY <2>1, SubSeqProperties, SMTT(60)
    <2> QED
      BY <2>2, <2>3, <2>4 DEF m, n
  <1>4. Len(t) = Len(s) - d /\ Len(s) - (d + 1) + 1 = Len(s) - d
    BY <1>1, <1>3, Rests
  <1>5. /\ \A j \in 1..(Len(s) - d) : d + 1 + j - 1 = d + j /\ d + j \in 1..Len(s)
        /\ \A j \in 1..Len(s) : d < j => j - d \in 1..(Len(s) - d)
        /\ \A j \in Nat : j >= 1 /\ d + j \in 1..Len(s) <=> j \in 1..(Len(s) - d)
    BY <1>1, SMTT(60)
  <1>6. DOMAIN t = 1..(Len(s) - d)
    BY <1>3, <1>4, LenProperties
  <1> HIDE DEF t
  <1>7. \A j \in 1..(Len(s) - d) : t[j] = s[d + j]
    BY <1>3, <1>4, <1>5
  <1>8. \A j \in Nat : j \in Symbols(t) <=> j >= 1 /\ d + j \in Symbols(s)
    BY <1>1, <1>5, <1>6, <1>7 DEF Symbols, At
  <1> QED
    BY <1>1, <1>3, <1>4, <1>5, <1>7, <1>8 DEF t

LEMMA PlacedTail ==
  ASSUME NEW s \in Seq(Nat), NEW at \in Nat, NEW d \in Nat, d <= Len(s), Placed(s, at)
  PROVE  Placed(SubSeq(s, d + 1, Len(s)), at + d)
  <1> DEFINE t == SubSeq(s, d + 1, Len(s))
  <1>1. /\ t \in Seq(Nat) /\ Len(t) = Len(s) - d
        /\ \A j \in 1..(Len(s) - d) : t[j] = s[d + j] /\ d + j \in DOMAIN s
    BY Tailing
  <1>2. DOMAIN t = 1..(Len(s) - d) /\ Len(s) \in Nat
    BY <1>1, LenProperties
  <1> HIDE DEF t
  <1>3. ASSUME NEW j \in DOMAIN t PROVE t[j] = at + d + j - 1
    <2>1. j \in Nat /\ t[j] = s[d + j] /\ d + j \in DOMAIN s
      <3>1. j \in 1..(Len(s) - d)
        BY <1>2, <1>3
      <3>2. j \in Nat
        BY ONLY <3>1
      <3> QED
        BY <1>1, <3>1, <3>2
    <2>2. s[d + j] = at + (d + j) - 1
      BY <2>1 DEF Placed
    <2>3. at + (d + j) - 1 = at + d + j - 1
      BY <2>1
    <2> QED
      BY <2>1, <2>2, <2>3
  <1> QED
    BY <1>3 DEF Placed, t

LEMMA TogetherTail ==
  ASSUME NEW s \in Seq(Nat), NEW d \in Nat, d <= Len(s), Together(s)
  PROVE  Together(SubSeq(s, d + 1, Len(s)))
  <1> DEFINE t == SubSeq(s, d + 1, Len(s))
  <1>1. t \in Seq(Nat) /\ \A j \in Nat : j \in Symbols(t) <=> j >= 1 /\ d + j \in Symbols(s)
    BY Tailing
  <1>2. Len(t) = Len(s) - d /\ DOMAIN t = 1..Len(t) /\ DOMAIN s = 1..Len(s) /\ Len(s) \in Nat
        /\ Symbols(t) \subseteq 1..Len(t)
    BY <1>1, Tailing, SymbolsIn
  <1> HIDE DEF t
  <1>3. ASSUME NEW j \in Symbols(t), NEW k \in Symbols(t), NEW i \in DOMAIN t, j < i, i < k
        PROVE  i \in Symbols(t)
    <2>1. j \in Nat /\ k \in Nat /\ i \in Nat /\ i >= 1
      BY <1>2
    <2>2. d + j \in Symbols(s) /\ d + k \in Symbols(s)
      BY <1>1, <2>1
    <2>3. d + i \in DOMAIN s /\ d + j < d + i /\ d + i < d + k
      BY <1>2, <1>3, <2>1, SMTT(60)
    <2>4. d + i \in Symbols(s)
      BY <2>2, <2>3 DEF Together
    <2> QED
      BY <1>1, <2>1, <2>4
  <1> QED
    BY <1>3 DEF Together, t

\* As many symbols are in the rest as there are after d.
LEMMA CountTail ==
  ASSUME NEW s \in Seq(Nat), NEW d \in Nat, d <= Len(s)
  PROVE  Cardinality(Symbols(SubSeq(s, d + 1, Len(s)))) = Cardinality({m \in Symbols(s) : d < m})
  <1> DEFINE t == SubSeq(s, d + 1, Len(s))
             S == {m \in Symbols(s) : d < m}
             f == [j \in Symbols(t) |-> d + j]
  <1>1. t \in Seq(Nat) /\ \A j \in Nat : j \in Symbols(t) <=> j >= 1 /\ d + j \in Symbols(s)
    BY Tailing
  <1>2. Symbols(t) \subseteq Nat /\ Symbols(s) \subseteq Nat /\ IsFiniteSet(Symbols(t))
    <2>1. t \in Seq(Nat)
      BY <1>1
    <2> HIDE DEF t
    <2>2. /\ Symbols(t) \subseteq 1..Len(t) /\ Len(t) \in Nat /\ IsFiniteSet(Symbols(t))
          /\ Symbols(s) \subseteq 1..Len(s) /\ Len(s) \in Nat
      BY <2>1, SymbolsIn
    <2> QED
      BY <2>2
  <1> HIDE DEF t
  <1>3. \A j \in Symbols(t) : d + j \in S
    <2> TAKE j \in Symbols(t)
    <2>1. j \in Nat /\ j >= 1 /\ d + j \in Symbols(s)
      BY <1>1, <1>2
    <2> QED
      BY <2>1
  <1>4. \A m \in S : \E j \in Symbols(t) : d + j = m
    <2> TAKE m \in S
    <2>1. m - d \in Nat /\ m - d >= 1 /\ d + (m - d) = m /\ m \in Symbols(s)
      BY <1>2
    <2>2. m - d \in Symbols(t)
      BY <1>1, <2>1
    <2> QED
      BY <2>1, <2>2
  <1>5. \A i, j \in Symbols(t) : d + i = d + j => i = j
    BY <1>2
  <1> HIDE DEF S
  <1>6. f \in Bijection(Symbols(t), S)
    BY <1>3, <1>4, <1>5 DEF Bijection, Injection, Surjection, IsInjective
  <1>7. ExistsBijection(Symbols(t), S)
    BY <1>6 DEF ExistsBijection
  <1> QED
    BY <1>2, <1>7, FS_Bijection DEF t, S

LEMMA EvenBelow == \A n, c \in Nat : c = n + 2 => (c % 2 = 1 <=> n % 2 = 1) /\ (c % 2 = 0 <=> n % 2 = 0)
  OBVIOUS

LEMMA OneOrOther == \A n \in Nat : n % 2 = 0 \/ n % 2 = 1
  OBVIOUS

LEMMA Second ==
  \A n \in Nat : \A k \in 1..n : k + 1 \in 1..n =>
    /\ k \in Nat /\ k >= 1 /\ k + 1 \in Nat /\ k + 1 <= n /\ k < k + 1
    /\ ~(k + 1 < k) /\ ~(k + 1 < k + 1) /\ k + 1 # k
    /\ (k + 1) + 1 = k + 2 /\ n - (k + 1) = n - k - 1
    /\ \A m \in Nat : m + (k + 1) = m + k + 1 /\ m + (k + 1) - 1 = m + k
  OBVIOUS

LEMMA Thirds == \A k, m \in Nat : k <= m => m = k \/ m = k + 1 \/ k + 1 < m
  OBVIOUS

LEMMA Shifted ==
  \A d, n \in Nat : /\ d + (n - d) = n
                    /\ d < n => \E j \in Nat : j >= 1 /\ n = d + j
                    /\ n <= d => \A j \in Nat : n <= d + j
                    /\ \A j \in Nat : j <= n <=> d + j <= d + n
  <1> SUFFICES ASSUME NEW d \in Nat, NEW n \in Nat
               PROVE  /\ d + (n - d) = n
                      /\ d < n => \E j \in Nat : j >= 1 /\ n = d + j
                      /\ n <= d => \A j \in Nat : n <= d + j
                      /\ \A j \in Nat : j <= n <=> d + j <= d + n
    OBVIOUS
  <1>1. d < n => n - d \in Nat /\ n - d >= 1 /\ n = d + (n - d)
    OBVIOUS
  <1> QED
    BY <1>1

\* Two symbols that are the first ones are taken for a pair.
LEMMA PairTaken ==
  ASSUME NEW s \in Seq(Nat), NEW at \in Nat, Plain(s, at), NEW k \in DOMAIN s,
         k \in Symbols(s), \A j \in Symbols(s) : k <= j, k + 1 \in Symbols(s)
  PROVE  /\ SubSeq(s, k + 2, Len(s)) \in Seq(Nat)
         /\ Len(SubSeq(s, k + 2, Len(s))) = Len(s) - k - 1
         /\ Plain(SubSeq(s, k + 2, Len(s)), at + k + 1)
         /\ Single(SubSeq(s, k + 2, Len(s))) = Single(s)
         /\ s[k + 1] = at + k
  <1> DEFINE d == k + 1
             t == SubSeq(s, d + 1, Len(s))
             S == {m \in Symbols(s) : d < m}
  <1>1. /\ DOMAIN s = 1..Len(s) /\ Len(s) \in Nat /\ Symbols(s) \subseteq 1..Len(s)
        /\ IsFiniteSet(Symbols(s)) /\ Cardinality(Symbols(s)) \in Nat
    BY SymbolsIn
  <1>2. /\ k \in Nat /\ k >= 1 /\ d \in Nat /\ d <= Len(s) /\ d \in DOMAIN s
        /\ d + 1 = k + 2 /\ Len(s) - d = Len(s) - k - 1 /\ k < d /\ d = k + 1
        /\ ~(d < k) /\ ~(d < d) /\ d # k
        /\ \A m \in Nat : m + d = m + k + 1 /\ m + d - 1 = m + k
    BY <1>1, Second, ZenonT(60)
  <1>3. t = SubSeq(s, k + 2, Len(s))
    BY <1>2
  <1>4. /\ t \in Seq(Nat) /\ Len(t) = Len(s) - d
        /\ \A j \in 1..(Len(s) - d) : t[j] = s[d + j]
        /\ \A j \in Nat : j \in Symbols(t) <=> j >= 1 /\ d + j \in Symbols(s)
        /\ Placed(t, at + d) /\ Together(t) /\ Cardinality(Symbols(t)) = Cardinality(S)
    BY <1>2, Tailing, PlacedTail, TogetherTail, CountTail, ZenonT(60) DEF Plain
  <1> HIDE DEF t, d
  <1>5. /\ DOMAIN t = 1..Len(t) /\ Symbols(t) \subseteq 1..Len(t)
        /\ Cardinality(Symbols(t)) \in Nat /\ Len(t) \in Nat
    BY <1>4, SymbolsIn
  <1>6. Cardinality(Symbols(s)) = Cardinality(Symbols(t)) + 2
    <2>1. \A m \in Symbols(s) : m = k \/ m = d \/ d < m
      <3>1. \A m \in Symbols(s) : m \in Nat /\ k <= m
        BY <1>1
      <3> QED
        BY <1>2, <3>1, Thirds
    <2>2. Symbols(s) = (S \cup {k}) \cup {d}
      BY <1>2, <2>1
    <2>3. k \notin S /\ d \notin S \cup {k}
      <3>1. ~(d < k) /\ ~(d < d) /\ d # k
        BY <1>2
      <3> QED
        BY ONLY <3>1
    <2>4. IsFiniteSet(S) /\ Cardinality(S) \in Nat
      BY <1>1, FS_Subset, FS_CardinalityType
    <2> HIDE DEF S
    <2>5. IsFiniteSet(S \cup {k}) /\ Cardinality(S \cup {k}) = Cardinality(S) + 1
      BY <2>3, <2>4, FS_AddElement
    <2>6. Cardinality((S \cup {k}) \cup {d}) = Cardinality(S \cup {k}) + 1
      BY <2>3, <2>5, FS_AddElement
    <2> QED
      BY <1>4, <2>2, <2>4, <2>5, <2>6
  <1>7. /\ Cardinality(Symbols(s)) % 2 = 1 <=> Cardinality(Symbols(t)) % 2 = 1
        /\ Cardinality(Symbols(s)) % 2 = 0 <=> Cardinality(Symbols(t)) % 2 = 0
    BY <1>1, <1>5, <1>6, EvenBelow
  <1>8. Followed(t)
    <2> SUFFICES ASSUME Len(t) \in Symbols(t) PROVE Cardinality(Symbols(t)) % 2 = 0
      BY DEF Followed
    <2>1. d + Len(t) \in Symbols(s) /\ d + Len(t) = Len(s)
      <3>1. d + Len(t) = Len(s)
        <4>1. d \in Nat /\ Len(s) \in Nat /\ Len(t) = Len(s) - d
          BY <1>1, <1>2, <1>4
        <4> QED
          BY ONLY <4>1
      <3>2. Len(t) \in Nat /\ Len(t) >= 1
        BY <1>5
      <3> QED
        BY <1>4, <3>1, <3>2
    <2> QED
      BY <1>7, <2>1 DEF Followed, Plain
  <1>9. ASSUME NEW m, NEW j \in Nat, j >= 1, m = d + j
        PROVE  /\ m \in Symbols(s) <=> j \in Symbols(t)
               /\ m \in Symbols(s) => s[m] = t[j]
               /\ (m \in Symbols(s) /\ \A n \in Symbols(s) : n <= m)
                    <=> (j \in Symbols(t) /\ \A n \in Symbols(t) : n <= j)
    <2>1. m \in Symbols(s) <=> j \in Symbols(t)
      BY <1>4, <1>9
    <2>2. m \in Symbols(s) => s[m] = t[j]
      BY <1>4, <1>5, <1>9, <2>1
    <2>3. ASSUME \A n \in Symbols(s) : n <= m, NEW n \in Symbols(t) PROVE n <= j
      <3>1. n \in Nat /\ d + n \in Symbols(s)
        BY <1>4, <1>5
      <3>2. d + n <= d + j
        BY <1>9, <2>3, <3>1
      <3> QED
        BY <1>2, <1>9, <3>1, <3>2, Shifted
    <2>4. ASSUME \A n \in Symbols(t) : n <= j, NEW n \in Symbols(s) PROVE n <= m
      <3>1. n \in Nat
        BY <1>1
      <3>2. CASE n <= d
        BY <1>2, <1>9, <3>1, <3>2, Shifted
      <3>3. CASE ~(n <= d)
        <4>1. d < n
          BY <1>2, <3>1, <3>3
        <4>2. PICK i \in Nat : i >= 1 /\ n = d + i
          BY <1>2, <3>1, <4>1, Shifted, ZenonT(60)
        <4>3. i <= j
          BY <1>4, <2>4, <4>2
        <4> QED
          BY <1>2, <1>9, <4>2, <4>3, Shifted
      <3> QED
        BY <3>2, <3>3
    <2> QED
      BY <2>1, <2>2, <2>3, <2>4
  <1>10. Single(t) = Single(s)
    <2>1. ASSUME NEW v \in Single(t) PROVE v \in Single(s)
      <3>1. PICK j \in Symbols(t) : /\ Cardinality(Symbols(t)) % 2 = 1
                                    /\ \A n \in Symbols(t) : n <= j
                                    /\ v = t[j]
        BY <2>1 DEF Single
      <3>2. j \in Nat /\ j >= 1
        BY <1>5
      <3>3. d + j \in Symbols(s) /\ s[d + j] = t[j] /\ \A n \in Symbols(s) : n <= d + j
        BY <1>9, <3>1, <3>2
      <3> QED
        BY <1>7, <3>1, <3>3 DEF Single
    <2>2. ASSUME NEW v \in Single(s) PROVE v \in Single(t)
      <3>1. PICK m \in Symbols(s) : /\ Cardinality(Symbols(s)) % 2 = 1
                                    /\ \A n \in Symbols(s) : n <= m
                                    /\ v = s[m]
        BY <2>2 DEF Single
      <3>2. Symbols(t) # {}
        <4>1. Cardinality(Symbols(t)) # 0
          BY <1>7, <3>1
        <4> QED
          BY <4>1, FS_EmptySet
      <3>3. PICK j \in Symbols(t) : TRUE
        BY <3>2
      <3>4. j \in Nat /\ j >= 1 /\ d + j \in Symbols(s)
        BY <1>4, <1>5
      <3>5. m \in Nat /\ d + j <= m
        BY <1>1, <3>1, <3>4
      <3>6. d < m
        BY <1>2, <3>4, <3>5, SMTT(60)
      <3>7. PICK i \in Nat : i >= 1 /\ m = d + i
        BY <1>2, <3>5, <3>6, Shifted
      <3>8. /\ i \in Symbols(t) /\ s[m] = t[i]
            /\ \A n \in Symbols(t) : n <= i
        BY <1>9, <3>1, <3>7
      <3> QED
        BY <1>7, <3>1, <3>8 DEF Single
    <2> QED
      BY <2>1, <2>2
  <1>11. s[k + 1] = at + k
    <2>1. s[d] = at + d - 1
      BY <1>2 DEF Plain, Placed
    <2>2. d = k + 1
      BY DEF d
    <2> QED
      BY <1>2, <2>1, <2>2
  <1>12. at + d = at + k + 1
    BY <1>2
  <1> QED
    BY <1>2, <1>3, <1>4, <1>8, <1>10, <1>11, <1>12 DEF Plain

\* A first symbol without a second one next to it is the only one.
LEMMA OneTaken ==
  ASSUME NEW s \in Seq(Nat), NEW at \in Nat, Plain(s, at), NEW k \in DOMAIN s,
         k \in Symbols(s), \A j \in Symbols(s) : k <= j, k + 1 \notin Symbols(s)
  PROVE  /\ Single(s) = {s[k]} /\ k # Len(s)
         /\ \A m \in (k + 1)..Len(s) : /\ SubSeq(s, m, Len(s)) \in Seq(Nat)
                                       /\ Symbols(SubSeq(s, m, Len(s))) = {}
                                       /\ s[m] = at + m - 1
         /\ s[k] = at + k - 1
  <1>1. /\ DOMAIN s = 1..Len(s) /\ Len(s) \in Nat /\ Symbols(s) \subseteq 1..Len(s)
    BY SymbolsIn
  <1>2. ASSUME NEW j \in Symbols(s), j # k PROVE FALSE
    <2>1. k \in Nat /\ j \in Nat /\ k <= j /\ j <= Len(s) /\ k >= 1
      BY <1>1
    <2>2. k + 1 # j
      BY <1>2
    <2>3. k < k + 1 /\ k + 1 < j /\ k + 1 \in DOMAIN s
      BY <1>1, <1>2, <2>1, <2>2
    <2> QED
      BY <2>3 DEF Plain, Together
  <1>3. Symbols(s) = {k}
    BY <1>2
  <1>4. Cardinality(Symbols(s)) = 1
    BY <1>3, FS_Singleton
  <1>5. k \in Nat /\ k >= 1 /\ k <= k
    BY <1>1
  <1>6. Single(s) = {s[k]}
    <2>1. Cardinality(Symbols(s)) % 2 = 1
      BY <1>4
    <2> QED
      BY <1>3, <1>5, <2>1 DEF Single
  <1>7. k # Len(s)
    <2> SUFFICES ASSUME k = Len(s) PROVE FALSE
      OBVIOUS
    <2>1. Cardinality(Symbols(s)) % 2 = 0
      BY DEF Plain, Followed
    <2> QED
      BY <1>4, <2>1
  <1>8. ASSUME NEW m \in (k + 1)..Len(s)
        PROVE  /\ SubSeq(s, m, Len(s)) \in Seq(Nat)
               /\ Symbols(SubSeq(s, m, Len(s))) = {}
               /\ s[m] = at + m - 1
    <2> DEFINE d == m - 1
    <2>1. d \in Nat /\ d <= Len(s) /\ d + 1 = m /\ k <= d /\ m \in DOMAIN s
      BY <1>1, <1>5
    <2>2. /\ SubSeq(s, d + 1, Len(s)) \in Seq(Nat)
          /\ \A j \in Nat : j \in Symbols(SubSeq(s, d + 1, Len(s))) <=> j >= 1 /\ d + j \in Symbols(s)
      BY <2>1, Tailing
    <2>3. \A j \in Nat : j >= 1 => d + j # k
      BY <1>5, <2>1
    <2> HIDE DEF d
    <2>4. Symbols(SubSeq(s, m, Len(s))) \subseteq Nat
      <3>1. SubSeq(s, m, Len(s)) \in Seq(Nat)
        BY <2>1, <2>2
      <3>2. /\ Symbols(SubSeq(s, m, Len(s))) \subseteq 1..Len(SubSeq(s, m, Len(s)))
            /\ Len(SubSeq(s, m, Len(s))) \in Nat
        BY <3>1, SymbolsIn
      <3> QED
        BY <3>2
    <2> QED
      BY <1>3, <2>1, <2>2, <2>3, <2>4 DEF Plain, Placed
  <1> QED
    BY <1>6, <1>7, <1>8 DEF Plain, Placed
-----------------------------------------------------------------------------
(* The pieces that a text is cut into.                                     *)

LEMMA TiledConcat ==
  ASSUME NEW s \in Seq(Pieces), NEW t \in Seq(Pieces), NEW a \in Int, NEW b \in Int, NEW c \in Int,
         Tiled(s, a, b), Tiled(t, b, c)
  PROVE  Tiled(s \o t, a, c)
  <1> DEFINE u == s \o t
  <1>1. CASE s = <<>>
    <2>1. u = t /\ a = b
      BY <1>1, ConcatEmptySeq DEF Tiled
    <2> QED
      BY <2>1
  <1>2. CASE t = <<>>
    <2>1. u = s /\ b = c
      BY <1>2, ConcatEmptySeq DEF Tiled
    <2> QED
      BY <2>1
  <1>3. CASE s # <<>> /\ t # <<>>
    <2> DEFINE m == Len(s)
               n == Len(t)
    <2>1. /\ u \in Seq(Pieces) /\ Len(u) = m + n
          /\ \A i \in 1..(m + n) : u[i] = IF i <= m THEN s[i] ELSE t[i - m]
          /\ m \in Nat /\ n \in Nat /\ m > 0 /\ n > 0
      BY <1>3, ConcatProperties, EmptySeq
    <2>2. /\ s[1].from = a + 1 /\ s[m].to = b /\ t[1].from = b + 1 /\ t[n].to = c
          /\ \A k \in 2..m : s[k].from = s[k - 1].to + 1
          /\ \A k \in 2..n : t[k].from = t[k - 1].to + 1
      BY <1>3 DEF Tiled
    <2> HIDE DEF u, m, n
    <2>3. /\ 1 \in 1..(m + n) /\ 1 <= m /\ m + n \in 1..(m + n) /\ ~(m + n <= m) /\ m + n - m = n
          /\ m + n # 0
      BY <2>1
    <2>4. u[1] = s[1] /\ u[m + n] = t[n]
      BY <2>1, <2>3
    <2>5. ASSUME NEW k \in 2..(m + n) PROVE u[k].from = u[k - 1].to + 1
      <3>1. k \in 1..(m + n) /\ k - 1 \in 1..(m + n) /\ k \in Nat
        BY <2>1
      <3>2. CASE k <= m
        <4>1. k \in 2..m /\ k - 1 <= m
          BY <2>1, <3>1, <3>2
        <4> QED
          BY <2>1, <2>2, <3>1, <3>2, <4>1
      <3>3. CASE k = m + 1
        <4>1. ~(k <= m) /\ k - m = 1 /\ k - 1 = m /\ k - 1 <= m
          BY <2>1, <3>3
        <4> QED
          BY <2>1, <2>2, <3>1, <4>1
      <3>4. CASE k > m + 1
        <4>1. ~(k <= m) /\ ~(k - 1 <= m) /\ k - m \in 2..n /\ k - 1 - m = k - m - 1
          BY <2>1, <3>1, <3>4
        <4>2. u[k] = t[k - m] /\ u[k - 1] = t[k - m - 1]
          BY <2>1, <3>1, <4>1
        <4> QED
          BY <2>2, <4>1, <4>2
      <3> QED
        BY <2>1, <3>1, <3>2, <3>3, <3>4
    <2>6. u # <<>>
      BY <2>1, <2>3, EmptySeq
    <2> QED
      BY <2>1, <2>2, <2>4, <2>5, <2>6 DEF Tiled, u
  <1> QED
    BY <1>1, <1>2, <1>3

LEMMA BegunConcat ==
  ASSUME NEW s \in Seq(Pieces), NEW t \in Seq(Pieces)
  PROVE  Begun(s \o t) = Begun(s) \cup Begun(t)
  <1> DEFINE u == s \o t
             m == Len(s)
             n == Len(t)
  <1>1. /\ u \in Seq(Pieces) /\ Len(u) = m + n
        /\ \A i \in 1..(m + n) : u[i] = IF i <= m THEN s[i] ELSE t[i - m]
        /\ m \in Nat /\ n \in Nat /\ DOMAIN u = 1..(m + n) /\ DOMAIN s = 1..m /\ DOMAIN t = 1..n
    BY ConcatProperties, LenProperties
  <1> HIDE DEF u, m, n
  <1>2. ASSUME NEW k \in DOMAIN u
        PROVE  (\E i \in DOMAIN s : u[k] = s[i]) \/ (\E i \in DOMAIN t : u[k] = t[i])
    <2>1. CASE k <= m
      <3>1. k \in 1..m
        BY <1>1, <2>1
      <3> QED
        BY <1>1, <2>1, <3>1
    <2>2. CASE ~(k <= m)
      <3>1. k - m \in 1..n
        BY <1>1, <2>2
      <3> QED
        BY <1>1, <2>2, <3>1
    <2> QED
      BY <2>1, <2>2
  <1>3. ASSUME NEW i \in DOMAIN s PROVE \E k \in DOMAIN u : u[k] = s[i]
    <2>1. i \in 1..(m + n) /\ i <= m
      BY <1>1
    <2> QED
      BY <1>1, <2>1
  <1>4. ASSUME NEW i \in DOMAIN t PROVE \E k \in DOMAIN u : u[k] = t[i]
    <2>1. i + m \in 1..(m + n) /\ ~(i + m <= m) /\ i + m - m = i
      BY <1>1
    <2> QED
      BY <1>1, <2>1
  <1>5. ASSUME NEW v \in Begun(u) PROVE v \in Begun(s) \cup Begun(t)
    <2>1. PICK k \in DOMAIN u : u[k].kind = "expression" /\ v = u[k].from
      BY <1>5 DEF Begun
    <2> QED
      BY <1>2, <2>1 DEF Begun
  <1>6. ASSUME NEW v \in Begun(s) \cup Begun(t) PROVE v \in Begun(u)
    <2>1. CASE v \in Begun(s)
      <3>1. PICK i \in DOMAIN s : s[i].kind = "expression" /\ v = s[i].from
        BY <2>1 DEF Begun
      <3> QED
        BY <1>3, <3>1 DEF Begun
    <2>2. CASE v \in Begun(t)
      <3>1. PICK i \in DOMAIN t : t[i].kind = "expression" /\ v = t[i].from
        BY <2>2 DEF Begun
      <3> QED
        BY <1>4, <3>1 DEF Begun
    <2> QED
      BY <1>6, <2>1, <2>2
  <1> QED
    BY <1>5, <1>6 DEF u

\* Pieces that tile what follows what has been read are emitted.
LEMMA Emitted ==
  ASSUME IInv, phase = "emit", NEW pieces \in Seq(Pieces), Emit(pieces),
         NEW n \in Int, Tiled(out, 0, read), Tiled(pieces, read, n),
         \A k \in DOMAIN pieces : pieces[k].from <= pieces[k].to + 1 /\ pieces[k].to <= Len(tag)
  PROVE  /\ phase' = "emit" /\ Tiled(out', 0, n) /\ Begun(out') = Begun(out) \cup Begun(pieces)
  <1>1. out' = out \o pieces /\ phase' = phase
    BY DEF Emit
  <1>2. out \in Seq(Pieces) /\ read \in Int
    BY DEF IInv, TypeOK
  <1> QED
    BY <1>1, <1>2, TiledConcat, BegunConcat

LEMMA OnePiece ==
  ASSUME NEW kind \in {"literal", "expression", "escape"}, NEW a \in Int, NEW b \in Int
  PROVE  /\ <<Piece(kind, a, b)>> \in Seq(Pieces) /\ Tiled(<<Piece(kind, a, b)>>, a, b)
         /\ kind # "expression" => Begun(<<Piece(kind, a, b)>>) = {}
         /\ kind = "expression" => Begun(<<Piece(kind, a, b)>>) = {a + 1}
         /\ \A k \in DOMAIN <<Piece(kind, a, b)>> : <<Piece(kind, a, b)>>[k].from = a + 1
                                                    /\ <<Piece(kind, a, b)>>[k].to = b
  <1>1. /\ Piece(kind, a, b) \in Pieces /\ Piece(kind, a, b).from = a + 1
        /\ Piece(kind, a, b).to = b /\ Piece(kind, a, b).kind = kind
    BY PieceType DEF Piece
  <1> DEFINE x == Piece(kind, a, b)
  <1> HIDE DEF x
  <1>2. /\ x \in Pieces /\ x.from = a + 1 /\ x.to = b /\ x.kind = kind
    BY <1>1 DEF x
  <1>3. /\ <<x>> \in Seq(Pieces) /\ Len(<<x>>) = 1 /\ DOMAIN <<x>> = {1} /\ <<x>>[1] = x
        /\ <<x>> # <<>>
    BY <1>2
  <1>4. Tiled(<<x>>, a, b)
    BY <1>2, <1>3 DEF Tiled
  <1>5. Begun(<<x>>) = IF kind = "expression" THEN {a + 1} ELSE {}
    BY <1>2, <1>3 DEF Begun
  <1> QED
    BY <1>2, <1>3, <1>4, <1>5 DEF x

-----------------------------------------------------------------------------
(* Where the attributes are in the tag.                                    *)

LEMMA PlacedEnds ==
  ASSUME NEW s \in Seq(Nat), NEW at \in Nat, Placed(s, at), s # <<>>
  PROVE  /\ Len(s) \in Nat /\ Len(s) >= 1 /\ 1 \in DOMAIN s /\ Len(s) \in DOMAIN s
         /\ s[1] = at /\ s[Len(s)] = at + Len(s) - 1
  <1>1. /\ Len(s) \in Nat /\ Len(s) >= 1 /\ 1 \in DOMAIN s /\ Len(s) \in DOMAIN s
    BY LenProperties, EmptySeq
  <1>2. s[1] = at + 1 - 1 /\ s[Len(s)] = at + Len(s) - 1
    BY <1>1 DEF Placed
  <1> QED
    BY <1>1, <1>2

LEMMA UntilEnd ==
  ASSUME NEW s \in Seq(Nat), NEW at \in Nat, Placed(s, at), s # <<>>, NEW n \in Int, Until(s, n)
  PROVE  at - 1 + Len(s) <= n
  <1>1. s[Len(s)] <= n /\ s[Len(s)] = at + Len(s) - 1 /\ Len(s) \in Nat
    BY PlacedEnds DEF Until
  <1> QED
    BY <1>1

\* With the lexer through, and texts without references.
Laid == /\ IInv /\ PlaceInv /\ SpreadInv /\ AllPlain /\ phase # "lex"

LEMMA Layout ==
  ASSUME Laid, NEW i \in DOMAIN attrs
  PROVE  /\ attrs[i].nameAt >= 1 /\ attrs[i].name # <<>> /\ Len(attrs[i].name) >= 1
         /\ attrs[i].nameAt - 1 + Len(attrs[i].name) <= Len(tag)
         /\ attrs[i].value = <<>> => attrs[i].valueAt = 0
         /\ attrs[i].value # <<>> =>
              /\ Len(attrs[i].value) >= 1
              /\ attrs[i].nameAt + Len(attrs[i].name) < attrs[i].valueAt
              /\ attrs[i].valueAt - 1 + Len(attrs[i].value) <= Len(tag)
         /\ \A h \in 1..(i - 1) :
              /\ attrs[h].nameAt - 1 + Len(attrs[h].name) < attrs[i].nameAt
              /\ attrs[h].value # <<>> =>
                   attrs[h].valueAt - 1 + Len(attrs[h].value) < attrs[i].nameAt
  <1>1. /\ Len(tag) \in Nat /\ i \in 1..Len(attrs) /\ Len(attrs) \in Nat
        /\ DOMAIN attrs = 1..Len(attrs)
    BY TagType, AttrSeqs DEF Laid
  <1>2. ASSUME NEW h \in DOMAIN attrs
        PROVE  /\ attrs[h].name \in Seq(Nat) /\ attrs[h].value \in Seq(Nat)
               /\ attrs[h].nameAt \in Nat /\ attrs[h].valueAt \in Nat
               /\ attrs[h].name # <<>> /\ attrs[h].nameAt # 0
               /\ Placed(attrs[h].name, attrs[h].nameAt)
               /\ Placed(attrs[h].value, attrs[h].valueAt)
               /\ Apart(attrs[h]) /\ Within(attrs[h], Len(tag))
    <2>1. Named(h) /\ Apart(attrs[h]) /\ Within(attrs[h], Len(tag))
      BY DEF Laid, SpreadInv
    <2>2. attrs[h].name # <<>>
      BY <2>1 DEF Named, Laid
    <2>3. attrs[h].nameAt # 0
      BY <2>2 DEF Laid, PlaceInv
    <2>4. /\ Placed(attrs[h].name, attrs[h].nameAt)
          /\ Placed(attrs[h].value, attrs[h].valueAt)
      BY DEF Laid, AllPlain, Plain
    <2> QED
      BY <2>1, <2>2, <2>3, <2>4, AttrSeqs DEF Laid
  <1>3. /\ attrs[i].nameAt >= 1 /\ attrs[i].name # <<>> /\ Len(attrs[i].name) >= 1
        /\ attrs[i].name[1] = attrs[i].nameAt /\ 1 \in DOMAIN attrs[i].name
        /\ attrs[i].name[Len(attrs[i].name)] = attrs[i].nameAt + Len(attrs[i].name) - 1
        /\ Len(attrs[i].name) \in DOMAIN attrs[i].name /\ Len(attrs[i].name) \in Nat
    BY <1>2, PlacedEnds
  <1>4. attrs[i].nameAt - 1 + Len(attrs[i].name) <= Len(tag)
    BY <1>1, <1>2, UntilEnd DEF Within
  <1>5. attrs[i].value = <<>> => attrs[i].valueAt = 0
    BY <1>2 DEF Apart
  <1>6. ASSUME attrs[i].value # <<>>
        PROVE  /\ Len(attrs[i].value) >= 1
               /\ attrs[i].nameAt + Len(attrs[i].name) < attrs[i].valueAt
               /\ attrs[i].valueAt - 1 + Len(attrs[i].value) <= Len(tag)
    <2>1. /\ Len(attrs[i].value) >= 1 /\ 1 \in DOMAIN attrs[i].value
          /\ attrs[i].value[1] = attrs[i].valueAt /\ attrs[i].valueAt # 0
      BY <1>2, <1>6, PlacedEnds DEF Apart
    <2>2. attrs[i].name[Len(attrs[i].name)] + 1 < attrs[i].value[1]
      BY <1>2, <1>3, <2>1 DEF Apart
    <2>3. attrs[i].nameAt + Len(attrs[i].name) - 1 + 1 < attrs[i].valueAt
      BY <1>3, <2>1, <2>2
    <2>4. attrs[i].nameAt + Len(attrs[i].name) < attrs[i].valueAt
      BY <1>2, <1>3, <2>3
    <2>5. attrs[i].valueAt - 1 + Len(attrs[i].value) <= Len(tag)
      BY <1>1, <1>2, <1>6, UntilEnd DEF Within
    <2> QED
      BY <2>1, <2>4, <2>5
  <1>7. ASSUME NEW h \in 1..(i - 1)
        PROVE  /\ attrs[h].nameAt - 1 + Len(attrs[h].name) < attrs[i].nameAt
               /\ attrs[h].value # <<>> =>
                    attrs[h].valueAt - 1 + Len(attrs[h].value) < attrs[i].nameAt
    <2>1. h \in DOMAIN attrs
      BY <1>1
    <2>2. Before(attrs[h], attrs[i])
      BY DEF Laid, SpreadInv
    <2>3. Within(attrs[h], attrs[i].nameAt - 1)
      BY <1>3, <2>2 DEF Before
    <2>4. attrs[i].nameAt - 1 \in Int /\ \A m \in Int : m <= attrs[i].nameAt - 1 => m < attrs[i].nameAt
      BY <1>2
    <2>5. /\ attrs[h].nameAt - 1 + Len(attrs[h].name) <= attrs[i].nameAt - 1
          /\ attrs[h].value # <<>> =>
               attrs[h].valueAt - 1 + Len(attrs[h].value) <= attrs[i].nameAt - 1
      BY <1>2, <2>1, <2>3, <2>4, UntilEnd DEF Within
    <2>6. Len(attrs[h].name) \in Nat /\ Len(attrs[h].value) \in Nat
      BY <1>2, <2>1, LenProperties
    <2>7. /\ attrs[h].nameAt - 1 + Len(attrs[h].name) \in Int
          /\ attrs[h].valueAt - 1 + Len(attrs[h].value) \in Int
      BY <1>2, <2>1, <2>6, SMTT(60)
    <2> QED
      BY <2>4, <2>5, <2>7
  <1> QED
    BY <1>3, <1>4, <1>5, <1>6, <1>7

\* The attribute that the parser is at.
LEMMA Current ==
  ASSUME Laid, turn < Len(attrs)
  PROVE  /\ turn + 1 \in DOMAIN attrs /\ Attr = attrs[turn + 1]
         /\ turn \in Nat /\ Len(attrs) \in Nat /\ Len(tag) \in Nat
         /\ Attr.name \in Seq(Nat) /\ Attr.value \in Seq(Nat)
         /\ Attr.nameAt \in Nat /\ Attr.valueAt \in Nat
         /\ Len(Attr.name) \in Nat /\ Len(Attr.value) \in Nat
         /\ Attr.nameAt >= 1 /\ Len(Attr.name) >= 1 /\ Attr.nameAt - 1 + Len(Attr.name) <= Len(tag)
         /\ Attr.value = <<>> => Attr.valueAt = 0
         /\ Attr.value # <<>> => /\ Len(Attr.value) >= 1
                                 /\ Attr.nameAt + Len(Attr.name) < Attr.valueAt
                                 /\ Attr.valueAt - 1 + Len(Attr.value) <= Len(tag)
         /\ Plain(Attr.name, Attr.nameAt) /\ Plain(Attr.value, Attr.valueAt)
         /\ turn + 1 < Len(attrs) =>
              /\ Attr.nameAt - 1 + Len(Attr.name) < attrs[turn + 2].nameAt
              /\ Attr.value # <<>> => Attr.valueAt - 1 + Len(Attr.value) < attrs[turn + 2].nameAt
              /\ attrs[turn + 2].nameAt \in Nat
  <1>1. turn \in Nat /\ Len(attrs) \in Nat /\ Len(tag) \in Nat /\ DOMAIN attrs = 1..Len(attrs)
    BY TagType, AttrSeqs, AttrType DEF Laid
  <1>2. turn + 1 \in DOMAIN attrs /\ Attr = attrs[turn + 1]
    BY <1>1 DEF Attr
  <1>3. /\ Attr.name \in Seq(Nat) /\ Attr.value \in Seq(Nat)
        /\ Attr.nameAt \in Nat /\ Attr.valueAt \in Nat
        /\ Len(Attr.name) \in Nat /\ Len(Attr.value) \in Nat
    BY AttrType, LenProperties DEF Laid
  <1>4. turn + 1 < Len(attrs) =>
          turn + 2 \in DOMAIN attrs /\ turn + 1 \in 1..((turn + 2) - 1) /\ attrs[turn + 2].nameAt \in Nat
    <2>1. turn + 1 < Len(attrs) => turn + 2 \in DOMAIN attrs /\ turn + 1 \in 1..((turn + 2) - 1)
      BY <1>1
    <2> QED
      BY <2>1, AttrSeqs DEF Laid
  <1>5. turn + 1 < Len(attrs) =>
              /\ Attr.nameAt - 1 + Len(Attr.name) < attrs[turn + 2].nameAt
              /\ Attr.value # <<>> => Attr.valueAt - 1 + Len(Attr.value) < attrs[turn + 2].nameAt
    BY <1>2, <1>4, Layout
  <1>6. Plain(Attr.name, Attr.nameAt) /\ Plain(Attr.value, Attr.valueAt)
    BY <1>2 DEF Laid, AllPlain
  <1> QED
    BY <1>1, <1>2, <1>3, <1>4, <1>5, <1>6, Layout

-----------------------------------------------------------------------------
(* The expressions that are due.                                           *)

LEMMA SingleSame ==
  ASSUME tag' = tag
  PROVE  \A s : Single(s)' = Single(s) /\ Symbols(s)' = Symbols(s)
  BY DEF Single, Symbols, At

LEMMA AttrSingles ==
  ASSUME tag' = tag, attrs' = attrs
  PROVE  \A i : /\ Single(attrs[i].name)' = Single(attrs[i].name)
                /\ Single(attrs[i].value)' = Single(attrs[i].value)
  BY DEF Single, Symbols, At

LEMMA SinglesMore ==
  ASSUME NEW n \in Nat
  PROVE  Singles(n + 1) = Singles(n) \cup Single(attrs[n + 1].name) \cup Single(attrs[n + 1].value)
  <1>1. 1..(n + 1) = 1..n \cup {n + 1}
    OBVIOUS
  <1> QED
    BY <1>1 DEF Singles

LEMMA DueNext ==
  ASSUME tag' = tag, attrs' = attrs, turn \in Nat
  PROVE  /\ part = "gap" /\ part' = "name" /\ turn' = turn => Due' = Due \cup Single(Attr.name)
         /\ part = "name" /\ part' = "between" /\ turn' = turn => Due' = Due
         /\ part = "between" /\ part' = "value" /\ turn' = turn => Due' = Due \cup Single(Attr.value)
         /\ part = "between" /\ part' = "gap" /\ turn' = turn + 1 /\ Attr.value = <<>> => Due' = Due
         /\ part = "value" /\ part' = "gap" /\ turn' = turn + 1 => Due' = Due
         /\ part' = part /\ turn' = turn => Due' = Due
  <1>1. Due = Singles(turn) \cup (IF part = "gap" THEN {} ELSE Single(Attr.name))
                            \cup (IF part = "value" THEN Single(Attr.value) ELSE {})
    BY DEF Due
  <1>2. Due' = (Singles(turn) \cup (IF part = "gap" THEN {} ELSE Single(Attr.name))
                            \cup (IF part = "value" THEN Single(Attr.value) ELSE {}))'
    BY DEF Due
  <1>3. \A i : /\ Single(attrs[i].name)' = Single(attrs[i].name)
               /\ Single(attrs[i].value)' = Single(attrs[i].value)
    BY AttrSingles
  <1>4. \A n : Singles(n)' = Singles(n)
    BY <1>3 DEF Singles
  <1>5. Singles(turn)' = Singles(turn')
    BY <1>3 DEF Singles
  <1>6. turn' = turn => Single(Attr.name)' = Single(Attr.name) /\ Single(Attr.value)' = Single(Attr.value)
    BY <1>3 DEF Attr
  <1>7. Singles(turn + 1) = Singles(turn) \cup Single(Attr.name) \cup Single(Attr.value)
    BY SinglesMore DEF Attr
  <1>8. Attr.value = <<>> => Single(Attr.value) = {}
    <2>1. DOMAIN <<>> = {}
      OBVIOUS
    <2> QED
      BY <2>1 DEF Single, Symbols, At
  <1> QED
    BY <1>1, <1>2, <1>5, <1>6, <1>7, <1>8

-----------------------------------------------------------------------------
(* The steps of the parser.                                                *)

Parsing == Laid /\ phase = "emit" /\ EmitInv /\ UNCHANGED <<tag, lexer>>

LEMMA EmptyText == Symbols(<<>>) = {} /\ Single(<<>>) = {}
  <1>1. DOMAIN <<>> = {}
    OBVIOUS
  <1> QED
    BY <1>1 DEF Single, Symbols, At

\* What a step has to leave.
LEMMA EmitNext ==
  ASSUME tag' = tag, attrs' = attrs, read' >= 0, Tiled(out', 0, read'),
         Begun(out') \cup Single(rest') = Due',
         part' \in {"gap", "between"} => rest' = <<>>,
         part' = "gap" => read' <= Len(tag) /\ (turn' < Len(attrs) => read' < Attr'.nameAt),
         part' # "gap" => turn' < Len(attrs),
         part' = "between" => read' < Attr'.nameAt + Len(Attr'.name),
         part' = "value" => Attr'.value # <<>>,
         part' \in {"name", "value"} =>
           /\ read' <= End'
           /\ Symbols(Text') = {} => read' = Start' /\ rest' = Text'
           /\ Symbols(rest') # {} => Plain(rest', read' + 1) /\ read' + Len(rest') = End'
  PROVE  EmitInv'
  <1>1. Single(rest)' = Single(rest') /\ Symbols(rest)' = Symbols(rest') /\ Symbols(Text)' = Symbols(Text')
    BY DEF Single, Symbols, At
  <1>2. Tiled(out, 0, read)' /\ Begun(out)' = Begun(out')
    BY DEF Tiled, Begun
  <1>3. Plain(rest, read + 1)' <=> Plain(rest', read' + 1)
    BY <1>1 DEF Plain, Placed, Together, Followed, Symbols, At
  <1> QED
    BY <1>1, <1>2, <1>3 DEF EmitInv

LEMMA TextNext ==
  ASSUME attrs' = attrs, turn' = turn
  PROVE  /\ Attr' = Attr
         /\ part' = "name" => /\ Text' = Attr.name /\ Start' = Attr.nameAt - 1
                              /\ End' = Attr.nameAt - 1 + Len(Attr.name)
         /\ part' = "value" => /\ Text' = Attr.value /\ Start' = Attr.valueAt - 1
                               /\ End' = Attr.valueAt - 1 + Len(Attr.value)
         /\ part' = part => Text' = Text /\ Start' = Start /\ End' = End
  <1>1. Attr' = Attr
    BY DEF Attr
  <1> QED
    BY <1>1 DEF Text, Start, End

LEMMA TextNow ==
  /\ part = "name" => /\ Text = Attr.name /\ Start = Attr.nameAt - 1
                      /\ End = Attr.nameAt - 1 + Len(Attr.name)
  /\ part = "value" => /\ Text = Attr.value /\ Start = Attr.valueAt - 1
                       /\ End = Attr.valueAt - 1 + Len(Attr.value)
  BY DEF Text, Start, End

LEMMA EndsBefore ==
  \A r, e, a, n \in Int : /\ r <= e /\ e < a => r < a
                          /\ r <= e /\ e <= n => r <= n
                          /\ r <= a - 1 + n => r < a + n
                          /\ r < a + n => r <= a - 1 + n
  OBVIOUS

\* An attribute is done.
LEMMA NextKept ==
  ASSUME Parsing, turn < Len(attrs), NextAttr, part \in {"between", "value"},
         part = "between" => Attr.value = <<>>,
         Tiled(out', 0, read'), Begun(out') = Due, read' \in Nat,
         part = "between" => read' <= Attr.nameAt - 1 + Len(Attr.name),
         part = "value" => Attr.value # <<>> /\ read' <= Attr.valueAt - 1 + Len(Attr.value)
  PROVE  EmitInv'
  <1>1. tag' = tag /\ attrs' = attrs /\ part' = "gap" /\ rest' = <<>> /\ turn' = turn + 1
    BY DEF Parsing, lexer, NextAttr
  <1>2. /\ turn \in Nat /\ Len(attrs) \in Nat /\ Len(tag) \in Nat
        /\ Attr.nameAt \in Nat /\ Attr.valueAt \in Nat
        /\ Len(Attr.name) \in Nat /\ Len(Attr.value) \in Nat
        /\ Attr.nameAt - 1 + Len(Attr.name) <= Len(tag)
        /\ Attr.value # <<>> => Attr.valueAt - 1 + Len(Attr.value) <= Len(tag)
        /\ turn + 1 < Len(attrs) =>
              /\ Attr.nameAt - 1 + Len(Attr.name) < attrs[turn + 2].nameAt
              /\ Attr.value # <<>> => Attr.valueAt - 1 + Len(Attr.value) < attrs[turn + 2].nameAt
              /\ attrs[turn + 2].nameAt \in Nat
    BY Current DEF Parsing
  <1>3. Due' = Due
    BY <1>1, <1>2, DueNext
  <1>4. /\ Attr.nameAt - 1 + Len(Attr.name) \in Int /\ Attr.valueAt - 1 + Len(Attr.value) \in Int
    <2>1. \A a, n \in Nat : a - 1 + n \in Int
      OBVIOUS
    <2> QED
      BY <1>2, <2>1
  <1>5. read' <= Len(tag)
    BY <1>2, <1>4, EndsBefore
  <1>6. Attr' = attrs[turn + 2]
    <2>1. turn + 1 + 1 = turn + 2
      BY <1>2
    <2> QED
      BY <1>1, <2>1 DEF Attr
  <1>7. turn' < Len(attrs) => read' < Attr'.nameAt
    BY <1>1, <1>2, <1>4, <1>6, EndsBefore
  <1>8. Begun(out') \cup Single(rest') = Due'
    BY <1>1, <1>3, EmptyText
  <1>9. read' >= 0
    OBVIOUS
  <1> QED
    BY <1>1, <1>5, <1>7, <1>8, <1>9, EmitNext

\* A name or value is done.
LEMMA LeaveKept ==
  ASSUME Parsing, turn < Len(attrs), Leave, part \in {"name", "value"},
         Tiled(out', 0, read'), Begun(out') = Due, read' \in Nat, read' <= End
  PROVE  EmitInv'
  <1>1. CASE part = "name"
    <2>1. tag' = tag /\ attrs' = attrs /\ part' = "between" /\ rest' = <<>> /\ turn' = turn
      BY <1>1 DEF Parsing, lexer, Leave, Begin
    <2>2. turn \in Nat /\ Attr.nameAt \in Nat /\ Len(Attr.name) \in Nat
      BY Current DEF Parsing
    <2>3. Due' = Due /\ Attr' = Attr
      BY <1>1, <2>1, <2>2, DueNext, TextNext
    <2>4. read' < Attr'.nameAt + Len(Attr'.name)
      BY <1>1, <2>2, <2>3, TextNow, EndsBefore
    <2>5. Begun(out') \cup Single(rest') = Due' /\ read' >= 0
      BY <2>1, <2>3, EmptyText
    <2> QED
      BY <2>1, <2>4, <2>5, EmitNext
  <1>2. CASE part = "value"
    <2>1. NextAttr /\ Attr.value # <<>>
      BY <1>2 DEF Parsing, EmitInv, Leave
    <2> QED
      BY <1>2, <2>1, TextNow, NextKept
  <1> QED
    BY <1>1, <1>2

\* A name or value is begun.
LEMMA BeginKept ==
  ASSUME Parsing, turn < Len(attrs),
         \/ part = "gap" /\ Begin("name", Attr.name) /\ read' = Attr.nameAt - 1
         \/ part = "between" /\ Begin("value", Attr.value) /\ read' = Attr.valueAt - 1
            /\ Attr.value # <<>>,
         Tiled(out', 0, read'), Begun(out') = Due
  PROVE  EmitInv'
  <1>1. tag' = tag /\ attrs' = attrs /\ turn' = turn
    BY DEF Parsing, lexer, Begin
  <1>2. /\ turn \in Nat /\ Attr.nameAt \in Nat /\ Attr.valueAt \in Nat
        /\ Len(Attr.name) \in Nat /\ Len(Attr.value) \in Nat
        /\ Attr.nameAt >= 1 /\ Plain(Attr.name, Attr.nameAt) /\ Plain(Attr.value, Attr.valueAt)
        /\ Attr.value # <<>> => Attr.nameAt + Len(Attr.name) < Attr.valueAt
    BY Current DEF Parsing
  <1>3. CASE part = "gap" /\ Begin("name", Attr.name) /\ read' = Attr.nameAt - 1
    <2>1. part' = "name" /\ rest' = Attr.name
      BY <1>3 DEF Begin
    <2>2. /\ Due' = Due \cup Single(Attr.name)
          /\ Text' = Attr.name /\ Start' = Attr.nameAt - 1 /\ End' = Attr.nameAt - 1 + Len(Attr.name)
      BY <1>1, <1>2, <1>3, <2>1, DueNext, TextNext
    <2>3. /\ read' >= 0 /\ read' <= End' /\ read' + 1 = Attr.nameAt
          /\ read' + Len(rest') = End'
      BY <1>2, <1>3, <2>1, <2>2
    <2> QED
      BY <1>1, <1>2, <1>3, <2>1, <2>2, <2>3, EmitNext
  <1>4. CASE /\ part = "between" /\ Begin("value", Attr.value) /\ read' = Attr.valueAt - 1
             /\ Attr.value # <<>>
    <2>1. part' = "value" /\ rest' = Attr.value
      BY <1>4 DEF Begin
    <2>2. /\ Due' = Due \cup Single(Attr.value) /\ Attr' = Attr
          /\ Text' = Attr.value /\ Start' = Attr.valueAt - 1 /\ End' = Attr.valueAt - 1 + Len(Attr.value)
      BY <1>1, <1>2, <1>4, <2>1, DueNext, TextNext
    <2>3. /\ read' >= 0 /\ read' <= End' /\ read' + 1 = Attr.valueAt
          /\ read' + Len(rest') = End'
      BY <1>2, <1>4, <2>1, <2>2, SMTT(60)
    <2> QED
      BY <1>1, <1>2, <1>4, <2>1, <2>2, <2>3, EmitNext
  <1> QED
    BY <1>3, <1>4

\* In the loop over the symbols of a name or value.
LEMMA LoopKept ==
  ASSUME Parsing, turn < Len(attrs), part \in {"name", "value"}, Symbols(Text) # {},
         turn' = turn, part' = part, Tiled(out', 0, read'), read' \in Nat, read' <= End,
         Begun(out') \cup Single(rest') = Due,
         Symbols(rest') # {} => Plain(rest', read' + 1) /\ read' + Len(rest') = End
  PROVE  EmitInv'
  <1>1. tag' = tag /\ attrs' = attrs
    BY DEF Parsing, lexer
  <1>2. turn \in Nat
    BY Current DEF Parsing
  <1>3. Due' = Due /\ Attr' = Attr /\ Text' = Text /\ End' = End
    BY <1>1, <1>2, DueNext, TextNext
  <1>4. part = "value" => Attr.value # <<>>
    BY DEF Parsing, EmitInv
  <1>5. read' >= 0
    OBVIOUS
  <1> QED
    BY <1>1, <1>3, <1>4, <1>5, EmitNext

LEMMA GapArith ==
  \A r, at \in Nat : r < at => r <= at - 1 /\ at - 1 \in Int /\ r + 1 <= (at - 1) + 1
                               /\ (~(at - 1 > r) => at - 1 = r)
  OBVIOUS

LEMMA BetweenArith ==
  \A r, m, n, at, l, t \in Nat :
    r < m + n /\ m + n < at /\ l >= 1 /\ at - 1 + l <= t
      => at > r + 1 /\ at - 1 \in Int /\ r <= at - 1 /\ at - 1 <= t
  OBVIOUS

\* A literal is emitted, which goes up to n.
LEMMA LiteralEmitted ==
  ASSUME Parsing, NEW n \in Int, read <= n, n <= Len(tag), Emit(<<Literal(read, n)>>)
  PROVE  phase' = "emit" /\ Tiled(out', 0, n) /\ Begun(out') = Begun(out)
  <1>1. read \in Int /\ Tiled(out, 0, read) /\ IInv /\ phase = "emit"
    BY DEF Parsing, Laid, EmitInv, IInv, TypeOK
  <1> DEFINE p == <<Literal(read, n)>>
  <1>2. /\ p \in Seq(Pieces) /\ Tiled(p, read, n) /\ Begun(p) = {}
        /\ \A k \in DOMAIN p : p[k].from = read + 1 /\ p[k].to = n
    BY <1>1, OnePiece DEF Literal
  <1> HIDE DEF p
  <1>3. \A k \in DOMAIN p : p[k].from <= p[k].to + 1 /\ p[k].to <= Len(tag)
    <2>1. read + 1 <= n + 1
      BY <1>1
    <2> QED
      BY <1>2, <2>1
  <1>4. Emit(p)
    BY DEF p
  <1> QED
    BY <1>1, <1>2, <1>3, <1>4, Emitted

LEMMA GapKept ==
  ASSUME Laid, phase = "emit", EmitInv, Gap \/ Between
  PROVE  phase' = "emit" /\ EmitInv'
  <1>1. turn < Len(attrs) /\ Parsing
    BY DEF Gap, Between, Emitting, Parsing
  <1>2. /\ Attr.nameAt \in Nat /\ Attr.valueAt \in Nat /\ Len(Attr.name) \in Nat
        /\ Len(Attr.value) \in Nat /\ Len(tag) \in Nat
        /\ Attr.nameAt >= 1 /\ Len(Attr.name) >= 1 /\ Attr.nameAt - 1 + Len(Attr.name) <= Len(tag)
        /\ Attr.value = <<>> => Attr.valueAt = 0
        /\ Attr.value # <<>> => /\ Len(Attr.value) >= 1
                                /\ Attr.nameAt + Len(Attr.name) < Attr.valueAt
                                /\ Attr.valueAt - 1 + Len(Attr.value) <= Len(tag)
    BY <1>1, Current
  <1>3. read \in Nat /\ Tiled(out, 0, read) /\ Begun(out) \cup Single(rest) = Due
    BY DEF EmitInv, Laid, IInv, TypeOK
  <1>4. rest = <<>> => Begun(out) = Due
    BY <1>3, EmptyText
  <1>5. CASE Gap
    <2>1. part = "gap" /\ read < Attr.nameAt /\ Begun(out) = Due /\ Begin("name", Attr.name)
      BY <1>1, <1>4, <1>5 DEF Gap, Emitting, EmitInv
    <2>2. Attr.nameAt - 1 \in Int /\ read <= Attr.nameAt - 1 /\ Attr.nameAt - 1 <= Len(tag)
      BY <1>2, <1>3, <2>1
    <2>3. phase' = "emit" /\ read' = Attr.nameAt - 1 /\ Tiled(out', 0, read') /\ Begun(out') = Due
      <3>1. CASE Attr.nameAt - 1 > read
        <4>1. Emit(<<Literal(read, Attr.nameAt - 1)>>) /\ read' = Attr.nameAt - 1
          BY <1>5, <3>1 DEF Gap
        <4> QED
          BY <1>1, <2>1, <2>2, <4>1, LiteralEmitted
      <3>2. CASE ~(Attr.nameAt - 1 > read)
        <4>1. UNCHANGED <<phase, out, read>>
          BY <1>5, <3>2 DEF Gap
        <4>2. read = Attr.nameAt - 1
          BY <1>2, <1>3, <2>1, <3>2, GapArith
        <4> QED
          BY <1>3, <2>1, <4>1, <4>2
      <3> QED
        BY <3>1, <3>2
    <2> QED
      BY <1>1, <2>1, <2>3, BeginKept
  <1>6. CASE Between
    <2>1. part = "between" /\ read < Attr.nameAt + Len(Attr.name) /\ Begun(out) = Due
      BY <1>1, <1>4, <1>6 DEF Between, Emitting, EmitInv
    <2>2. CASE Attr.value # <<>>
      <3>1. /\ Attr.valueAt > read + 1 /\ Attr.valueAt - 1 \in Int /\ read <= Attr.valueAt - 1
            /\ Attr.valueAt - 1 <= Len(tag)
        BY <1>2, <1>3, <2>1, <2>2, BetweenArith
      <3>2. /\ Emit(<<Literal(read, Attr.valueAt - 1)>>) /\ read' = Attr.valueAt - 1
            /\ Begin("value", Attr.value)
        BY <1>6, <3>1 DEF Between
      <3>3. phase' = "emit" /\ Tiled(out', 0, read') /\ Begun(out') = Due
        BY <1>1, <2>1, <3>1, <3>2, LiteralEmitted
      <3> QED
        BY <1>1, <2>1, <2>2, <3>2, <3>3, BeginKept
    <2>3. CASE Attr.value = <<>>
      <3>1. ~(Attr.valueAt > read + 1)
        BY <1>2, <1>3, <2>3
      <3>2. NextAttr /\ UNCHANGED <<phase, out, read>>
        BY <1>6, <3>1 DEF Between
      <3>3. read <= Attr.nameAt - 1 + Len(Attr.name)
        BY <1>2, <1>3, <2>1, EndsBefore
      <3> QED
        BY <1>1, <1>3, <2>1, <2>3, <3>2, <3>3, NextKept
    <2> QED
      BY <2>2, <2>3
  <1> QED
    BY <1>5, <1>6

LEMMA TextKept ==
  ASSUME Laid, phase = "emit", EmitInv, NEW p \in {"name", "value"}, Verbatim(p) \/ LoopDone(p)
  PROVE  phase' = "emit" /\ EmitInv'
  <1>1. turn < Len(attrs) /\ Parsing /\ part \in {"name", "value"} /\ Leave
    BY DEF Verbatim, LoopDone, Looping, Emitting, Parsing
  <1>2. /\ read \in Nat /\ Tiled(out, 0, read) /\ Begun(out) \cup Single(rest) = Due
        /\ rest \in Seq(Nat) /\ read <= End
        /\ Symbols(Text) = {} => read = Start /\ rest = Text
        /\ Symbols(rest) # {} => read + Len(rest) = End
    BY <1>1 DEF EmitInv, Laid, IInv, TypeOK
  <1>3. End \in Nat /\ End <= Len(tag) /\ Start \in Int /\ Text \in Seq(Nat)
    <2>1. /\ Attr.nameAt \in Nat /\ Attr.valueAt \in Nat /\ Len(Attr.name) \in Nat
          /\ Len(Attr.value) \in Nat /\ Len(tag) \in Nat /\ Attr.nameAt >= 1
          /\ Attr.nameAt - 1 + Len(Attr.name) <= Len(tag)
          /\ Attr.value # <<>> => Attr.valueAt - 1 + Len(Attr.value) <= Len(tag)
      BY <1>1, Current
    <2>2. part = "value" => Attr.value # <<>>
      BY DEF EmitInv
    <2>3. End \in Int /\ Start \in Int /\ Text \in Seq(Nat)
      BY <1>1, AttrType DEF Laid
    <2>4. End <= Len(tag)
      BY <1>1, <2>1, <2>2, TextNow
    <2> QED
      BY <1>2, <2>3, <2>4
  <1>4. CASE Verbatim(p)
    <2>1. Symbols(Text) = {} /\ Emit(<<Literal(Start, End)>>) /\ read' = End
      BY <1>4 DEF Verbatim
    <2>2. read = Start /\ Single(rest) = {}
      BY <1>2, <1>3, <2>1, SymbolsIn
    <2>3. phase' = "emit" /\ Tiled(out', 0, End) /\ Begun(out') = Begun(out)
      <3>1. Emit(<<Literal(read, End)>>)
        BY <2>1, <2>2
      <3> QED
        BY <1>1, <1>2, <1>3, <3>1, LiteralEmitted
    <2>4. Begun(out') = Due
      BY <1>2, <2>2, <2>3
    <2> QED
      BY <1>1, <1>3, <2>1, <2>3, <2>4, LeaveKept
  <1>5. CASE LoopDone(p)
    <2>1. ~Continues /\ UNCHANGED <<phase, read, out>>
      BY <1>5 DEF LoopDone
    <2>2. Symbols(rest) = {}
      <3> SUFFICES ASSUME Symbols(rest) # {} PROVE FALSE
        OBVIOUS
      <3>1. Len(rest) >= 1 /\ Len(rest) \in Nat
        <4>1. Symbols(rest) \subseteq 1..Len(rest) /\ Len(rest) \in Nat
          BY <1>2, SymbolsIn
        <4> QED
          BY <4>1
      <3>2. read < End
        BY <1>2, <1>3, <3>1
      <3> QED
        BY <2>1, <3>2 DEF Continues
    <2>3. Begun(out') = Due
      BY <1>2, <2>1, <2>2, SymbolsIn
    <2> QED
      BY <1>1, <1>2, <2>1, <2>3, LeaveKept
  <1> QED
    BY <1>4, <1>5

\* What is left of a text has a symbol.
LEMMA Looks ==
  ASSUME Laid, phase = "emit", EmitInv, NEW p \in {"name", "value"}, Looping(p), Continues
  PROVE  /\ turn < Len(attrs) /\ Parsing /\ part \in {"name", "value"} /\ Symbols(Text) # {}
         /\ read \in Nat /\ read + 1 \in Nat /\ out \in Seq(Pieces)
         /\ Tiled(out, 0, read) /\ Begun(out) \cup Single(rest) = Due
         /\ rest \in Seq(Nat) /\ Len(rest) \in Nat /\ DOMAIN rest = 1..Len(rest)
         /\ Plain(rest, read + 1) /\ read + Len(rest) = End
         /\ End \in Nat /\ End <= Len(tag) /\ Len(tag) \in Nat
  <1>1. turn < Len(attrs) /\ Parsing /\ part \in {"name", "value"} /\ Symbols(Text) # {}
    BY DEF Looping, Emitting, Parsing
  <1>2. /\ read \in Nat /\ Tiled(out, 0, read) /\ Begun(out) \cup Single(rest) = Due
        /\ rest \in Seq(Nat) /\ read <= End /\ out \in Seq(Pieces)
        /\ Plain(rest, read + 1) /\ read + Len(rest) = End
    BY <1>1 DEF EmitInv, Laid, IInv, TypeOK, Continues
  <1>3. /\ Attr.nameAt \in Nat /\ Attr.valueAt \in Nat /\ Len(Attr.name) \in Nat
        /\ Len(Attr.value) \in Nat /\ Len(tag) \in Nat /\ Attr.nameAt >= 1
        /\ Attr.nameAt - 1 + Len(Attr.name) <= Len(tag)
        /\ Attr.value # <<>> => Attr.valueAt - 1 + Len(Attr.value) <= Len(tag)
    BY <1>1, Current
  <1>4. part = "value" => Attr.value # <<>>
    BY DEF EmitInv
  <1>5. End \in Int /\ End <= Len(tag)
    BY <1>1, <1>3, <1>4, TextNow, AttrType DEF Laid
  <1>6. Len(rest) \in Nat /\ DOMAIN rest = 1..Len(rest)
    BY <1>2, LenProperties
  <1>7. End \in Nat /\ read + 1 \in Nat
    BY <1>2, <1>5
  <1> QED
    BY <1>1, <1>2, <1>3, <1>5, <1>6, <1>7

\* The text before a symbol.
LEMMA LeadTiled ==
  ASSUME read \in Nat, NEW k \in Nat, k >= 1, NEW n \in Nat, read + k - 1 <= n
  PROVE  /\ Lead(k) \in Seq(Pieces) /\ Tiled(Lead(k), read, read + k - 1)
         /\ Begun(Lead(k)) = {} /\ read + k - 1 \in Int
         /\ \A j \in DOMAIN Lead(k) : Lead(k)[j].from <= Lead(k)[j].to + 1 /\ Lead(k)[j].to <= n
  <1>1. read + k - 1 \in Int /\ read \in Int
    OBVIOUS
  <1>2. CASE k > 1
    <2>1. Lead(k) = <<Piece("literal", read, read + k - 1)>>
      BY <1>2 DEF Lead, Literal
    <2>2. read + 1 <= read + k - 1 + 1
      BY <1>2
    <2> DEFINE x == <<Piece("literal", read, read + k - 1)>>
    <2>3. /\ x \in Seq(Pieces) /\ Tiled(x, read, read + k - 1) /\ Begun(x) = {}
          /\ \A j \in DOMAIN x : x[j].from = read + 1 /\ x[j].to = read + k - 1
      BY <1>1, OnePiece
    <2> HIDE DEF x
    <2>4. Lead(k) = x
      BY <2>1 DEF x
    <2> QED
      BY <1>1, <2>2, <2>3, <2>4
  <1>3. CASE ~(k > 1)
    <2>1. Lead(k) = <<>> /\ read = read + k - 1
      BY <1>3 DEF Lead
    <2>2. DOMAIN <<>> = {} /\ <<>> \in Seq(Pieces)
      BY EmptySeq
    <2>3. Begun(<<>>) = {} /\ Tiled(<<>>, read, read + k - 1)
      BY <2>1, <2>2 DEF Begun, Tiled
    <2> QED
      BY <1>1, <2>1, <2>2, <2>3
  <1> QED
    BY <1>2, <1>3

\* Pieces that are each in range are so together.
LEMMA InRangeConcat ==
  ASSUME NEW s \in Seq(Pieces), NEW t \in Seq(Pieces), NEW n \in Int,
         \A j \in DOMAIN s : s[j].from <= s[j].to + 1 /\ s[j].to <= n,
         \A j \in DOMAIN t : t[j].from <= t[j].to + 1 /\ t[j].to <= n
  PROVE  /\ s \o t \in Seq(Pieces)
         /\ \A j \in DOMAIN (s \o t) : (s \o t)[j].from <= (s \o t)[j].to + 1 /\ (s \o t)[j].to <= n
  <1> DEFINE u == s \o t
  <1>1. /\ u \in Seq(Pieces) /\ Len(u) = Len(s) + Len(t)
        /\ \A i \in 1..(Len(s) + Len(t)) : u[i] = IF i <= Len(s) THEN s[i] ELSE t[i - Len(s)]
        /\ Len(s) \in Nat /\ Len(t) \in Nat /\ DOMAIN u = 1..(Len(s) + Len(t))
        /\ DOMAIN s = 1..Len(s) /\ DOMAIN t = 1..Len(t)
    BY ConcatProperties, LenProperties
  <1> HIDE DEF u
  <1>2. ASSUME NEW j \in DOMAIN u PROVE u[j].from <= u[j].to + 1 /\ u[j].to <= n
    <2>1. CASE j <= Len(s)
      <3>1. j \in DOMAIN s /\ u[j] = s[j]
        BY <1>1, <2>1
      <3> QED
        BY <3>1
    <2>2. CASE ~(j <= Len(s))
      <3>1. j - Len(s) \in DOMAIN t /\ u[j] = t[j - Len(s)]
        BY <1>1, <2>2
      <3> QED
        BY <3>1
    <2> QED
      BY <2>1, <2>2
  <1> QED
    BY <1>1, <1>2 DEF u

LEMMA TwoPieces ==
  ASSUME NEW x \in Pieces, NEW y \in Pieces
  PROVE  /\ <<x>> \in Seq(Pieces) /\ <<y>> \in Seq(Pieces)
         /\ <<x, y>> = <<x>> \o <<y>>
  <1>1. /\ <<x>> \in Seq(Pieces) /\ <<y>> \in Seq(Pieces) /\ <<x, y>> \in Seq(Pieces)
        /\ Len(<<x>>) = 1 /\ Len(<<y>>) = 1 /\ Len(<<x, y>>) = 2
        /\ <<x>>[1] = x /\ <<y>>[1] = y /\ <<x, y>>[1] = x /\ <<x, y>>[2] = y
    OBVIOUS
  <1> DEFINE u == <<x>> \o <<y>>
  <1>2. /\ u \in Seq(Pieces) /\ Len(u) = 2
        /\ \A i \in 1..2 : u[i] = IF i <= 1 THEN <<x>>[i] ELSE <<y>>[i - 1]
    BY <1>1, ConcatProperties
  <1> HIDE DEF u
  <1>3. u[1] = x /\ u[2] = y
    BY <1>1, <1>2
  <1>4. \A i \in 1..2 : u[i] = <<x, y>>[i]
    BY <1>1, <1>3
  <1>5. u = <<x, y>>
    BY <1>1, <1>2, <1>4, SeqEqual
  <1> QED
    BY <1>1, <1>5 DEF u

\* Pieces that tile what follows some others follow them.
LEMMA Follows ==
  ASSUME NEW s \in Seq(Pieces), NEW t \in Seq(Pieces),
         NEW l \in Int, NEW m \in Int, NEW n \in Int, NEW z \in Int,
         Tiled(s, l, m), Tiled(t, m, n),
         \A j \in DOMAIN s : s[j].from <= s[j].to + 1 /\ s[j].to <= z,
         \A j \in DOMAIN t : t[j].from <= t[j].to + 1 /\ t[j].to <= z
  PROVE  /\ s \o t \in Seq(Pieces) /\ Tiled(s \o t, l, n)
         /\ Begun(s \o t) = Begun(s) \cup Begun(t)
         /\ \A j \in DOMAIN (s \o t) : (s \o t)[j].from <= (s \o t)[j].to + 1 /\ (s \o t)[j].to <= z
  <1>1. Tiled(s \o t, l, n)
    BY TiledConcat
  <1>2. Begun(s \o t) = Begun(s) \cup Begun(t)
    BY BegunConcat
  <1> QED
    BY <1>1, <1>2, InRangeConcat

LEMMA EscapeKept ==
  ASSUME Laid, phase = "emit", EmitInv, NEW p \in {"name", "value"}, Escape(p)
  PROVE  phase' = "emit" /\ EmitInv'
  <1>1. /\ turn < Len(attrs) /\ Parsing /\ part \in {"name", "value"} /\ Symbols(Text) # {}
        /\ read \in Nat /\ read + 1 \in Nat /\ out \in Seq(Pieces)
        /\ Tiled(out, 0, read) /\ Begun(out) \cup Single(rest) = Due
        /\ rest \in Seq(Nat) /\ Len(rest) \in Nat /\ DOMAIN rest = 1..Len(rest)
        /\ Plain(rest, read + 1) /\ read + Len(rest) = End
        /\ End \in Nat /\ End <= Len(tag) /\ Len(tag) \in Nat
    BY Looks DEF Escape
  <1>2. turn' = turn /\ part' = part
    BY DEF Escape
  <1>3. PICK k \in DOMAIN rest :
          /\ NextSymbol(k) /\ k + 1 \in Symbols(rest)
          /\ Emit(Lead(k) \o <<Literal(read + k - 1, read + k),
                               Piece("escape", rest[k + 1] - 1, rest[k + 1])>>)
          /\ read' = read + k + 1
          /\ rest' = SubSeq(rest, k + 2, Len(rest))
    BY DEF Escape
  <1>4. k \in Symbols(rest) /\ \A j \in Symbols(rest) : k <= j
    BY <1>3 DEF NextSymbol
  <1>5. /\ rest' \in Seq(Nat) /\ Len(rest') = Len(rest) - k - 1
        /\ Plain(rest', read + 1 + k + 1) /\ Single(rest') = Single(rest)
        /\ rest[k + 1] = read + 1 + k
    BY <1>1, <1>3, <1>4, PairTaken
  <1>6. k \in Nat /\ k >= 1 /\ k + 1 <= Len(rest)
    <2>1. k + 1 \in 1..Len(rest) /\ k \in 1..Len(rest)
      BY <1>1, <1>3, SymbolsIn
    <2> QED
      BY <2>1, <1>1
  <1>7. /\ read + k - 1 <= Len(tag) /\ read + k - 1 \in Nat /\ read + k \in Nat /\ read + k + 1 \in Nat
        /\ read + k <= Len(tag) /\ read + k + 1 <= Len(tag) /\ read + k + 1 <= End
        /\ read + 1 + k = read + k + 1 /\ (read + k + 1) - 1 = read + k
        /\ (read + k + 1) + (Len(rest) - k - 1) = End
        /\ read + 1 + k + 1 = (read + k + 1) + 1
    <2>1. /\ read \in Nat /\ k \in Nat /\ Len(rest) \in Nat /\ End \in Nat /\ Len(tag) \in Nat
          /\ k >= 1 /\ k + 1 <= Len(rest) /\ read + Len(rest) = End /\ End <= Len(tag)
      BY <1>1, <1>6
    <2> DEFINE n == Len(rest)
               l == Len(tag)
    <2>2. /\ read \in Nat /\ k \in Nat /\ n \in Nat /\ End \in Nat /\ l \in Nat
          /\ k >= 1 /\ k + 1 <= n /\ read + n = End /\ End <= l
      BY <2>1
    <2> HIDE DEF n, l
    <2>3. /\ read + k - 1 \in Nat /\ read + k \in Nat /\ read + k + 1 \in Nat
          /\ read + 1 + k = read + k + 1 /\ (read + k + 1) - 1 = read + k
          /\ read + 1 + k + 1 = (read + k + 1) + 1
      BY ONLY <2>2
    <2>4. (read + k + 1) + (n - k - 1) = End
      BY ONLY <2>2
    <2>5. read + k + 1 <= End
      BY ONLY <2>2
    <2>6. read + k - 1 <= l /\ read + k <= l /\ read + k + 1 <= l
      BY ONLY <2>2
    <2> QED
      BY ONLY <2>3, <2>4, <2>5, <2>6 DEF n, l
  <1> DEFINE a == <<Piece("literal", read + k - 1, read + k)>>
             b == <<Piece("escape", read + k, read + k + 1)>>
             two == <<Literal(read + k - 1, read + k),
                      Piece("escape", rest[k + 1] - 1, rest[k + 1])>>
  <1>8. a \in Seq(Pieces) /\ b \in Seq(Pieces) /\ two = a \o b
    <2>1. /\ Piece("literal", read + k - 1, read + k) \in Pieces
          /\ Piece("escape", read + k, read + k + 1) \in Pieces
      BY <1>7, PieceType
    <2>2. /\ rest[k + 1] = read + k + 1 /\ rest[k + 1] - 1 = read + k
      BY <1>5, <1>7
    <2>3. two = <<Piece("literal", read + k - 1, read + k), Piece("escape", read + k, read + k + 1)>>
      BY <2>2 DEF Literal
    <2> QED
      BY <2>1, <2>3, TwoPieces
  <1>9. /\ Tiled(a, read + k - 1, read + k) /\ Begun(a) = {}
        /\ \A j \in DOMAIN a : a[j].from = read + k - 1 + 1 /\ a[j].to = read + k
        /\ Tiled(b, read + k, read + k + 1) /\ Begun(b) = {}
        /\ \A j \in DOMAIN b : b[j].from = read + k + 1 /\ b[j].to = read + k + 1
    <2>1. read + k - 1 \in Int /\ read + k \in Int /\ read + k + 1 \in Int
      BY <1>7
    <2>2. /\ Tiled(a, read + k - 1, read + k) /\ Begun(a) = {}
          /\ \A j \in DOMAIN a : a[j].from = read + k - 1 + 1 /\ a[j].to = read + k
      BY <2>1, OnePiece
    <2>3. /\ Tiled(b, read + k, read + k + 1) /\ Begun(b) = {}
          /\ \A j \in DOMAIN b : b[j].from = read + k + 1 /\ b[j].to = read + k + 1
      BY <2>1, OnePiece
    <2> QED
      BY <2>2, <2>3
  <1> HIDE DEF a, b, two
  <1>10. /\ \A j \in DOMAIN a : a[j].from <= a[j].to + 1 /\ a[j].to <= Len(tag)
         /\ \A j \in DOMAIN b : b[j].from <= b[j].to + 1 /\ b[j].to <= Len(tag)
    <2>1. read + k - 1 + 1 <= read + k + 1 /\ read + k + 1 <= read + k + 1 + 1
      <3>1. read \in Nat /\ k \in Nat
        BY <1>1, <1>6
      <3> QED
        BY ONLY <3>1
    <2> QED
      BY <1>7, <1>9, <2>1
  <1>11. /\ two \in Seq(Pieces) /\ Tiled(two, read + k - 1, read + k + 1) /\ Begun(two) = {}
         /\ \A j \in DOMAIN two : two[j].from <= two[j].to + 1 /\ two[j].to <= Len(tag)
    <2>1. /\ a \o b \in Seq(Pieces) /\ Tiled(a \o b, read + k - 1, read + k + 1)
          /\ Begun(a \o b) = Begun(a) \cup Begun(b)
          /\ \A j \in DOMAIN (a \o b) : (a \o b)[j].from <= (a \o b)[j].to + 1
                                     /\ (a \o b)[j].to <= Len(tag)
      <3>1. /\ read + k - 1 \in Int /\ read + k \in Int /\ read + k + 1 \in Int /\ Len(tag) \in Int
        BY <1>1, <1>7
      <3> QED
        BY <1>8, <1>9, <1>10, <3>1, Follows
    <2> QED
      BY <1>8, <1>9, <2>1
  <1>12. /\ Lead(k) \in Seq(Pieces) /\ Tiled(Lead(k), read, read + k - 1) /\ Begun(Lead(k)) = {}
         /\ \A j \in DOMAIN Lead(k) : Lead(k)[j].from <= Lead(k)[j].to + 1 /\ Lead(k)[j].to <= Len(tag)
    BY <1>1, <1>6, <1>7, LeadTiled
  <1> DEFINE all == Lead(k) \o two
  <1>13. /\ all \in Seq(Pieces) /\ Tiled(all, read, read + k + 1) /\ Begun(all) = {}
         /\ \A j \in DOMAIN all : all[j].from <= all[j].to + 1 /\ all[j].to <= Len(tag)
    <2>1. /\ all \in Seq(Pieces) /\ Tiled(all, read, read + k + 1)
          /\ Begun(all) = Begun(Lead(k)) \cup Begun(two)
          /\ \A j \in DOMAIN all : all[j].from <= all[j].to + 1 /\ all[j].to <= Len(tag)
      <3>1. read \in Int /\ read + k - 1 \in Int /\ read + k + 1 \in Int /\ Len(tag) \in Int
        BY <1>1, <1>7
      <3> QED
        BY <1>11, <1>12, <3>1, Follows
    <2> HIDE DEF all
    <2> QED
      BY <1>11, <1>12, <2>1
  <1>14. Emit(all)
    BY <1>3 DEF two
  <1> HIDE DEF all
  <1>15. phase' = "emit" /\ Tiled(out', 0, read') /\ Begun(out') = Begun(out)
    <2>1. read + k + 1 \in Int /\ IInv
      BY <1>7 DEF Laid
    <2>2. phase' = "emit" /\ Tiled(out', 0, read + k + 1) /\ Begun(out') = Begun(out) \cup Begun(all)
      BY <1>1, <1>13, <1>14, <2>1, Emitted
    <2> QED
      BY <1>3, <1>13, <2>2
  <1>16. Begun(out') \cup Single(rest') = Due
    BY <1>1, <1>5, <1>15
  <1>17. Plain(rest', read' + 1) /\ read' + Len(rest') = End /\ read' <= End /\ read' \in Nat
    <2>1. read' + 1 = read + 1 + k + 1
      BY <1>3, <1>7
    <2> QED
      BY <1>3, <1>5, <1>7, <2>1
  <1> QED
    BY <1>1, <1>2, <1>15, <1>16, <1>17, LoopKept

LEMMA TransitionArith ==
  \A r, k, m, n, e, t \in Nat : k >= 1 /\ k + 1 <= m /\ m <= n /\ r + n = e /\ e <= t
    => /\ r + k - 1 <= t /\ r + k - 1 \in Nat /\ r + m \in Nat /\ r + m <= t /\ r + m <= e
       /\ (r + 1) + k - 1 = r + k /\ (r + k) - 1 = r + k - 1 /\ r + k - 1 + 1 = r + k
       /\ (r + 1) + m - 1 = r + m /\ r + k <= r + m + 1
  OBVIOUS

LEMMA TransitionKept ==
  ASSUME Laid, phase = "emit", EmitInv, NEW p \in {"name", "value"}, Transition(p)
  PROVE  phase' = "error" \/ (phase' = "emit" /\ EmitInv')
  <1>1. /\ turn < Len(attrs) /\ Parsing /\ part \in {"name", "value"} /\ Symbols(Text) # {}
        /\ read \in Nat /\ read + 1 \in Nat /\ out \in Seq(Pieces)
        /\ Tiled(out, 0, read) /\ Begun(out) \cup Single(rest) = Due
        /\ rest \in Seq(Nat) /\ Len(rest) \in Nat /\ DOMAIN rest = 1..Len(rest)
        /\ Plain(rest, read + 1) /\ read + Len(rest) = End
        /\ End \in Nat /\ End <= Len(tag) /\ Len(tag) \in Nat
    BY Looks DEF Transition
  <1>2. turn' = turn /\ part' = part
    BY DEF Transition
  <1>3. PICK k \in DOMAIN rest :
          /\ NextSymbol(k) /\ k + 1 \notin Symbols(rest)
          /\ \/ phase' = NoExpr(k)
             \/ \E m \in ExprEnds(k) :
                  /\ Emit(Lead(k) \o <<Piece("expression", rest[k] - 1, rest[m])>>)
                  /\ read' = read + m
                  /\ rest' = SubSeq(rest, m, Len(rest))
    BY DEF Transition
  <1>4. k \in Symbols(rest) /\ (\A j \in Symbols(rest) : k <= j) /\ k + 1 \notin Symbols(rest)
    BY <1>3 DEF NextSymbol
  <1>5. /\ Single(rest) = {rest[k]} /\ k # Len(rest)
        /\ \A m \in (k + 1)..Len(rest) : /\ SubSeq(rest, m, Len(rest)) \in Seq(Nat)
                                         /\ Symbols(SubSeq(rest, m, Len(rest))) = {}
                                         /\ rest[m] = read + 1 + m - 1
        /\ rest[k] = read + 1 + k - 1
    <2> DEFINE at == read + 1
    <2>1. /\ rest \in Seq(Nat) /\ at \in Nat /\ Plain(rest, at) /\ k \in DOMAIN rest
          /\ k \in Symbols(rest) /\ (\A j \in Symbols(rest) : k <= j) /\ k + 1 \notin Symbols(rest)
      BY <1>1, <1>4
    <2> HIDE DEF at
    <2>2. Single(rest) = {rest[k]} /\ k # Len(rest)
      BY <2>1, OneTaken
    <2>3. \A m \in (k + 1)..Len(rest) : /\ SubSeq(rest, m, Len(rest)) \in Seq(Nat)
                                         /\ Symbols(SubSeq(rest, m, Len(rest))) = {}
                                         /\ rest[m] = at + m - 1
      BY <2>1, OneTaken, SMTT(60)
    <2>4. rest[k] = at + k - 1
      BY <2>1, OneTaken
    <2> QED
      BY <2>2, <2>3, <2>4 DEF at
  <1>6. CASE phase' = NoExpr(k)
    <2>1. read + k - 1 <= Len(tag)
      BY <1>1
    <2> QED
      BY <1>1, <1>5, <1>6, <2>1 DEF NoExpr
  <1>7. CASE \E m \in ExprEnds(k) :
               /\ Emit(Lead(k) \o <<Piece("expression", rest[k] - 1, rest[m])>>)
               /\ read' = read + m
               /\ rest' = SubSeq(rest, m, Len(rest))
    <2>1. PICK m \in ExprEnds(k) :
               /\ Emit(Lead(k) \o <<Piece("expression", rest[k] - 1, rest[m])>>)
               /\ read' = read + m
               /\ rest' = SubSeq(rest, m, Len(rest))
      BY <1>7
    <2>2. m \in (k + 1)..Len(rest)
      BY <2>1 DEF ExprEnds
    <2>3. k \in Nat /\ k >= 1 /\ m \in Nat /\ k + 1 <= m /\ m <= Len(rest)
      BY <1>1, <2>2
    <2>4. /\ read + k - 1 <= Len(tag) /\ read + k - 1 \in Nat /\ read + m \in Nat
          /\ read + m <= Len(tag) /\ read + m <= End
          /\ read + 1 + k - 1 = read + k /\ (read + k) - 1 = read + k - 1 /\ read + k - 1 + 1 = read + k
          /\ read + 1 + m - 1 = read + m /\ read + k <= read + m + 1
      <3>1. /\ read \in Nat /\ k \in Nat /\ m \in Nat /\ Len(rest) \in Nat /\ End \in Nat /\ Len(tag) \in Nat
            /\ k >= 1 /\ k + 1 <= m /\ m <= Len(rest) /\ read + Len(rest) = End /\ End <= Len(tag)
        BY <1>1, <2>3
      <3> QED
        BY ONLY <3>1, SMTT(60)
    <2> DEFINE x == <<Piece("expression", read + k - 1, read + m)>>
               all == Lead(k) \o x
    <2>5. Emit(all)
      <3>1. rest[k] - 1 = read + k - 1 /\ rest[m] = read + m
        BY <1>5, <2>2, <2>4
      <3> QED
        BY <2>1, <3>1
    <2>6. /\ x \in Seq(Pieces) /\ Tiled(x, read + k - 1, read + m) /\ Begun(x) = {read + k - 1 + 1}
          /\ \A j \in DOMAIN x : x[j].from = read + k - 1 + 1 /\ x[j].to = read + m
      <3>1. read + k - 1 \in Int /\ read + m \in Int
        BY <2>4
      <3> QED
        BY <3>1, OnePiece
    <2> HIDE DEF x
    <2>7. \A j \in DOMAIN x : x[j].from <= x[j].to + 1 /\ x[j].to <= Len(tag)
      BY <2>4, <2>6
    <2>8. /\ Lead(k) \in Seq(Pieces) /\ Tiled(Lead(k), read, read + k - 1) /\ Begun(Lead(k)) = {}
          /\ \A j \in DOMAIN Lead(k) : Lead(k)[j].from <= Lead(k)[j].to + 1 /\ Lead(k)[j].to <= Len(tag)
      BY <1>1, <2>3, <2>4, LeadTiled
    <2>9. /\ all \in Seq(Pieces) /\ Tiled(all, read, read + m) /\ Begun(all) = Begun(Lead(k)) \cup Begun(x)
          /\ \A j \in DOMAIN all : all[j].from <= all[j].to + 1 /\ all[j].to <= Len(tag)
      <3>1. read \in Int /\ read + k - 1 \in Int /\ read + m \in Int /\ Len(tag) \in Int
        BY <1>1, <2>4
      <3> QED
        BY <2>6, <2>7, <2>8, <3>1, Follows
    <2> HIDE DEF all
    <2>10. phase' = "emit" /\ Tiled(out', 0, read + m) /\ Begun(out') = Begun(out) \cup Begun(all)
      <3>1. read + m \in Int /\ IInv
        BY <2>4 DEF Laid
      <3> QED
        BY <1>1, <2>5, <2>9, <3>1, Emitted
    <2>11. Begun(all) = Single(rest)
      BY <1>5, <2>4, <2>6, <2>8, <2>9
    <2>12. rest' \in Seq(Nat) /\ Symbols(rest') = {}
      BY <1>5, <2>1, <2>2
    <2>13. Begun(out') \cup Single(rest') = Due
      BY <1>1, <2>10, <2>11, <2>12, SymbolsIn
    <2>14. Tiled(out', 0, read') /\ read' \in Nat /\ read' <= End
      BY <2>1, <2>4, <2>10
    <2> QED
      BY <1>1, <1>2, <2>10, <2>12, <2>13, <2>14, LoopKept
  <1> QED
    BY <1>3, <1>6, <1>7

\* The parser is through with all attributes.
LEMMA RestKept ==
  ASSUME Laid, phase = "emit", EmitInv, Rest
  PROVE  phase' = "done" /\ KeptIfPlain'
  <1>1. /\ turn = Len(attrs) /\ Len(attrs) \in Nat /\ DOMAIN attrs = 1..Len(attrs)
        /\ out \in Seq(Pieces) /\ read \in Nat /\ Len(tag) \in Nat
    BY TagType, AttrSeqs DEF Rest, Laid, EmitInv, IInv, TypeOK
  <1>2. part = "gap"
    <2>1. ~(turn < Len(attrs))
      BY <1>1
    <2> QED
      BY <2>1 DEF EmitInv
  <1>3. /\ rest = <<>> /\ read <= Len(tag) /\ Tiled(out, 0, read) /\ Begun(out) \cup Single(rest) = Due
    BY <1>2 DEF EmitInv
  <1>4. Begun(out) = Singles(Len(attrs))
    BY <1>1, <1>2, <1>3, EmptyText DEF Due
  <1> DEFINE x == Literal(read, Len(tag))
             p == <<Piece("literal", read, Len(tag))>>
  <1>5. phase' = "done" /\ out' = Append(out, x) /\ tag' = tag /\ attrs' = attrs
    BY <1>3 DEF Rest, lexer
  <1>6. x \in Pieces /\ p = <<x>>
    BY <1>1, PieceType DEF Literal
  <1>7. /\ p \in Seq(Pieces) /\ Tiled(p, read, Len(tag)) /\ Begun(p) = {}
    <2>1. read \in Int /\ Len(tag) \in Int
      BY <1>1
    <2> QED
      BY <2>1, OnePiece
  <1> HIDE DEF x, p
  <1>8. out' = out \o p
    BY <1>1, <1>5, <1>6, AppendIsConcat
  <1>9. out' \in Seq(Pieces) /\ Tiled(out', 0, Len(tag)) /\ Begun(out') = Begun(out)
    <2>1. out \o p \in Seq(Pieces)
      BY <1>1, <1>7, ConcatProperties
    <2>2. read \in Int /\ Len(tag) \in Int /\ 0 \in Int
      BY <1>1
    <2>3. Tiled(out \o p, 0, Len(tag))
      BY <1>1, <1>3, <1>7, <2>2, TiledConcat
    <2>4. Begun(out \o p) = Begun(out) \cup Begun(p)
      BY <1>1, <1>7, BegunConcat
    <2> QED
      BY <1>7, <1>8, <2>1, <2>3, <2>4
  <1>10. out' # <<>>
    BY <1>1, <1>5, <1>6, AppendProperties
  <1>11. Tiles'
    BY <1>5, <1>9, <1>10 DEF Tiled, Tiles
  <1>12. Singles(Len(attrs))
           = (UNION {Single(attrs[i].name) \cup Single(attrs[i].value) : i \in DOMAIN attrs})'
    BY <1>1, <1>5, AttrSingles DEF Singles
  <1> QED
    BY <1>4, <1>5, <1>9, <1>11, <1>12 DEF KeptIfPlain, Begun

\* The steps of the parser leave the attributes as they are.
LEMMA SpreadStays ==
  ASSUME SpreadInv, phase # "lex", phase' # "lex", tag' = tag, attrs' = attrs
  PROVE  SpreadInv' /\ (AllPlain' <=> AllPlain)
  <1>1. \A i \in DOMAIN attrs : attrs[i].name # <<>>
    BY DEF SpreadInv, Named
  <1>2. \A i \in DOMAIN attrs : Named(i)'
    BY <1>1 DEF Named
  <1>3. \A i \in DOMAIN attrs : /\ Apart(attrs[i])' /\ Within(attrs[i], Len(tag))'
                                /\ \A h \in 1..(i - 1) : Before(attrs[h], attrs[i])'
    BY DEF SpreadInv, Apart, Within, Until, Before
  <1>4. AllPlain' <=> AllPlain
    BY DEF AllPlain, Plain, Placed, Together, Followed, Symbols, At
  <1> QED
    BY <1>2, <1>3, <1>4 DEF SpreadInv

ParserSteps ==
  \/ Gap \/ Between \/ Rest
  \/ \E p \in {"name", "value"} :
       Verbatim(p) \/ Escape(p) \/ Transition(p) \/ LoopDone(p)

LEMMA ParserKept ==
  ASSUME IInv, PlaceInv, KeptInv, ParserSteps
  PROVE  KeptInv'
  <1>1. phase = "emit" /\ UNCHANGED <<tag, lexer>>
    BY DEF ParserSteps, Gap, Between, Rest, Verbatim, Escape, Transition, LoopDone, Looping, Emitting
  <1>2. phase' \in {"emit", "done", "error", "crashed"}
    <2>1. \A pieces : Emit(pieces) => phase' \in {"emit", "crashed"}
      BY <1>1 DEF Emit
    <2> QED
      BY <1>1, <2>1 DEF ParserSteps, Gap, Between, Rest, Verbatim, Escape, Transition, LoopDone, NoExpr
  <1>3. SpreadInv' /\ (AllPlain' <=> AllPlain)
    BY <1>1, <1>2, SpreadStays DEF KeptInv, lexer
  <1>4. CASE ~AllPlain
    BY <1>3, <1>4 DEF KeptInv, KeptIfPlain, AllPlain
  <1>5. CASE AllPlain
    <2>1. Laid /\ EmitInv
      BY <1>1, <1>5 DEF Laid, KeptInv
    <2>2. \/ phase' = "emit" /\ EmitInv'
          \/ phase' = "error"
          \/ phase' = "done" /\ KeptIfPlain'
      BY <1>1, <2>1, GapKept, RestKept, TextKept, EscapeKept, TransitionKept DEF ParserSteps
    <2>3. phase' \notin {"done", "crashed"} => KeptIfPlain'
      BY DEF KeptIfPlain
    <2> QED
      BY <1>3, <2>2, <2>3 DEF KeptInv
  <1> QED
    BY <1>4, <1>5

\* The lexer ends where the parser begins.
LEMMA LexerKept ==
  ASSUME IInv, IInv', PlaceInv, PlaceInv', ReadInv, KeptInv, Lex
  PROVE  KeptInv'
  <1>1. phase = "lex" /\ UNCHANGED <<tag, parser>>
    BY DEF Lex, Data, TagOpen, TagName, BeforeAttrName, AttrName, AfterAttrName,
           BeforeAttrVal, Quoted, Unquoted, AfterQuoted, SelfClosing, CharRef,
           NamedCharRef, Unimplemented, Consume
  <1>2. phase' \in {"lex", "emit"}
    BY <1>1
    DEF Lex, Data, TagOpen, TagName, BeforeAttrName, AttrName, AfterAttrName,
        BeforeAttrVal, Quoted, Unquoted, AfterQuoted, SelfClosing, CharRef,
        NamedCharRef, Unimplemented, Break, Error, To, ReconsumeIn, Switch, ToCharRef
  <1>3. Spreading
    BY <1>1 DEF Spreading, ReadInv, Rereads, KeptInv
  <1>4. SpreadInv'
    BY <1>3, NamesSpread, ValuesSpread, RefsSpread DEF Lex
  <1>5. KeptIfPlain' /\ phase' # "crashed"
    BY <1>2 DEF KeptIfPlain
  <1>6. ASSUME phase' = "emit" PROVE EmitInv'
    <2>1. /\ part' = "gap" /\ rest' = <<>> /\ read' = 0 /\ out' = <<>> /\ turn' = 0
      BY <1>1, <1>3 DEF Spreading, SpreadInv, IInv, parser
    <2>2. attrs' \in Seq(Attributes) /\ Len(tag) \in Nat
      BY TagType DEF IInv, TypeOK
    <2>3. 0 < Len(attrs') => 0 < attrs'[1].nameAt
      <3> SUFFICES ASSUME 0 < Len(attrs') PROVE 0 < attrs'[1].nameAt
        OBVIOUS
      <3>1. 1 \in DOMAIN attrs' /\ attrs'[1] \in Attributes
        BY <2>2, LenProperties, ElementOfSeq
      <3>2. Named(1)'
        BY <1>4, <3>1 DEF SpreadInv
      <3>3. attrs'[1].name # <<>>
        BY <1>6, <3>2 DEF Named
      <3>4. attrs'[1].nameAt # 0 /\ attrs'[1].nameAt \in Nat
        BY <3>1, <3>3 DEF PlaceInv, Attributes
      <3> QED
        BY <3>4
    <2>4. Begun(out)' = {} /\ Single(rest)' = {} /\ Tiled(out, 0, read)'
      <3>1. DOMAIN <<>> = {}
        OBVIOUS
      <3> QED
        BY <2>1, <3>1 DEF Begun, Single, Symbols, At, Tiled
    <2>5. Due' = {}
      <3>1. 1..0 = {}
        OBVIOUS
      <3> QED
        BY <2>1, <3>1 DEF Due, Singles
    <2>6. turn' < Len(attrs') => read' < Attr'.nameAt
      BY <2>1, <2>3 DEF Attr
    <2>7. read' >= 0 /\ read' <= Len(tag')
      BY <1>1, <2>1, <2>2
    <2> QED
      BY <2>1, <2>4, <2>5, <2>6, <2>7 DEF EmitInv
  <1> QED
    BY <1>4, <1>5, <1>6 DEF KeptInv

LEMMA StutterKept == KeptInv /\ UNCHANGED vars => KeptInv'
  <1> SUFFICES ASSUME KeptInv, UNCHANGED vars PROVE KeptInv'
    OBVIOUS
  <1>1. UNCHANGED <<tag, phase, err, state, returnState, pos, ch, again, attrs, turn, part, rest, read, out>>
    BY DEF vars, lexer, parser
  <1>2. SpreadInv' <=> SpreadInv
    BY <1>1 DEF SpreadInv, Named, Apart, Within, Until, Before, Handed, Taken, Cur
  <1>3. AllPlain' <=> AllPlain
    BY <1>1 DEF AllPlain, Plain, Placed, Together, Followed, Symbols, At
  <1>4. EmitInv' <=> EmitInv
    <2>1. Due' = Due
      BY <1>1 DEF Due, Singles, Single, Symbols, At, Attr
    <2>2. Tiled(out, 0, read)' <=> Tiled(out, 0, read)
      BY <1>1 DEF Tiled
    <2>3. Begun(out)' = Begun(out) /\ Single(rest)' = Single(rest) /\ Symbols(rest)' = Symbols(rest)
      BY <1>1 DEF Begun, Single, Symbols, At
    <2>4. Plain(rest, read + 1)' <=> Plain(rest, read + 1)
      BY <1>1 DEF Plain, Placed, Together, Followed, Symbols, At
    <2>5. Attr' = Attr /\ Text' = Text /\ Start' = Start /\ End' = End /\ Symbols(Text)' = Symbols(Text)
      BY <1>1 DEF Attr, Text, Start, End, Symbols, At
    <2> QED
      BY <1>1, <2>1, <2>2, <2>3, <2>4, <2>5 DEF EmitInv
  <1>5. KeptIfPlain' <=> KeptIfPlain
    <2>1. (UNION {Single(attrs[i].name) \cup Single(attrs[i].value) : i \in DOMAIN attrs})'
            = UNION {Single(attrs[i].name) \cup Single(attrs[i].value) : i \in DOMAIN attrs}
      BY <1>1 DEF Single, Symbols, At
    <2>2. Tiles' <=> Tiles
      BY <1>1 DEF Tiles
    <2> QED
      BY <1>1, <1>3, <2>1, <2>2, ZenonT(60) DEF KeptIfPlain, AllPlain
  <1> QED
    BY <1>1, <1>2, <1>3, <1>4, <1>5 DEF KeptInv

LEMMA InitKept == Init => KeptInv
  <1> SUFFICES ASSUME Init PROVE KeptInv
    OBVIOUS
  <1>1. /\ phase \in {"lex", "emit"} /\ attrs = <<>> /\ DOMAIN attrs = {} /\ Len(attrs) = 0
        /\ part = "gap" /\ rest = <<>> /\ read = 0 /\ out = <<>> /\ turn = 0 /\ state = "Data"
        /\ Len(tag) \in Nat
    <2>1. Len(tag) \in Nat
      BY TagsAssumption, LenProperties DEF Init
    <2> QED
      BY <2>1 DEF Init
  <1>2. SpreadInv
    BY <1>1 DEF SpreadInv, Valuing
  <1>3. EmitInv
    <2>1. Begun(out) = {} /\ Single(rest) = {} /\ Tiled(out, 0, read) /\ Due = {}
      <3>1. DOMAIN <<>> = {} /\ 1..0 = {}
        OBVIOUS
      <3> QED
        BY <1>1, <3>1 DEF Begun, Single, Symbols, At, Tiled, Due, Singles
    <2> QED
      BY <1>1, <2>1 DEF EmitInv
  <1> QED
    BY <1>1, <1>2, <1>3 DEF KeptInv, KeptIfPlain

-----------------------------------------------------------------------------
(* The theorems. *)

LEMMA InitInv == Init => IInv
  <1> SUFFICES ASSUME Init PROVE IInv
    OBVIOUS
  <1>1. /\ tag \in Seq(STRING) /\ Len(tag) \in Nat
    BY TagsAssumption, LenProperties DEF Init
  <1>2. <<>> \in Seq(Attributes) /\ <<>> \in Seq(Nat) /\ <<>> \in Seq(Pieces) /\ Len(<<>>) = 0
    BY EmptySeq
  <1> QED
    <2>1. TypeOK
      <3>1. phase \in {"lex", "emit"}
        BY DEF Init
      <3>2. pos \in 0..Len(tag) /\ turn \in 0..Len(attrs)
        BY <1>1, <1>2 DEF Init
      <3>3. err \in BOOLEAN /\ again \in BOOLEAN
        BY DEF Init
      <3>4. read \in Int /\ ch \in {tag[k] : k \in DOMAIN tag} \cup {Eof}
        BY DEF Init
      <3>5. /\ attrs \in Seq(Attributes) /\ rest \in Seq(Nat) /\ out \in Seq(Pieces)
        BY <1>2 DEF Init
      <3>6. /\ state \in States /\ part \in {"gap", "name", "between", "value"}
            /\ returnState \in {"Data", "DoubleQuote", "SingleQuote", "Unquoted"}
        BY DEF Init, States
      <3> QED
        BY <1>1, <3>1, <3>2, <3>3, <3>4, <3>5, <3>6 DEF TypeOK
    <2>2. Hand
      BY DEF Init, Hand, AttrAtHand
    <2> QED
      BY <2>1, <2>2 DEF Init, IInv

LEMMA StutterStep == IInv /\ UNCHANGED vars => IInv'
  BY DEF IInv, TypeOK, Hand, AttrAtHand, vars, lexer, parser

\* The inductive invariant holds in every behaviour.
THEOREM Invariance == Spec => []IInv
  <1>1. IInv /\ Lex => IInv'
    BY DataStep, TagNameStep, AttrNameStep, AttrValStep, CharRefStep DEF Lex
  <1>2. IInv /\ [Next]_vars => IInv'
    BY <1>1, GapStep, RestStep, TextStep, EscapeStep, TransitionStep, StutterStep
    DEF Next, Over
  <1> QED
    BY <1>2, InitInv, PTL DEF Spec

\* scanAttrs and parseStartTag keep their types, on tags of any length.
THEOREM TypeCorrect == Spec => []TypeOK
  <1>1. IInv => TypeOK
    BY DEF IInv
  <1> QED
    BY <1>1, Invariance, PTL

\* No tag makes the lexer write to an attribute before there is one: what
\* scanAttrs panics with is an openTagScanError.
THEOREM AttrIsAtHand == Spec => []AttrAtHand
  <1>1. IInv => AttrAtHand
    BY DEF IInv, Hand
  <1> QED
    BY <1>1, Invariance, PTL

\* The places that the lexer gives are right, and those it has yet to give will be.
THEOREM PlaceInvariance == Spec => []PlaceInv
  <1>1. Init => PlaceInv
    <2> SUFFICES ASSUME Init PROVE PlaceInv
      OBVIOUS
    <2>1. DOMAIN attrs = {} /\ state = "Data"
      BY DEF Init
    <2> QED
      BY <2>1 DEF PlaceInv, InPlace
  <1>2. IInv /\ PlaceInv /\ Lex => PlaceInv'
    BY NamesPlaced, ValuesPlaced, RefsPlaced DEF Lex
  <1>3. PlaceInv /\ UNCHANGED vars => PlaceInv'
    BY PlaceParts, PlaceParts2 DEF vars, lexer, AllPlaced, Growing, Grows, Cur, Has
  <1>4. IInv /\ PlaceInv /\ [Next]_vars => PlaceInv'
    BY <1>2, <1>3, ParserPlaced DEF Next, Over
  <1> QED
    BY <1>1, <1>4, Invariance, PTL DEF Spec

\* In every tag, the texts the lexer gives are at the offsets it gives: the names,
\* and without character references the values.
THEOREM TextsInPlace == Spec => []InPlace
  <1>1. PlaceInv => InPlace
    BY DEF PlaceInv
  <1> QED
    BY <1>1, PlaceInvariance, PTL

\* The lexer and the tokenizer are in step, and what they are through with is given
\* to attributes.
THEOREM ReadInvariance == Spec => []ReadInv
  <1>1. Init => ReadInv
    <2> SUFFICES ASSUME Init PROVE ReadInv
      OBVIOUS
    <2>1. /\ phase = IF HasAttr(tag) THEN "lex" ELSE "emit"
          /\ state = "Data" /\ ~again /\ pos = 0 /\ attrs = <<>>
      BY DEF Init
    <2> QED
      BY <2>1 DEF ReadInv, Reading, EveryCharacterRead
  <1>2. IInv /\ ReadInv /\ Lex => ReadInv'
    <2> SUFFICES ASSUME IInv, ReadInv, Lex PROVE ReadInv'
      OBVIOUS
    <2>1. phase = "lex"
      BY DEF Lex, Data, TagOpen, TagName, BeforeAttrName, AttrName, AfterAttrName,
             BeforeAttrVal, Quoted, Unquoted, AfterQuoted, SelfClosing, CharRef,
             NamedCharRef, Unimplemented, Consume
    <2>2. CASE ~Alike
      BY <2>2, QuotesRead
    <2>3. CASE Alike
      BY <2>1, <2>3, LexRead DEF Course
    <2> QED
      BY <2>2, <2>3
  <1>3. ReadInv /\ UNCHANGED vars => ReadInv'
    <2> SUFFICES ASSUME ReadInv, UNCHANGED vars PROVE ReadInv'
      OBVIOUS
    <2>1. UNCHANGED <<tag, phase, err, state, returnState, pos, ch, again, attrs>>
      BY DEF vars, lexer
    <2>2. EveryCharacterRead'
      <3>1. CASE phase = "lex"
        BY <2>1, <3>1 DEF EveryCharacterRead
      <3>2. CASE phase # "lex"
        BY <2>1, <3>2, SameRead DEF ReadInv
      <3> QED
        BY <3>1, <3>2
    <2>3. Given' <=> Given
      <3>1. \A k : Attributed(k)' <=> Attributed(k)
        BY <2>1, SameAttributed
      <3>2. \A k : Holders(k)' = Holders(k)
        BY <2>1 DEF Holders
      <3>3. Taken' = Taken
        BY <2>1 DEF Taken
      <3> QED
        BY <2>1, <3>1, <3>2, <3>3 DEF Given
    <2>4. Reading' <=> Reading
      BY <2>1, <2>3, ZenonT(60) DEF Reading, InStep, Taken
    <2> QED
      BY <2>1, <2>2, <2>4 DEF ReadInv, Alike, Has
  <1>4. IInv /\ ReadInv /\ [Next]_vars => ReadInv'
    BY <1>2, <1>3, ParserReads DEF Next, Over
  <1> QED
    BY <1>1, <1>4, Invariance, PTL DEF Spec

\* When scanAttrs succeeds, every symbol after the tag's name, and every letter
\* outside character references, is in exactly one name or value, once: in every
\* tag the tokenizer can hand over, without single quotes and carriage returns.
THEOREM CharactersAreRead == Spec => []EveryCharacterRead
  <1>1. ReadInv => EveryCharacterRead
    BY DEF ReadInv
  <1> QED
    BY <1>1, ReadInvariance, PTL

\* What parseStartTag makes of a tag whose names and values have no references and
\* one expression at most, is the tag: each character is in one node, in order,
\* an expression begins at each symbol that is not doubled, and it never panics.
THEOREM TagKept == Spec => []KeptIfPlain
  <1>1. IInv /\ IInv' /\ PlaceInv /\ PlaceInv' /\ ReadInv /\ KeptInv /\ [Next]_vars => KeptInv'
    <2> SUFFICES ASSUME IInv, IInv', PlaceInv, PlaceInv', ReadInv, KeptInv, [Next]_vars
                 PROVE  KeptInv'
      OBVIOUS
    <2>1. CASE Lex
      BY <2>1, LexerKept
    <2>2. CASE ParserSteps
      BY <2>2, ParserKept
    <2>3. CASE UNCHANGED vars
      BY <2>3, StutterKept
    <2> QED
      BY <2>1, <2>2, <2>3 DEF Next, Over, ParserSteps
  <1>2. KeptInv => KeptIfPlain
    BY DEF KeptInv
  <1> QED
    BY <1>1, <1>2, InitKept, Invariance, PlaceInvariance, ReadInvariance, PTL DEF Spec
=============================================================================
