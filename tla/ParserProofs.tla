---------------------------- MODULE ParserProofs ----------------------------
(* Theorems about the two parsers, for sources of any length.              *)
EXTENDS ParserInvariants, SequenceTheorems, FiniteSetTheorems, WellFoundedInduction, TLAPS

-----------------------------------------------------------------------------
(* Names.                                                                  *)

LEMMA PcNames == /\ Scans = {"cond", "clause", "code", "handling", "expr"}
                 /\ CodePcs = CodePcList
                 /\ Pcs = CodePcList \cup {"document", "attribute", "children",
                                           "resume", "element"}
  <1>1. Scans = {"cond", "clause", "code", "handling", "expr"}
    BY DEF Scans, Closer
  <1>2. Pcs = CodePcList \cup {"document", "attribute", "children", "resume", "element"}
    BY <1>1 DEF Pcs, CodePcList
  <1>3. CodePcList \cap {"document", "attribute", "children", "resume", "element"} = {}
    BY DEF CodePcList
  <1> QED BY <1>1, <1>2, <1>3 DEF CodePcs

LEMMA BelowCode ==
  /\ \A pc \in CodePcs : Below(pc) = Callables
  /\ Below("children") = {"children", "element"}
  /\ Below("resume") = {"children", "element"}
  /\ Below("element") = {"close"}
  /\ Below("document") = {} /\ Below("attribute") = {}
  BY PcNames DEF Below, Callables, CodePcList

LEMMA BelowChildren ==
  ASSUME NEW p \in Pcs, NEW q \in {"children", "resume"}, Below(p) = Below(q)
  PROVE  p \in {"children", "resume"}
  <1>1. "children" \in Below(p) /\ "children" \notin Callables
    BY BelowCode DEF Callables
  <1>2. p \notin CodePcs BY <1>1, BelowCode
  <1> QED BY <1>1, <1>2, PcNames, BelowCode

\* What is in a source.
LEMMA SourceLexemes ==
  ASSUME src \in Seq(Lexemes)
  PROVE  /\ Len(src) \in Nat
         /\ \A o \in Int : At(o) # "" <=> o \in 0..(Len(src) - 1)
         /\ \A o \in Int : At(o) # "EOF" /\ At(o) # ";" /\ At(o) \in Lexemes \cup {""}
  <1>1. "" \notin Lexemes /\ ";" \notin Lexemes /\ "EOF" \notin Lexemes
    <2>1. /\ "" \notin Names \cup Markup /\ ";" \notin Names \cup Markup
          /\ "EOF" \notin Names \cup Markup
      BY LexemesAssumption
    <2> QED BY <2>1 DEF Lexemes, Words, Idents, Keywords, Blanks, Signs
  <1>2. Len(src) \in Nat BY LenProperties
  <1>3. \A o \in 0..(Len(src) - 1) : src[o + 1] \in Lexemes
    <2> TAKE o \in 0..(Len(src) - 1)
    <2>1. o + 1 \in 1..Len(src) BY <1>2
    <2> QED BY <2>1, ElementOfSeq
  <1>4. ASSUME NEW o \in Int
        PROVE  /\ At(o) # "" <=> o \in 0..(Len(src) - 1)
               /\ At(o) # "EOF" /\ At(o) # ";" /\ At(o) \in Lexemes \cup {""}
    <2>1. CASE o \in 0..(Len(src) - 1)
      <3>1. At(o) \in Lexemes BY <1>3, <2>1 DEF At
      <3> QED BY <1>1, <2>1, <3>1
    <2>2. CASE o \notin 0..(Len(src) - 1)
      <3>1. At(o) = "" BY <2>2 DEF At
      <3> QED BY <2>2, <3>1
    <2> QED BY <2>1, <2>2
  <1> QED BY <1>2, <1>4

-----------------------------------------------------------------------------
(* The stack.                                                              *)

LEMMA FrameType == \A pc \in Pcs : /\ Frame(pc) \in Frames /\ Frame(pc).pc = pc
                                   /\ Frame(pc).open = <<>> /\ Frame(pc).from = 0
                                   /\ Frame(pc).end = 0
  BY EmptySeq, SMTT(60) DEF Frame, Frames

LEMMA FrameChanges ==
  /\ \A g \in Frames, n \in Nat : [g EXCEPT !.from = n, !.depth = 1] \in Frames
  /\ \A g \in Frames, n \in Nat, m \in Nat : [g EXCEPT !.from = n, !.end = m] \in Frames
  /\ \A g \in Frames, pc \in Pcs, m \in Nat : [g EXCEPT !.pc = pc, !.end = m] \in Frames
  /\ \A g \in Frames, n \in Nat : [g EXCEPT !.from = n] \in Frames
  /\ \A g \in Frames, pc \in Pcs : [g EXCEPT !.pc = pc] \in Frames
  <1> DEFINE F(P, S) == [pc : P, open : S, from : Nat, end : Nat, depth : Int]
  <1>1. ASSUME NEW P, NEW S
        PROVE  /\ \A g \in F(P, S), n \in Nat :
                    [g EXCEPT !.from = n, !.depth = 1] \in F(P, S)
               /\ \A g \in F(P, S), n \in Nat, m \in Nat :
                    [g EXCEPT !.from = n, !.end = m] \in F(P, S)
               /\ \A g \in F(P, S), pc \in P, m \in Nat :
                    [g EXCEPT !.pc = pc, !.end = m] \in F(P, S)
               /\ \A g \in F(P, S), n \in Nat : [g EXCEPT !.from = n] \in F(P, S)
               /\ \A g \in F(P, S), pc \in P : [g EXCEPT !.pc = pc] \in F(P, S)
    <2>1. ASSUME NEW g \in F(P, S), NEW n \in Nat, NEW d \in Int
          PROVE  [g EXCEPT !.from = n, !.depth = d] \in F(P, S)
      OBVIOUS
    <2>2. 1 \in Int OBVIOUS
    <2>3. \A g \in F(P, S), n \in Nat : [g EXCEPT !.from = n, !.depth = 1] \in F(P, S)
      BY <2>1, <2>2
    <2>4. ASSUME NEW g \in F(P, S), NEW n \in Nat, NEW m \in Nat
          PROVE  [g EXCEPT !.from = n, !.end = m] \in F(P, S)
      OBVIOUS
    <2>5. ASSUME NEW g \in F(P, S), NEW pc \in P, NEW m \in Nat
          PROVE  [g EXCEPT !.pc = pc, !.end = m] \in F(P, S)
      OBVIOUS
    <2>6. ASSUME NEW g \in F(P, S), NEW n \in Nat
          PROVE  [g EXCEPT !.from = n] \in F(P, S)
      OBVIOUS
    <2>7. ASSUME NEW g \in F(P, S), NEW pc \in P
          PROVE  [g EXCEPT !.pc = pc] \in F(P, S)
      OBVIOUS
    <2> HIDE DEF F
    <2> QED BY <2>3, <2>4, <2>5, <2>6, <2>7
  <1>2. Frames = F(Pcs, Seq(STRING)) BY DEF Frames
  <1> HIDE DEF F
  <1> QED BY <1>1, <1>2, ZenonT(60)

LEMMA Stack ==
  ASSUME Running
  PROVE  /\ stack \in Seq(Frames) /\ Len(stack) \in Nat /\ Len(stack) >= 1
         /\ Top \in Frames /\ Top.pc \in Pcs
         /\ \A k \in 1..Len(stack) : stack[k] \in Frames
         /\ Callers \in Seq(Frames) /\ Len(Callers) = Len(stack) - 1
         /\ \A k \in 1..(Len(stack) - 1) : Callers[k] = stack[k]
  <1>1. stack \in Seq(Frames) /\ Len(stack) \in Nat /\ Len(stack) >= 1
    BY LenProperties DEF Running, TInv, TypeOK, Linked
  <1>2. \A k \in 1..Len(stack) : stack[k] \in Frames
    BY <1>1, ElementOfSeq
  <1>3. Top \in Frames BY <1>1, <1>2 DEF Top
  <1>4. Top.pc \in Pcs BY <1>3 DEF Frames
  <1>5. /\ Callers \in Seq(Frames) /\ Len(Callers) = Len(stack) - 1
        /\ \A k \in 1..(Len(stack) - 1) : Callers[k] = stack[k]
    <2> DEFINE n == Len(stack) - 1
    <2>1. n \in Nat BY <1>1
    <2>2. \A k \in 1..n : stack[k] \in Frames
      BY <1>1, <1>2
    <2>3. /\ SubSeq(stack, 1, n) \in Seq(Frames)
          /\ Len(SubSeq(stack, 1, n)) = IF 1 <= n THEN n - 1 + 1 ELSE 0
          /\ \A k \in 1..(n - 1 + 1) : SubSeq(stack, 1, n)[k] = stack[1 + k - 1]
      BY <2>1, <2>2, SubSeqProperties
    <2>6. n - 1 + 1 = n /\ (IF 1 <= n THEN n - 1 + 1 ELSE 0) = n
      <3> HIDE DEF n
      <3> QED BY <2>1
    <2>4. Len(SubSeq(stack, 1, n)) = n /\ n - 1 + 1 = n
      BY <2>3, <2>6
    <2>5. \A k \in 1..n : 1 + k - 1 = k BY <2>1
    <2> QED BY <2>3, <2>4, <2>5 DEF Callers
  <1> QED BY <1>1, <1>2, <1>3, <1>4, <1>5

\* Frames on top of the callers of the one that runs.
LEMMA Neighbours ==
  ASSUME Running, NEW s \in Seq(Frames), Len(s) >= 1, stack' = Callers \o s
  PROVE  /\ stack' \in Seq(Frames) /\ Top' = s[Len(s)]
         /\ Len(stack') = Len(stack) - 1 + Len(s) /\ Len(stack') >= 1
         /\ stack'[1] = IF Len(stack) = 1 THEN s[1] ELSE stack[1]
         /\ \A k \in 2..Len(stack') :
              \/ k \in 2..Len(stack) /\ stack'[k - 1] = stack[k - 1] /\ stack'[k] = stack[k]
              \/ /\ k \in 2..Len(stack) /\ k = Len(stack) /\ k # 1
                 /\ stack'[k - 1] = stack[k - 1] /\ stack'[k] = s[1]
              \/ \E j \in 2..Len(s) : stack'[k - 1] = s[j - 1] /\ stack'[k] = s[j]
  <1> DEFINE n == Len(stack)
             m == Len(s)
             c == Callers
             r == stack'
  <1>1. /\ c \in Seq(Frames) /\ Len(c) = n - 1
        /\ \A k \in 1..(n - 1) : c[k] = stack[k]
        /\ n \in Nat /\ n >= 1 /\ m \in Nat /\ m >= 1
    BY Stack, LenProperties
  <1>2. /\ r \in Seq(Frames) /\ Len(r) = Len(c) + m
        /\ \A i \in 1..(Len(c) + m) : r[i] = IF i <= Len(c) THEN c[i] ELSE s[i - Len(c)]
    BY ConcatProperties, <1>1, ZenonT(60)
  <1>3. Top' = s[m]
    <2>1. r[Len(r)] = s[m]
      <3> HIDE DEF n, m, c, r
      <3> QED BY <1>1, <1>2
    <2> QED BY <2>1 DEF Top
  <1> HIDE DEF n, m, c, r
  <1>4. Len(r) = n - 1 + m /\ Len(r) >= 1
    BY <1>1, <1>2
  <1>5. \A i \in 1..(n - 1) : r[i] = stack[i]
    <2>1. \A i \in 1..(n - 1) : i \in 1..(Len(c) + m) /\ i <= Len(c)
      BY <1>1
    <2> QED BY <1>1, <1>2, <2>1
  <1>6. \A i \in 1..m : r[n - 1 + i] = s[i]
    <2>1. \A i \in 1..m : n - 1 + i \in 1..(Len(c) + m) /\ ~(n - 1 + i <= Len(c))
                          /\ (n - 1 + i) - Len(c) = i
      BY <1>1
    <2> QED BY <1>2, <2>1
  <1>7. r[1] = IF n = 1 THEN s[1] ELSE stack[1]
    <2>1. /\ 1 \in 1..m /\ (n = 1 => n - 1 + 1 = 1)
          /\ n # 1 => 1 \in 1..(n - 1)
      BY <1>1
    <2> QED BY <1>5, <1>6, <2>1
  <1>8. ASSUME NEW k \in 2..Len(r)
        PROVE  \/ k \in 2..n /\ r[k - 1] = stack[k - 1] /\ r[k] = stack[k]
               \/ k \in 2..n /\ k = n /\ k # 1 /\ r[k - 1] = stack[k - 1] /\ r[k] = s[1]
               \/ \E j \in 2..m : r[k - 1] = s[j - 1] /\ r[k] = s[j]
    <2>1. CASE k <= n - 1
      <3>1. k \in 1..(n - 1) /\ k - 1 \in 1..(n - 1) /\ k \in 2..n
        BY <1>1, <2>1
      <3> QED BY <1>5, <3>1
    <2>2. CASE k = n
      <3>1. n - 1 \in 1..(n - 1) /\ 1 \in 1..m /\ n \in 2..n /\ n # 1 /\ n - 1 + 1 = n
        BY <1>1, <2>2
      <3> QED BY <1>5, <1>6, <2>2, <3>1
    <2>3. CASE k > n
      <3> DEFINE j == k - n + 1
      <3>1. j \in 2..m /\ j \in 1..m /\ j - 1 \in 1..m /\ k = n - 1 + j /\ k - 1 = n - 1 + (j - 1)
        BY <1>1, <1>4, <2>3
      <3> HIDE DEF j
      <3> QED BY <1>6, <3>1
    <2> QED BY <1>1, <1>4, <2>1, <2>2, <2>3
  <1> QED BY <1>2, <1>3, <1>4, <1>7, <1>8 DEF n, m, r

LEMMA Restacked ==
  ASSUME Running, NEW s \in Seq(Frames), Len(s) >= 1, stack' = Callers \o s,
         Replaces(s[1]), Chained(s)
  PROVE  /\ stack' \in Seq(Frames) /\ Linked' /\ Top' = s[Len(s)]
         /\ Len(stack') = Len(stack) - 1 + Len(s)
  <1>1. stack'[1].pc \in {"document", "attribute"}
    BY Neighbours DEF Replaces, Running, TInv, Linked
  <1>2. ASSUME NEW k \in 2..Len(stack') PROVE Sits(stack'[k], stack'[k - 1])
    <2>1. \A i \in 2..Len(stack) : Sits(stack[i], stack[i - 1])
      BY DEF Running, TInv, Linked
    <2>2. CASE k \in 2..Len(stack) /\ stack'[k - 1] = stack[k - 1] /\ stack'[k] = stack[k]
      BY <2>1, <2>2
    <2>3. CASE /\ k \in 2..Len(stack) /\ k = Len(stack) /\ k # 1
               /\ stack'[k - 1] = stack[k - 1] /\ stack'[k] = s[1]
      <3>1. s[1].pc \in {"children", "resume"} => Top.pc \in {"children", "resume"}
        <4>1. Below(s[1].pc) = Below(Top.pc) /\ Top.pc \in Pcs
          BY <2>3, Stack DEF Replaces, Frames
        <4> QED BY <4>1, BelowChildren
      <3> QED BY <2>1, <2>3, <3>1 DEF Replaces, Top, Sits
    <2>4. CASE \E j \in 2..Len(s) : stack'[k - 1] = s[j - 1] /\ stack'[k] = s[j]
      BY <2>4 DEF Chained
    <2> QED BY <2>2, <2>3, <2>4, Neighbours, ZenonT(60)
  <1> QED BY <1>1, <1>2, Neighbours DEF Linked, Sits

LEMMA Becomes ==
  ASSUME Running, Top.pc \in CodePcs, NEW f \in Frames, f.pc \in CodePcs, Become(f)
  PROVE  /\ stack' \in Seq(Frames) /\ Linked' /\ Top' = f
         /\ Len(stack') = Len(stack)
  <1> DEFINE s == <<f>>
  <1>1. s \in Seq(Frames) /\ Len(s) = 1 /\ s[1] = f
    OBVIOUS
  <1>2. stack' = Callers \o s
    BY Stack, AppendIsConcat DEF Become
  <1>3. Len(stack) # 1
    BY PcNames DEF Running, TInv, Linked, Top, CodePcList
  <1>4. Replaces(s[1])
    BY <1>1, <1>3, BelowCode DEF Replaces
  <1>5. Chained(s) BY <1>1 DEF Chained
  <1>6. /\ stack' \in Seq(Frames) /\ Linked' /\ Top' = s[Len(s)]
        /\ Len(stack') = Len(stack) - 1 + Len(s)
    <2> HIDE DEF s
    <2> QED BY <1>1, <1>2, <1>4, <1>5, Restacked, SMTT(60)
  <1>7. Len(stack) \in Nat BY Stack
  <1> HIDE DEF s
  <1> QED BY <1>1, <1>6, <1>7

LEMMA Calls ==
  ASSUME Running, NEW f \in Frames, NEW back \in Frames, Call(f, back),
         Replaces(back), back.pc \in Below(f.pc),
         f.pc \in {"children", "resume"} => back.open # <<>>
  PROVE  /\ stack' \in Seq(Frames) /\ Linked' /\ Top' = f
         /\ Len(stack') = Len(stack) + 1
  <1> DEFINE s == <<back, f>>
  <1>1. s \in Seq(Frames) /\ Len(s) = 2 /\ s[1] = back /\ s[2] = f
    OBVIOUS
  <1>2. stack' = Callers \o s BY DEF Call
  <1>5. Chained(s) BY <1>1 DEF Chained, Sits
  <1>6. /\ stack' \in Seq(Frames) /\ Linked' /\ Top' = s[Len(s)]
        /\ Len(stack') = Len(stack) - 1 + Len(s)
    <2>1. Replaces(s[1]) /\ Len(s) >= 1 BY <1>1
    <2> HIDE DEF s
    <2> QED BY <1>1, <1>2, <1>5, <2>1, Restacked
  <1>7. Len(stack) \in Nat BY Stack
  <1> HIDE DEF s
  <1> QED BY <1>1, <1>6, <1>7

LEMMA Returns ==
  ASSUME Running, Top.pc \notin {"document", "attribute"}, Return
  PROVE  /\ stack' \in Seq(Frames) /\ Linked' /\ Top' = stack[Len(stack) - 1]
         /\ Top' \in Frames /\ Top'.pc \in Below(Top.pc)
         /\ Len(stack) >= 2 /\ Len(stack') = Len(stack) - 1
  <1>1. /\ stack' \in Seq(Frames) /\ Len(stack') = Len(stack) - 1
        /\ \A k \in 1..(Len(stack) - 1) : stack'[k] = stack[k]
        /\ Len(stack) \in Nat /\ \A k \in 1..Len(stack) : stack[k] \in Frames
    BY Stack DEF Return
  <1>2. Len(stack) >= 2
    BY <1>1 DEF Running, TInv, Linked, Top
  <1>3. /\ \A k \in 2..(Len(stack) - 1) :
             k - 1 \in 1..(Len(stack) - 1) /\ k \in 1..(Len(stack) - 1) /\ k \in 2..Len(stack)
        /\ 1 \in 1..(Len(stack) - 1) /\ Len(stack) - 1 \in 1..(Len(stack) - 1)
        /\ Len(stack) \in 2..Len(stack) /\ Len(stack) - 1 >= 1
        /\ Len(stack) - 1 \in 1..Len(stack)
    BY <1>1, <1>2
  <1>4. Linked'
    BY <1>1, <1>3 DEF Running, TInv, Linked, Sits
  <1>5. Top' = stack[Len(stack) - 1]
    BY <1>1, <1>3 DEF Top
  <1>6. stack[Len(stack) - 1].pc \in Below(Top.pc)
    BY <1>3 DEF Running, TInv, Linked, Sits, Top
  <1> QED BY <1>1, <1>2, <1>3, <1>4, <1>5, <1>6

-----------------------------------------------------------------------------
(* The tokenizers.                                                         *)

LEMMA ScanFinds ==
  ASSUME src \in Seq(Lexemes), NEW b \in Nat, NEW o \in Nat, NEW semi \in BOOLEAN,
         NEW t \in Scan(b, o, semi)
  PROVE  /\ t \in GoTokens /\ o <= t.at /\ b + t.at <= Len(src)
         /\ b + t.at < Len(src) => t.tok = IF At(b + t.at) = "\n" THEN ";" ELSE At(b + t.at)
         /\ b + t.at = Len(src) => t.tok = IF semi THEN ";" ELSE "EOF"
         /\ \A d \in o..(t.at - 1) : At(b + d) \in Blanks
  <1> DEFINE S == {d \in o..(Len(src) - b) :
                    At(b + d) \notin (IF semi THEN {" "} ELSE Blanks)}
  <1>1. PICK k \in Least(S) :
          t = [tok |-> IF At(b + k) = "\n" THEN ";"
                       ELSE IF At(b + k) # "" THEN At(b + k)
                       ELSE IF semi THEN ";" ELSE "EOF",
               at  |-> k]
    BY DEF Scan
  <1>2. k \in S /\ \A d \in S : k <= d
    BY <1>1 DEF Least
  <1>3. Len(src) \in Nat BY SourceLexemes
  <1>9. k \in o..(Len(src) - b) BY <1>2
  <1>4. k \in Nat /\ o <= k /\ b + k <= Len(src) /\ b + k \in Int
    <2> HIDE DEF S
    <2> QED BY <1>3, <1>9
  <1>5. /\ b + k < Len(src) => At(b + k) # ""
        /\ b + k = Len(src) => At(b + k) = ""
        /\ At(b + k) \in Lexemes \cup {""}
    <2>1. b + k < Len(src) => b + k \in 0..(Len(src) - 1)
      <3> HIDE DEF S
      <3> QED BY <1>3, <1>4
    <2>2. b + k = Len(src) => b + k \notin 0..(Len(src) - 1)
      <3> HIDE DEF S
      <3> QED BY <1>3, <1>4
    <2> QED BY <1>4, <2>1, <2>2, SourceLexemes
  <1>6. ASSUME NEW d \in o..(k - 1) PROVE At(b + d) \in Blanks
    <2>1. d \in o..(Len(src) - b) /\ ~(k <= d)
      <3> HIDE DEF S
      <3> QED BY <1>3, <1>4
    <2>2. d \notin S BY <1>2, <2>1
    <2> QED BY <2>1, <2>2 DEF Blanks
  <1>7. t.at = k /\ t.tok = IF At(b + k) = "\n" THEN ";"
                            ELSE IF At(b + k) # "" THEN At(b + k)
                            ELSE IF semi THEN ";" ELSE "EOF"
    BY <1>1
  <1>8. t \in GoTokens
    <2> DEFINE x == IF At(b + k) = "\n" THEN ";"
                    ELSE IF At(b + k) # "" THEN At(b + k)
                    ELSE IF semi THEN ";" ELSE "EOF"
    <2>1. x \in Lexemes \cup {";", "EOF"} BY <1>5
    <2>2. t = [tok |-> x, at |-> k] BY <1>1
    <2> HIDE DEF x
    <2> QED BY <1>4, <2>1, <2>2 DEF GoTokens
  <1> HIDE DEF S
  <1> QED BY <1>4, <1>5, <1>6, <1>7, <1>8

LEMMA HtmlFinds ==
  ASSUME src \in Seq(Lexemes), NEW o \in Nat, NEW t \in HtmlAt(o)
  PROVE  /\ t \in [start : Nat, end : Nat] /\ t.start = o /\ o <= t.end
         /\ o < Len(src) => o < t.end /\ t.end <= Len(src)
         /\ \A d \in (o + 1)..(t.end - 1) : At(d) \notin Markup
         /\ At(o) \in Markup => t.end = o + 1
  <1>1. Len(src) \in Nat BY SourceLexemes
  <1>2. CASE o >= Len(src)
    <2>1. t = [start |-> o, end |-> o]
      BY <1>2 DEF HtmlAt
    <2>2. At(o) = ""
      <3>1. o \notin 0..(Len(src) - 1) BY <1>1, <1>2
      <3> QED BY <3>1 DEF At
    <2>3. "" \notin Markup BY LexemesAssumption
    <2>4. ~(o < Len(src)) /\ (\A d \in (o + 1)..(o - 1) : FALSE) /\ o <= o
      BY <1>1, <1>2
    <2>5. t \in [start : Nat, end : Nat] /\ t.start = o /\ t.end = o
      BY <2>1
    <2> QED BY <2>2, <2>3, <2>4, <2>5
  <1>3. CASE o < Len(src)
    <2> DEFINE S == {d \in (o + 1)..Len(src) :
                       At(o) \in Markup \/ d = Len(src) \/ At(d) \in Markup}
    <2>0. ~(o >= Len(src)) BY <1>1, <1>3
    <2>1. PICK e \in Least(S) : t = [start |-> o, end |-> e]
      BY <2>0 DEF HtmlAt
    <2>2. e \in S /\ \A d \in S : e <= d
      BY <2>1 DEF Least
    <2>3. e \in Nat /\ o < e /\ o <= e /\ e <= Len(src)
      BY <1>1, <2>2
    <2>4. ASSUME NEW d \in (o + 1)..(e - 1) PROVE At(d) \notin Markup
      <3>1. d \in (o + 1)..Len(src) /\ ~(e <= d)
        BY <1>1, <2>3
      <3> QED BY <2>2, <3>1
    <2>5. At(o) \in Markup => e = o + 1
      <3>1. o + 1 \in (o + 1)..Len(src)
        BY <1>1, <1>3
      <3>2. At(o) \in Markup => e <= o + 1
        BY <2>2, <3>1
      <3> QED BY <2>3, <3>2
    <2>6. t.start = o /\ t.end = e /\ t \in [start : Nat, end : Nat]
      BY <2>1, <2>3
    <2> HIDE DEF S
    <2> QED BY <2>3, <2>4, <2>5, <2>6
  <1> QED BY <1>1, <1>2, <1>3

LEMMA Types ==
  ASSUME Running
  PROVE  /\ Typed /\ Len(src) \in Nat
         /\ html.start \in Nat /\ html.end \in Nat
         /\ code.base \in Nat /\ code.look \in GoTokens /\ code.acc \in GoTokens
         /\ code.look.at \in Nat /\ code.acc.at \in Nat
         /\ LookAt = code.base + code.look.at /\ LookAt \in Nat
         /\ TokenOffset(code.acc) = code.base + code.acc.at /\ TokenOffset(code.acc) \in Nat
  <1>1. Typed
    BY DEF Running, TInv, TypeOK, Typed, GoParsers, Pieces
  <1>2. /\ html.start \in Nat /\ html.end \in Nat
        /\ code.base \in Nat /\ code.look \in GoTokens /\ code.acc \in GoTokens
    BY <1>1 DEF Typed, GoParsers
  <1>3. code.look.at \in Nat /\ code.acc.at \in Nat
    BY <1>2 DEF GoTokens
  <1>4. LookAt = code.base + code.look.at /\ TokenOffset(code.acc) = code.base + code.acc.at
    BY DEF LookAt, TokenOffset
  <1>5. code.base + code.look.at \in Nat /\ code.base + code.acc.at \in Nat
    BY <1>2, <1>3
  <1>6. Len(src) \in Nat
    BY <1>1, LenProperties DEF Typed
  <1> QED BY <1>1, <1>2, <1>3, <1>4, <1>5, <1>6

LEMMA InvWhole ==
  ASSUME Typed', stack' \in Seq(Frames), Linked', Placed'
  PROVE  TInv'
  BY DEF Typed, TInv, TypeOK, GoParsers, Pieces

\* The parser stops.
LEMMA Stops ==
  ASSUME Running, NEW p \in {"error", "crashed", "done"}, Stop(p), src' = src
  PROVE  TInv' /\ nodes' = nodes /\ phase' = p /\ stack' = stack
  <1>1. UNCHANGED <<src, offset, html, code, stack, nodes>> /\ phase' = p
    BY DEF Stop
  <1>2. Linked' /\ TypeOK'
    BY <1>1 DEF Running, TInv, Linked, TypeOK
  <1> QED BY <1>1, <1>2 DEF TInv

LEMMA FailStops ==
  ASSUME Running, Fail, src' = src
  PROVE  TInv' /\ nodes' = nodes /\ phase' \in {"error", "crashed"} /\ stack' = stack
  <1>1. PICK p \in {"error", "crashed"} : Stop(p)
    BY DEF Fail
  <1> QED BY <1>1, Stops

-----------------------------------------------------------------------------
(* The Go parser's tokens.                                                 *)

LEMMA LookIs ==
  ASSUME Running, Top.pc \in CodePcs
  PROVE  /\ GoodLook
         /\ LookAt < Len(src) \/ LookAt = Len(src)
         /\ Look \notin {";", "EOF"} => LookAt < Len(src) /\ Look = At(LookAt)
         /\ Look = "EOF" => LookAt = Len(src)
         /\ LookAt < Len(src) => Look # "EOF" /\ Width(Look) = 1
         /\ Width(Look) \in Nat /\ Width(Look) >= 1
         /\ Look # "EOF" => Width(Look) = 1
  <1>1. GoodLook BY DEF Running, TInv, Placed
  <1>2. LookAt \in Nat /\ Len(src) \in Nat BY Types
  <1>3. LookAt < Len(src) \/ LookAt = Len(src)
    <2>1. LookAt <= Len(src) BY <1>1 DEF GoodLook
    <2> QED BY <1>2, <2>1
  <1>4. At(LookAt) # "EOF" /\ At(LookAt) # ";"
    <2>1. src \in Seq(Lexemes) BY Types DEF Typed
    <2>2. LookAt \in Int BY <1>2
    <2> QED BY <2>1, <2>2, SourceLexemes
  <1>5. LookAt < Len(src) => Look = IF At(LookAt) = "\n" THEN ";" ELSE At(LookAt)
    BY <1>1 DEF GoodLook
  <1>6. LookAt = Len(src) => Look \in {";", "EOF"}
    BY <1>1 DEF GoodLook
  <1>7. LookAt < Len(src) => Look # "EOF"
    BY <1>4, <1>5
  <1>8. Look \notin {";", "EOF"} => LookAt < Len(src) /\ Look = At(LookAt)
    BY <1>3, <1>5, <1>6
  <1>9. Width(Look) \in {1, 3} /\ (Look # "EOF" => Width(Look) = 1)
    BY DEF Width
  <1>10. Width(Look) \in Nat /\ Width(Look) >= 1
    BY <1>9
  <1> QED BY <1>1, <1>3, <1>6, <1>7, <1>8, <1>9, <1>10

\* From the parser's offset on.
LEMMA Resets ==
  ASSUME src \in Seq(Lexemes), src' = src, NEW o \in Nat, Reset(o), offset' = o
  PROVE  /\ code' \in GoParsers /\ GoodLook' /\ Unread' /\ LookAt' >= o /\ LookAt' \in Nat
         /\ code'.base = o
  <1>1. PICK t \in Scan(o, 0, FALSE) : code' = [base |-> o, look |-> t, acc |-> NoToken]
    BY DEF Reset
  <1>2. /\ t \in GoTokens /\ 0 <= t.at /\ o + t.at <= Len(src)
        /\ o + t.at < Len(src) => t.tok = IF At(o + t.at) = "\n" THEN ";" ELSE At(o + t.at)
        /\ o + t.at = Len(src) => t.tok = "EOF"
        /\ \A d \in 0..(t.at - 1) : At(o + d) \in Blanks
    BY <1>1, ScanFinds
  <1>3. t.at \in Nat BY <1>2 DEF GoTokens
  <1>4. NoToken \in GoTokens
    BY DEF NoToken, GoTokens
  <1>5. code' \in GoParsers
    BY <1>1, <1>2, <1>4 DEF GoParsers
  <1>6. LookAt' = o + t.at /\ Look' = t.tok
    BY <1>1 DEF LookAt, TokenOffset, Look
  <1>7. \A d : At(d)' = At(d) BY DEF At
  <1>8. ASSUME NEW d \in o..(LookAt' - 1) PROVE At(d) \in Blanks
    <2>1. d - o \in 0..(t.at - 1) /\ o + (d - o) = d
      BY <1>3, <1>6
    <2> QED BY <1>2, <2>1
  <1>9. GoodLook'
    BY <1>2, <1>6, <1>7, <1>8 DEF GoodLook
  <1>10. o <= o + t.at /\ o + t.at \in Nat BY <1>3
  <1> QED BY <1>1, <1>5, <1>6, <1>9, <1>10 DEF Unread

LEMMA OneMore == /\ \A m, n \in Nat : m <= n => m <= n + 1
                 /\ \A n \in Nat : n + 1 <= n + 1
  OBVIOUS

LEMMA TokenArith ==
  ASSUME NEW b \in Nat, NEW a \in Nat, NEW t \in Nat, NEW n \in Nat, NEW w \in Nat, w >= 1,
         (IF b + a < n THEN a + 1 ELSE a) <= t, b + t <= n
  PROVE  /\ b + a \in Nat /\ b + t \in Nat /\ b + a <= b + t /\ b + a + w \in Nat
         /\ b + a < n => b + a + 1 <= b + t
         /\ b + a = n => b + t = n /\ ~(b + t < n) /\ b + a + w > b + t
  OBVIOUS

\* To the next token.
LEMMA Advances ==
  ASSUME Running, Top.pc \in CodePcs, Advance, src' = src
  PROVE  /\ offset' \in Nat /\ code' \in GoParsers /\ GoodLook'
         /\ Unread' \/ Look' = "EOF"
         /\ Look # "EOF" => JustRead'
         /\ offset' = LookAt + Width(Look) /\ offset' = PrevEnd'
         /\ code'.acc = code.look /\ code'.base = code.base
         /\ LookAt' \in Nat /\ LookAt <= LookAt'
         /\ LookAt < Len(src) => LookAt + 1 <= LookAt' /\ offset' = LookAt + 1
         /\ Look \notin {";", "EOF"} => offset' <= LookAt'
  <1>1. PICK t \in NextTokens : code' = [code EXCEPT !.look = t, !.acc = code.look]
    BY DEF Advance
  <1> DEFINE b == code.base
             o == IF b + code.look.at < Len(src) THEN code.look.at + 1 ELSE code.look.at
             semi == InsertsSemi(Look)
  <1>2. /\ b \in Nat /\ code.look.at \in Nat /\ code \in GoParsers /\ src \in Seq(Lexemes)
        /\ Len(src) \in Nat /\ LookAt = b + code.look.at /\ code.look \in GoTokens
    BY Types DEF Typed
  <1>3. o \in Nat /\ semi \in BOOLEAN
    BY <1>2 DEF InsertsSemi
  <1>4. t \in Scan(b, o, semi)
    BY <1>1 DEF NextTokens
  <1>5. /\ t \in GoTokens /\ o <= t.at /\ b + t.at <= Len(src)
        /\ b + t.at < Len(src) => t.tok = IF At(b + t.at) = "\n" THEN ";" ELSE At(b + t.at)
        /\ b + t.at = Len(src) => t.tok = IF semi THEN ";" ELSE "EOF"
        /\ \A d \in o..(t.at - 1) : At(b + d) \in Blanks
    <2>1. b \in Nat /\ src \in Seq(Lexemes) BY <1>2
    <2> HIDE DEF o, semi, b
    <2> QED BY <2>1, <1>3, <1>4, ScanFinds, ZenonT(60)
  <1>6. t.at \in Nat BY <1>5 DEF GoTokens
  <1>7. code' \in GoParsers
    BY <1>1, <1>2, <1>5 DEF GoParsers
  <1>8. /\ code'.look = t /\ code'.acc = code.look /\ code'.base = b
    BY <1>1, <1>2 DEF GoParsers
  <1>9. LookAt' = b + t.at /\ Look' = t.tok
    BY <1>8 DEF LookAt, TokenOffset, Look
  <1>10. offset' = LookAt + Width(Look)
    BY DEF Advance, Sync, LookAt
  <1>11. /\ LookAt < Len(src) \/ LookAt = Len(src)
         /\ Look \notin {";", "EOF"} => LookAt < Len(src)
         /\ LookAt < Len(src) => Width(Look) = 1
         /\ LookAt = Len(src) => Look \in {";", "EOF"}
         /\ Width(Look) \in Nat /\ Width(Look) >= 1
    BY LookIs DEF GoodLook
  <1>12. PrevEnd' = offset'
    BY <1>8, <1>10 DEF PrevEnd, LookAt, TokenOffset, Look
  <1>13. /\ LookAt \in Nat /\ LookAt' \in Nat /\ LookAt <= LookAt' /\ offset' \in Nat
         /\ LookAt < Len(src) => LookAt + 1 <= LookAt'
         /\ LookAt = Len(src) => /\ LookAt' = Len(src) /\ ~(LookAt' < Len(src))
                                 /\ offset' > LookAt'
    <2> DEFINE a == code.look.at
               u == t.at
               n == Len(src)
               w == Width(Look)
    <2>1. /\ b \in Nat /\ a \in Nat /\ u \in Nat /\ n \in Nat /\ w \in Nat /\ w >= 1
          /\ (IF b + a < n THEN a + 1 ELSE a) <= u /\ b + u <= n
      BY <1>2, <1>5, <1>6, <1>11
    <2>2. LookAt = b + a /\ LookAt' = b + u /\ offset' = b + a + w
      BY <1>2, <1>9, <1>10
    <2> HIDE DEF a, b, u, n, w, o, semi
    <2>3. /\ b + a \in Nat /\ b + u \in Nat /\ b + a <= b + u /\ b + a + w \in Nat
          /\ b + a < n => b + a + 1 <= b + u
          /\ b + a = n => b + u = n /\ ~(b + u < n) /\ b + a + w > b + u
      BY <2>1, TokenArith
    <2>4. n = Len(src) BY DEF n
    <2> QED BY <2>2, <2>3, <2>4
  <1>14. LookAt < Len(src) => /\ LookAt + 1 <= LookAt' /\ offset' = LookAt + 1
                              /\ o = code.look.at + 1 /\ b + o = offset'
    <2> SUFFICES ASSUME LookAt < Len(src)
                 PROVE  offset' = LookAt + 1 /\ o = code.look.at + 1 /\ b + o = offset'
      BY <1>13
    <2>1. offset' = LookAt + 1 BY <1>10, <1>11
    <2>2. o = code.look.at + 1 BY <1>2
    <2>3. b + (code.look.at + 1) = (b + code.look.at) + 1
      BY <1>2
    <2> QED BY <1>2, <2>1, <2>2, <2>3
  <1>15. \A d : At(d)' = At(d) BY DEF At
  <1>16. CASE LookAt < Len(src)
    <2>1. ASSUME NEW d \in offset'..(LookAt' - 1) PROVE At(d) \in Blanks
      <3>1. d - b \in o..(t.at - 1) /\ b + (d - b) = d
        <4>1. \A x, y, z \in Nat : \A i \in (x + y)..(x + z - 1) :
                i - x \in y..(z - 1) /\ x + (i - x) = i
          OBVIOUS
        <4>2. b \in Nat /\ offset' = b + o /\ LookAt' = b + t.at
          BY <1>2, <1>9, <1>14, <1>16
        <4> HIDE DEF b, o
        <4> QED BY <1>3, <1>6, <2>1, <4>1, <4>2
      <3> QED BY <1>5, <3>1
    <2>2. GoodLook'
      BY <1>5, <1>9, <1>15, <2>1 DEF GoodLook
    <2>3. offset' <= LookAt' BY <1>13, <1>14, <1>16
    <2>4. offset' <= LookAt' + 1
      <3>1. offset' \in Nat /\ LookAt' \in Nat
        BY <1>13
      <3> QED BY <2>3, <3>1, OneMore
    <2> QED
      BY <1>7, <1>8, <1>10, <1>12, <1>13, <1>14, <1>16, <2>2, <2>3, <2>4 DEF Unread, JustRead
  <1>17. CASE LookAt = Len(src)
    <2>1. /\ LookAt' = Len(src) /\ ~(LookAt < Len(src)) /\ offset' > LookAt'
          /\ ~(LookAt' < Len(src))
      <3>1. Len(src) \in Nat BY <1>2
      <3>2. ~(LookAt < Len(src)) BY <1>17, <3>1
      <3> QED BY <1>13, <1>17, <3>2
    <2>2. Look' = "EOF"
      <3>1. ~semi
        <4>1. ";" \notin Names /\ "EOF" \notin Names
          BY LexemesAssumption
        <4>2. Look \in {";", "EOF"} BY <1>11, <1>17
        <4> QED BY <4>1, <4>2 DEF InsertsSemi, Idents
      <3> QED BY <1>5, <1>9, <2>1, <3>1
    <2>3. \A d \in offset'..(LookAt' - 1) : FALSE
      BY <1>13, <2>1
    <2>4. GoodLook'
      BY <1>15, <2>1, <2>2, <2>3 DEF GoodLook
    <2>5. Look # "EOF" => offset' <= LookAt' + 1
      <3>1. Look # "EOF" => Width(Look) = 1
        BY LookIs
      <3>2. LookAt = LookAt' /\ LookAt' \in Nat
        BY <1>13, <1>17, <2>1
      <3>3. Look # "EOF" => offset' = LookAt' + 1
        BY <1>10, <3>1, <3>2
      <3>4. LookAt' + 1 <= LookAt' + 1
        BY <3>2, OneMore
      <3> QED BY <3>3, <3>4
    <2> QED BY <1>7, <1>8, <1>10, <1>11, <1>12, <1>13, <2>1, <2>2, <2>4, <2>5 DEF JustRead
  <1> QED BY <1>11, <1>16, <1>17

-----------------------------------------------------------------------------
(* Where a step leads.                                                     *)

LEMMA Placing ==
  ASSUME GoodLook', Top'.pc \in CodePcs
  PROVE  /\ Top'.pc \in {"after", "close", "else"} /\ JustRead' => Placed'
         /\ Top'.pc \in Plain /\ Unread' => Placed'
         /\ /\ Top'.pc \in Scans /\ (Unread' \/ Look' = "EOF")
            /\ Top'.from <= LookAt' /\ offset' = PrevEnd'
            /\ offset' <= Top'.from \/ Top'.from <= TokenOffset(code.acc)'
            => Placed'
         /\ /\ Top'.pc \in Expressing
            /\ Unread' \/ (Look' = "EOF" /\ Top'.pc \in {"call", "index"})
            /\ Top'.from <= Top'.end /\ Top'.end <= offset'
            => Placed'
         /\ /\ Top'.pc = "member" /\ Unread' /\ Top'.from <= Top'.end
            /\ Top'.end <= LookAt' + 1 /\ Look' \in Idents
            => Placed'
         /\ Top'.pc = "path" /\ Unread' /\ Top'.from < offset' => Placed'
  BY PcNames DEF Placed, Plain, CodePcList, Expressing

LEMMA NodeTypes ==
  ASSUME NEW kind \in Kinds, NEW a \in Nat, NEW b \in Int
  PROVE  Node(kind, a, b) \in Pieces
  BY DEF Node, Pieces

LEMMA AddTypes ==
  ASSUME Running, NEW more \in Seq(Pieces), Add(more)
  PROVE  nodes' \in Seq(Pieces)
  BY Types, ConcatProperties DEF Typed, Add

LEMMA NodesTyped ==
  ASSUME Running
  PROVE  /\ UNCHANGED nodes => nodes' \in Seq(Pieces)
         /\ \A kind \in Kinds, a \in Nat, b \in Int :
              Add(<<Node(kind, a, b)>>) => nodes' \in Seq(Pieces)
  <1>1. UNCHANGED nodes => nodes' \in Seq(Pieces)
    BY Types DEF Typed
  <1>2. ASSUME NEW kind \in Kinds, NEW a \in Nat, NEW b \in Int,
               Add(<<Node(kind, a, b)>>)
        PROVE  nodes' \in Seq(Pieces)
    <2> DEFINE n == Node(kind, a, b)
    <2>1. n \in Pieces BY NodeTypes
    <2> HIDE DEF n
    <2>2. <<n>> \in Seq(Pieces) BY <2>1
    <2>3. Add(<<n>>) BY <1>2 DEF n
    <2> QED BY <2>2, <2>3, AddTypes
  <1> QED BY <1>1, <1>2

LEMMA FloorRules == FloorRule
  BY PcNames DEF FloorRule, Floor, Expressing

LEMMA NextFloorRules == FloorRule'
  BY PcNames DEF FloorRule, Floor, Expressing

LEMMA Adds ==
  ASSUME NEW kind \in Kinds, NEW a \in Nat, NEW b \in Int, Add(<<Node(kind, a, b)>>),
         Floor <= a, b <= Floor' \/ (kind = "import" /\ a + 1 < b /\ a <= Floor')
  PROVE  Orderly
  <1> DEFINE n == Node(kind, a, b)
  <1>1. n \in Pieces /\ n.from = a /\ n.to = b /\ n.kind = kind
    BY NodeTypes DEF Node
  <1>2. Add(<<n>>) OBVIOUS
  <1> HIDE DEF n
  <1> QED BY <1>1, <1>2 DEF Orderly

LEMMA Failing == ASSUME Running, Fail, src' = src PROVE Sound
  BY FailStops DEF Sound

LEMMA Order == /\ \A a, b, c \in Int : a <= b /\ b <= c => a <= c
               /\ \A a \in Int : a <= a /\ a <= a + 1 /\ a < a + 1
               /\ \A a, b \in Int : a <= b => a <= b + 1 /\ a + 1 <= b + 1
               /\ \A a, b \in Int : a < b <=> a + 1 <= b
               /\ \A a \in Nat : a \in Int /\ a + 1 \in Nat /\ a + 1 \in Int /\ a <= a
  OBVIOUS

\* The frame that runs on Go's side, and the floor.
LEMMA AtCode ==
  ASSUME Running, Top.pc \in CodePcs
  PROVE  /\ Top.from \in Nat /\ Top.end \in Nat /\ Top.depth \in Int
         /\ Top \in Frames /\ offset \in Nat
         /\ Top.pc \in {"after", "close", "else"} => offset <= LookAt + 1 /\ Floor = offset
         /\ Top.pc \in Plain => offset <= LookAt
         /\ Top.pc \in Plain \ {"block"} => Floor = offset
         /\ Top.pc = "block" => Floor = LookAt + 1
         /\ Top.pc \in Scans => /\ Floor = Top.from /\ Top.from <= LookAt /\ offset = PrevEnd
                                /\ offset <= Top.from \/ Top.from <= TokenOffset(code.acc)
                                /\ Look # "EOF" => offset <= LookAt
         /\ Top.pc \in Expressing => /\ Floor = Top.from /\ Top.from <= Top.end
                                     /\ Top.end <= offset
                                     /\ Look # "EOF" \/ Top.pc \in {"name", "named"}
                                        => offset <= LookAt
         /\ Top.pc = "member" => /\ Floor = Top.from /\ Top.from <= Top.end
                                 /\ Top.end <= LookAt + 1 /\ offset <= LookAt
                                 /\ Look \in Idents
         /\ Top.pc = "path" => Floor = Top.from /\ Top.from < offset /\ offset <= LookAt
  <1>1. Top \in Frames BY Stack
  <1>2. Placed BY DEF Running, TInv
  <1>3. offset \in Nat BY Types DEF Typed
  <1>4. Top.from \in Nat /\ Top.end \in Nat /\ Top.depth \in Int
    BY <1>1 DEF Frames
  <1>5. FloorRule BY FloorRules
  <1> QED
    BY <1>1, <1>2, <1>3, <1>4, <1>5, PcNames
       DEF Placed, FloorRule, Plain, CodePcList, Expressing, Unread, JustRead

LEMMA FloorAtLook ==
  ASSUME Running, Top.pc \in CodePcs, Look # "EOF"
  PROVE  /\ Floor \in Nat /\ Floor <= LookAt + 1
         /\ Top.pc \in CodePcs \ {"after", "close", "else", "block", "member"} => Floor <= LookAt
         /\ LookAt \in Nat
  <1>1. LookAt \in Nat BY Types
  <1>2. LookAt + 1 \in Nat BY <1>1
  <1>3. CASE Top.pc \in Expressing
    <2>1. Top.from <= Top.end /\ Top.end <= offset /\ offset <= LookAt /\ Floor = Top.from
          /\ Top.from \in Nat /\ Top.end \in Nat /\ offset \in Nat
      BY <1>3, AtCode
    <2>2. Top.from <= LookAt BY <1>1, <2>1
    <2>3. Top.from <= LookAt + 1 BY <1>1, <2>1, <2>2
    <2> QED BY <1>1, <1>3, <2>1, <2>2, <2>3
  <1>4. CASE Top.pc = "member"
    <2>1. Top.from <= Top.end /\ Top.end <= LookAt + 1 /\ Floor = Top.from
          /\ Top.from \in Nat /\ Top.end \in Nat
      BY <1>4, AtCode
    <2>2. Top.from <= LookAt + 1 BY <1>2, <2>1
    <2> QED BY <1>1, <1>4, <2>1, <2>2
  <1>5. CASE Top.pc \in {"after", "close", "else"}
    BY <1>1, <1>5, AtCode
  <1>6. CASE Top.pc = "block"
    <2>1. Floor = LookAt + 1 BY <1>6, AtCode
    <2> QED BY <1>1, <1>2, <1>6, <2>1
  <1>7. CASE Top.pc \in Scans \cup {"path"}
    <2>1. /\ Floor = Top.from /\ Top.from \in Nat /\ offset \in Nat
          /\ Top.from <= LookAt \/ (Top.from < offset /\ offset <= LookAt)
      BY <1>7, AtCode
    <2>2. Top.from <= LookAt /\ Top.from <= LookAt + 1
      BY <1>1, <2>1
    <2> QED BY <1>1, <2>1, <2>2
  <1>8. CASE Top.pc \in Plain \ {"block"}
    <2>1. Floor = offset /\ offset <= LookAt /\ offset \in Nat
      BY <1>8, AtCode
    <2>2. offset <= LookAt + 1 BY <1>1, <2>1
    <2> QED BY <1>1, <2>1, <2>2
  <1> QED BY <1>3, <1>4, <1>5, <1>6, <1>7, <1>8, PcNames DEF Plain, CodePcList, Expressing

LEMMA LookIsInt ==
  ASSUME Running
  PROVE  /\ LookAt \in Nat /\ LookAt + 1 \in Nat /\ LookAt \in Int /\ LookAt + 1 \in Int
         /\ \A n \in Nat : LookAt <= n => LookAt + 1 <= n + 1 /\ n + 1 \in Nat
  BY Types, SMTT(60)

\* The next token is read, and the frame is one that the one after it concerns.
LEMMA StepsOn ==
  ASSUME Running, Top.pc \in CodePcs, Look \notin {"EOF"},
         Advance, Code, UNCHANGED phase, nodes' \in Seq(Pieces),
         NEW f \in Frames, Become(f),
         Leads(f)
  PROVE  /\ TInv' /\ Floor' \in Nat /\ LookAt + 1 <= Floor'
  <1>1. /\ offset' \in Nat /\ code' \in GoParsers /\ GoodLook'
        /\ JustRead' /\ (Look # ";" => Unread' /\ offset' = LookAt + 1)
        /\ offset' = LookAt + Width(Look) /\ Width(Look) = 1
        /\ LookAt' \in Nat /\ LookAt <= LookAt'
        /\ Look # ";" => LookAt + 1 <= LookAt'
    <2>1. src' = src BY DEF Code
    <2>2. Look # ";" => LookAt < Len(src) BY LookIs
    <2> QED BY <2>1, <2>2, Advances, LookIs DEF Unread
  <1>2. Typed' BY <1>1, Types DEF Typed, Code
  <1>3. f.pc \in CodePcs
    BY PcNames DEF Leads, Plain, CodePcList
  <1>4. /\ stack' \in Seq(Frames) /\ Linked' /\ Top' = f
    BY <1>3, Becomes
  <1>5. Placed'
    BY <1>1, <1>3, <1>4, Placing DEF Leads
  <1>6. TInv' BY <1>2, <1>4, <1>5, InvWhole
  <1>7. LookAt + 1 <= LookAt' + 1 /\ LookAt' + 1 \in Nat /\ LookAt + 1 <= LookAt + 1
    BY <1>1, LookIsInt, Order
  <1>8. CASE f.pc = "block"
    <2>1. Floor' = LookAt' + 1
      BY <1>4, <1>8, NextFloorRules DEF FloorRule
    <2> QED BY <1>6, <1>7, <2>1
  <1>9. CASE f.pc # "block"
    <2>1. Floor' = offset'
      <3>1. f.pc \notin {"children", "element", "block", "member", "path"} \cup Scans \cup Expressing
        BY <1>9, PcNames DEF Leads, Plain, CodePcList, Expressing
      <3> QED BY <1>4, <3>1, NextFloorRules DEF FloorRule
    <2>2. offset' = LookAt + 1 BY <1>1
    <2> QED BY <1>1, <1>6, <1>7, <2>1, <2>2
  <1> QED BY <1>8, <1>9

LEMMA StepsSound ==
  ASSUME Running, Top.pc \in CodePcs, NEW S, Look \in S, "EOF" \notin S,
         Step(Top.pc, S), NEW f \in Frames, Become(f),
         Leads(f)
  PROVE  Sound
  <1>1. Advance /\ Code /\ UNCHANGED phase /\ UNCHANGED nodes
    BY DEF Step
  <1>2. nodes' \in Seq(Pieces) BY <1>1, NodesTyped
  <1>3. Look # "EOF" OBVIOUS
  <1>4. TInv' /\ Floor' \in Nat /\ LookAt + 1 <= Floor'
    BY <1>1, <1>2, <1>3, StepsOn
  <1>5. Floor \in Nat /\ Floor <= LookAt + 1 /\ LookAt \in Nat
    BY <1>3, FloorAtLook
  <1>6. LookAt + 1 \in Int BY LookIsInt
  <1>7. Floor <= Floor' BY <1>4, <1>5, <1>6, Order
  <1> QED BY <1>1, <1>4, <1>7 DEF Sound, Orderly

\* The frame that runs returns.
LEMMA ReturnsOn ==
  ASSUME Running, Top.pc \in CodePcs, Return, Code, UNCHANGED phase,
         nodes' \in Seq(Pieces), offset' \in Nat, code' \in GoParsers, GoodLook', JustRead'
  PROVE  TInv' /\ Floor' = offset' /\ Top'.pc \in Callables
  <1>1. Typed' BY Types DEF Typed, Code
  <1>2. Top.pc \notin {"document", "attribute"}
    BY PcNames DEF CodePcList
  <1>3. /\ stack' \in Seq(Frames) /\ Linked' /\ Top'.pc \in Callables
    BY <1>2, Returns, BelowCode
  <1>4. Placed'
    <2>1. CASE Top'.pc \in {"after", "else"}
      <3>1. Top'.pc \in CodePcs
        BY <2>1, PcNames DEF CodePcList
      <3> QED BY <2>1, <3>1, Placing
    <2>2. CASE Top'.pc \in {"document", "attribute", "resume"}
      BY <2>2, PcNames DEF Placed, CodePcList, Expressing
    <2> QED BY <1>3, <2>1, <2>2 DEF Callables
  <1>5. Floor' = offset'
    BY <1>3, PcNames, NextFloorRules DEF FloorRule, Callables, Expressing
  <1> QED BY <1>1, <1>3, <1>4, <1>5, InvWhole

\* A scan begins at the next token.
LEMMA ScansStart ==
  ASSUME Running, Top.pc \in CodePcs, NEW S, Look \in S, "EOF" \notin S, ";" \notin S,
         Step(Top.pc, S), NEW pc \in Scans, Scanning(pc)
  PROVE  Sound
  <1> DEFINE f == [Frame(pc) EXCEPT !.from = code'.base + code'.look.at, !.depth = 1]
  <1>1. Advance /\ Code /\ UNCHANGED phase /\ UNCHANGED nodes /\ Look \notin {";", "EOF"}
    BY DEF Step
  <1>2. /\ offset' \in Nat /\ code' \in GoParsers /\ GoodLook'
        /\ offset' = LookAt + 1 /\ offset' = PrevEnd' /\ offset' <= LookAt'
        /\ LookAt' \in Nat /\ LookAt + 1 <= LookAt'
    <2>1. src' = src /\ LookAt < Len(src)
      BY <1>1, LookIs DEF Code
    <2> QED BY <1>1, <2>1, Advances
  <1>3. Typed'
    BY <1>1, <1>2, Types, NodesTyped DEF Typed, Code
  <1>4. LookAt' = code'.base + code'.look.at
    BY DEF LookAt, TokenOffset
  <1>5. f \in Frames /\ f.pc = pc /\ f.from = LookAt' /\ pc \in CodePcs
    <2>1. pc \in Pcs /\ pc \in CodePcs
      BY PcNames DEF CodePcList
    <2>2. Frame(pc) \in Frames /\ Frame(pc).pc = pc
      BY <2>1, FrameType
    <2>3. f = [Frame(pc) EXCEPT !.from = LookAt', !.depth = 1]
      BY <1>4
    <2> HIDE DEF f
    <2> DEFINE g == Frame(pc)
               l == LookAt'
    <2>4. [g EXCEPT !.from = l, !.depth = 1] \in Frames
      <3>1. g \in Frames /\ l \in Nat BY <1>2, <2>2
      <3> HIDE DEF g, l
      <3> QED BY <3>1, FrameChanges
    <2> QED BY <2>1, <2>2, <2>3, <2>4 DEF Frames
  <1>6. Become(f) BY DEF Scanning
  <1> HIDE DEF f
  <1>7. /\ stack' \in Seq(Frames) /\ Linked' /\ Top' = f
    BY <1>5, <1>6, Becomes
  <1>8. Unread' /\ LookAt' <= LookAt'
    <2>1. LookAt' \in Nat /\ offset' <= LookAt'
      BY <1>2
    <2> QED BY <2>1, Order DEF Unread
  <1>9. Placed' BY <1>2, <1>5, <1>7, <1>8, Placing
  <1>10. TInv' BY <1>3, <1>7, <1>9, InvWhole
  <1>11. Floor' = LookAt'
    BY <1>5, <1>7, NextFloorRules DEF FloorRule
  <1>12. Floor \in Nat /\ Floor <= LookAt + 1
    BY <1>1, FloorAtLook
  <1>13. Floor <= Floor'
    <2>1. Floor \in Int /\ LookAt + 1 \in Int /\ LookAt' \in Int
      BY <1>2, <1>12, LookIsInt, Order
    <2>2. Floor <= LookAt'
      BY <1>2, <1>12, <2>1, Order
    <2> QED BY <1>11, <2>2
  <1> QED BY <1>1, <1>10, <1>13 DEF Sound, Orderly

\* How far a scan has come.
LEMMA Reads ==
  ASSUME Running, Top.pc \in Scans, Look # "EOF"
  PROVE  /\ MaxRead \in Nat /\ MaxRead <= LookAt + 1
         /\ PrevEnd = offset /\ offset \in Nat /\ offset <= LookAt /\ offset <= LookAt + 1
         /\ Top.from \in Nat /\ Floor = Top.from /\ Top.from <= Top.from
         /\ Top.from <= LookAt /\ LookAt \in Nat
  <1>1. Top.pc \in CodePcs BY PcNames DEF CodePcList
  <1>2. /\ Top.from \in Nat /\ Floor = Top.from /\ offset = PrevEnd
        /\ offset \in Nat /\ offset <= LookAt /\ Top.from <= LookAt
    BY <1>1, AtCode
  <1>3. LookAt \in Nat /\ LookAt + 1 \in Nat
    BY LookIsInt
  <1>4. offset <= LookAt + 1 /\ Top.from <= Top.from /\ LookAt + 1 <= LookAt + 1
    BY <1>2, <1>3, Order
  <1>5. MaxRead = PrevEnd \/ MaxRead = LookAt + Width(Look)
    BY DEF MaxRead, PrevEnd, LookAt, Look
  <1>6. Width(Look) = 1 BY <1>1, LookIs
  <1> QED BY <1>2, <1>3, <1>4, <1>5, <1>6

LEMMA ScanTokenSound ==
  ASSUME Running, NEW pc \in Scans, ScanToken(pc)
  PROVE  Sound
  <1>1. Top.pc = pc /\ pc \in CodePcs
    BY PcNames DEF ScanToken, In, Fails, CodePcList
  <1>2. CASE Fails(pc, EndsScan(pc))
    BY <1>2, Failing DEF Fails
  <1>3. CASE ~Fails(pc, EndsScan(pc))
    <2> DEFINE f == [Top EXCEPT !.depth = Depth(pc)]
    <2>1. Advance /\ Become(f) /\ Code /\ UNCHANGED phase /\ UNCHANGED nodes
      BY <1>3 DEF ScanToken
    <2>2. src' = src BY <2>1 DEF Code
    <2>3. /\ offset' \in Nat /\ code' \in GoParsers /\ GoodLook'
          /\ Unread' \/ Look' = "EOF"
          /\ offset' = PrevEnd' /\ code'.acc = code.look /\ code'.base = code.base
          /\ LookAt' \in Nat /\ LookAt <= LookAt'
      BY <1>1, <2>1, <2>2, Advances
    <2>4. Typed'
      BY <2>1, <2>3, Types, NodesTyped DEF Typed, Code
    <2>5. /\ Top \in Frames /\ Top.from \in Nat /\ Top.depth \in Int /\ Floor = Top.from
          /\ Top.from <= LookAt
      BY <1>1, AtCode
    <2>6. Depth(pc) \in Int BY <2>5 DEF Depth
    <2>7. f \in Frames /\ f.pc = pc /\ f.from = Top.from
      BY <1>1, <2>5, <2>6 DEF Frames
    <2> HIDE DEF f
    <2>8. /\ stack' \in Seq(Frames) /\ Linked' /\ Top' = f
      BY <1>1, <2>1, <2>7, Becomes
    <2>9. TokenOffset(code.acc)' = LookAt
      BY <2>3 DEF TokenOffset, LookAt
    <2>10. Top.from <= LookAt' /\ Top.from <= Top.from
      BY <2>3, <2>5, LookIsInt, Order
    <2>11. Placed'
      BY <1>1, <2>3, <2>5, <2>7, <2>8, <2>9, <2>10, Placing
    <2>12. Floor' = Floor /\ Floor <= Floor'
      BY <2>5, <2>7, <2>8, <2>10, NextFloorRules DEF FloorRule
    <2> QED BY <2>1, <2>4, <2>8, <2>11, <2>12, InvWhole DEF Sound, Orderly
  <1> QED BY <1>2, <1>3

\* The token is there already, and is not read.
LEMMA Unchanged ==
  ASSUME Running, Top.pc \in CodePcs, src' = src, UNCHANGED <<offset, code>>
  PROVE  /\ GoodLook' /\ LookAt' = LookAt /\ Look' = Look /\ offset' \in Nat
         /\ code' \in GoParsers /\ LookAt' + 1 = LookAt + 1
         /\ Unread = Unread' /\ JustRead = JustRead'
         /\ offset <= LookAt => Unread' /\ JustRead'
         /\ offset <= LookAt + 1 => JustRead'
  <1>1. GoodLook BY LookIs
  <1>2. \A d : At(d)' = At(d) BY DEF At
  <1>3. LookAt' = LookAt /\ Look' = Look
    BY DEF LookAt, TokenOffset, Look
  <1>4. GoodLook' BY <1>1, <1>2, <1>3 DEF GoodLook
  <1>5. offset \in Nat /\ LookAt \in Nat /\ code \in GoParsers
    BY Types DEF Typed
  <1>6. offset <= LookAt => offset <= LookAt + 1
    BY <1>5, Order
  <1>7. LookAt' + 1 = LookAt + 1 /\ offset' = offset /\ code' = code
    BY <1>3
  <1> QED BY <1>3, <1>4, <1>5, <1>6, <1>7 DEF Unread, JustRead

\* Returning before or after the next token.
LEMMA ReturnsAt ==
  ASSUME Running, Top.pc \in CodePcs, Return, Code, UNCHANGED <<phase, offset, code>>,
         nodes' \in Seq(Pieces), offset <= LookAt + 1
  PROVE  TInv' /\ Floor' = offset
  <1>1. src' = src /\ UNCHANGED phase /\ UNCHANGED <<offset, code>>
    BY DEF Code
  <1>2. GoodLook' /\ JustRead' /\ offset' \in Nat /\ code' \in GoParsers /\ offset' = offset
    BY <1>1, Unchanged
  <1> QED BY <1>1, <1>2, ReturnsOn

LEMMA ReturnsPast ==
  ASSUME Running, Top.pc \in CodePcs, Return, Code, UNCHANGED phase, Advance,
         nodes' \in Seq(Pieces), Look # "EOF"
  PROVE  TInv' /\ Floor' = LookAt + 1
  <1>1. src' = src BY DEF Code
  <1>2. /\ GoodLook' /\ JustRead' /\ offset' \in Nat /\ code' \in GoParsers
        /\ offset' = LookAt + 1
    <2>1. offset' = LookAt + Width(Look) /\ Width(Look) = 1
      BY <1>1, Advances, LookIs
    <2> QED BY <1>1, <2>1, Advances
  <1> QED BY <1>2, ReturnsOn

\* Staying before the next token.
LEMMA StaysAt ==
  ASSUME Running, Top.pc \in CodePcs, Code, UNCHANGED <<phase, offset, code>>,
         nodes' \in Seq(Pieces), stack' \in Seq(Frames), Linked',
         \/ Top'.pc = "close" /\ offset <= LookAt + 1
         \/ Top'.pc = "block" /\ offset <= LookAt
  PROVE  TInv' /\ Floor' = IF Top'.pc = "close" THEN offset ELSE LookAt + 1
  <1>1. src' = src /\ UNCHANGED <<offset, code>>
    BY DEF Code
  <1>2. /\ GoodLook' /\ offset' \in Nat /\ code' \in GoParsers /\ offset' = offset
        /\ LookAt' + 1 = LookAt + 1
        /\ offset <= LookAt => Unread'
        /\ offset <= LookAt + 1 => JustRead'
    BY <1>1, Unchanged
  <1>3. Typed' BY <1>2, Types DEF Typed, Code
  <1>4. CASE Top'.pc = "close" /\ offset <= LookAt + 1
    <2>1. Top'.pc \in CodePcs
      BY <1>4, PcNames DEF CodePcList
    <2>2. Placed' BY <1>2, <1>4, <2>1, Placing
    <2>3. Floor' = offset
      BY <1>2, <1>4, PcNames, NextFloorRules DEF FloorRule, Expressing
    <2> QED BY <1>3, <1>4, <2>2, <2>3, InvWhole
  <1>5. CASE Top'.pc = "block" /\ offset <= LookAt
    <2>1. Top'.pc \in CodePcs /\ Top'.pc \in Plain
      BY <1>5, PcNames DEF CodePcList, Plain, Expressing
    <2>2. Placed' BY <1>2, <1>5, <2>1, Placing
    <2>3. Floor' = LookAt + 1
      BY <1>2, <1>5, NextFloorRules DEF FloorRule
    <2> QED BY <1>3, <1>5, <2>2, <2>3, InvWhole
  <1> QED BY <1>4, <1>5

LEMMA FoundTypes ==
  ASSUME Running, NEW kind \in Kinds, NEW a \in Nat, NEW b \in Nat, Found(kind, a, b)
  PROVE  nodes' \in Seq(Pieces) /\ Code /\ UNCHANGED phase /\ Add(<<Node(kind, a, b)>>)
  <1>1. Add(<<Node(kind, a, b)>>) /\ Code /\ UNCHANGED phase
    BY DEF Found
  <1>2. b \in Int BY Order
  <1> QED BY <1>1, <1>2, NodesTyped

LEMMA FoundSound ==
  ASSUME Running, NEW kind \in Kinds, NEW a \in Nat, NEW b \in Nat, Found(kind, a, b),
         Floor <= a, b <= Floor' \/ (kind = "import" /\ a + 1 < b /\ a <= Floor'), TInv'
  PROVE  Sound
  <1>1. Add(<<Node(kind, a, b)>>) BY DEF Found
  <1>2. b \in Int BY Order
  <1> QED BY <1>1, <1>2, Adds DEF Sound

LEMMA CondDoneSound ==
  ASSUME Running, CondDone
  PROVE  Sound
  <1>1. Top.pc = "cond" /\ Top.pc \in Scans /\ Top.pc \in CodePcs /\ Look # "EOF"
    BY PcNames DEF CondDone, Closed, In, CodePcList, Closer
  <1>2. CASE ~Parses(Top.from, MaxRead)
    BY <1>2, Failing DEF CondDone
  <1>3. CASE Parses(Top.from, MaxRead)
    <2>1. /\ Found("expr", Top.from, MaxRead) /\ Call(Frame("block"), Frame("else"))
          /\ UNCHANGED <<offset, code>>
      BY <1>3 DEF CondDone
    <2>2. /\ MaxRead \in Nat /\ MaxRead <= LookAt + 1 /\ Top.from \in Nat
          /\ Floor <= Top.from /\ offset <= LookAt
      BY <1>1, Reads
    <2>3. "expr" \in Kinds BY DEF Kinds
    <2>4. nodes' \in Seq(Pieces) /\ Code /\ UNCHANGED <<phase, offset, code>>
      BY <2>1, <2>2, <2>3, FoundTypes
    <2>5. Frame("block") \in Frames /\ Frame("else") \in Frames
          /\ Frame("block").pc = "block" /\ Frame("else").pc = "else"
      BY FrameType, PcNames DEF CodePcList
    <2>6. Replaces(Frame("else")) /\ "else" \in Below("block")
      <3>1. Len(stack) # 1
        BY <1>1 DEF Running, TInv, Linked, Top
      <3>2. {"else", "cond", "block"} \subseteq CodePcs
        BY PcNames DEF CodePcList
      <3> QED BY <1>1, <2>5, <3>1, <3>2, BelowCode DEF Replaces, Callables
    <2>7. stack' \in Seq(Frames) /\ Linked' /\ Top' = Frame("block")
      BY <2>1, <2>5, <2>6, Calls
    <2>8. TInv' /\ Floor' = LookAt + 1
      BY <1>1, <2>2, <2>4, <2>5, <2>7, StaysAt
    <2> QED BY <2>1, <2>2, <2>3, <2>8, FoundSound
  <1> QED BY <1>2, <1>3

LEMMA ClauseDoneSound ==
  ASSUME Running, ClauseDone
  PROVE  Sound
  <1>1. Top.pc = "clause" /\ Top.pc \in Scans /\ Top.pc \in CodePcs /\ Look # "EOF"
    BY PcNames DEF ClauseDone, Closed, In, CodePcList, Closer
  <1>2. CASE PrevEnd < Top.from
    BY <1>2, Stops DEF ClauseDone, Sound
  <1>3. CASE ~(PrevEnd < Top.from)
    <2>1. /\ Found("code", Top.from, PrevEnd) /\ Become(Frame("block"))
          /\ UNCHANGED <<offset, code>>
      BY <1>3 DEF ClauseDone
    <2>2. /\ PrevEnd \in Nat /\ PrevEnd <= LookAt + 1 /\ Top.from \in Nat
          /\ Floor <= Top.from /\ offset <= LookAt
      BY <1>1, Reads
    <2>3. "code" \in Kinds BY DEF Kinds
    <2>4. nodes' \in Seq(Pieces) /\ Code /\ UNCHANGED <<phase, offset, code>>
      BY <2>1, <2>2, <2>3, FoundTypes
    <2>5. Frame("block") \in Frames /\ Frame("block").pc = "block" /\ "block" \in CodePcs
      BY FrameType, PcNames DEF CodePcList
    <2>7. stack' \in Seq(Frames) /\ Linked' /\ Top' = Frame("block")
      BY <1>1, <2>1, <2>5, Becomes
    <2>8. TInv' /\ Floor' = LookAt + 1
      BY <1>1, <2>2, <2>4, <2>5, <2>7, StaysAt
    <2> QED BY <2>1, <2>2, <2>3, <2>8, FoundSound
  <1> QED BY <1>2, <1>3

LEMMA CodeDoneSound ==
  ASSUME Running, NEW pc \in {"code", "handling"}, CodeDone(pc)
  PROVE  Sound
  <1> DEFINE end == IF pc = "code" THEN MaxRead ELSE PrevEnd
  <1>1. Top.pc = pc /\ Top.pc \in Scans /\ Top.pc \in CodePcs /\ Look # "EOF"
    <2>1. Top.pc = pc /\ Look = Closer[pc]
      BY DEF CodeDone, Closed, In
    <2>2. Closer["code"] = "}" /\ Closer["handling"] = "}"
      BY DEF Closer
    <2>3. Look = "}" BY <2>1, <2>2
    <2> QED BY <2>1, <2>3, PcNames DEF CodePcList
  <1>2. CASE end < Top.from
    BY <1>2, Stops DEF CodeDone, Sound
  <1>3. CASE ~(end < Top.from)
    <2>1. Found("code", Top.from, end) /\ Advance /\ Return
      BY <1>3 DEF CodeDone
    <2>2. /\ end \in Nat /\ end <= LookAt + 1 /\ Top.from \in Nat /\ Floor <= Top.from
      BY <1>1, Reads
    <2> HIDE DEF end
    <2>3. "code" \in Kinds BY DEF Kinds
    <2>4. nodes' \in Seq(Pieces) /\ Code /\ UNCHANGED phase
      BY <2>1, <2>2, <2>3, FoundTypes
    <2>5. TInv' /\ Floor' = LookAt + 1
      BY <1>1, <2>1, <2>4, ReturnsPast
    <2> QED BY <2>1, <2>2, <2>3, <2>5, FoundSound
  <1> QED BY <1>2, <1>3

LEMMA ExprDoneSound ==
  ASSUME Running, ExprDone
  PROVE  Sound
  <1>1. Top.pc = "expr" /\ Top.pc \in Scans /\ Top.pc \in CodePcs /\ Look = ")"
    BY PcNames DEF ExprDone, Closed, In, CodePcList, Closer
  <1>2. CASE ~Parses(Top.from, MaxRead)
    BY <1>2, Failing DEF ExprDone
  <1>3. CASE Parses(Top.from, MaxRead)
    <2>1. Found("expr", Top.from, MaxRead) /\ Sync /\ Return /\ UNCHANGED code
      BY <1>3 DEF ExprDone
    <2>2. /\ MaxRead \in Nat /\ MaxRead <= LookAt + 1 /\ Top.from \in Nat
          /\ Floor <= Top.from
      BY <1>1, Reads
    <2>3. "expr" \in Kinds BY DEF Kinds
    <2>4. nodes' \in Seq(Pieces) /\ Code /\ UNCHANGED phase
      BY <2>1, <2>2, <2>3, FoundTypes
    <2>5. offset' = LookAt + 1 /\ LookAt' = LookAt /\ Look' = Look
      <3>1. Width(Look) = 1 BY <1>1 DEF Width
      <3> QED BY <2>1, <3>1 DEF Sync, LookAt, TokenOffset, Look
    <2>6. /\ offset' \in Nat /\ code' \in GoParsers /\ JustRead'
          /\ ~(\E o \in offset'..(LookAt' - 1) : TRUE)
      <3>1. LookAt \in Nat /\ code \in GoParsers
        BY Types DEF Typed
      <3>2. LookAt' + 1 = LookAt + 1 BY <2>5
      <3>3. \A n \in Nat : n + 1 \in Nat /\ n + 1 <= n + 1 /\ ~(\E o \in (n + 1)..(n - 1) : TRUE)
        OBVIOUS
      <3> QED BY <2>1, <2>5, <3>1, <3>2, <3>3 DEF JustRead
    <2>7. GoodLook'
      <3>1. GoodLook /\ \A d : At(d)' = At(d)
        BY <1>1, <2>4, LookIs DEF At, Code
      <3> QED BY <2>4, <2>5, <2>6, <3>1 DEF GoodLook, Code
    <2>8. TInv' /\ Floor' = LookAt + 1
      BY <1>1, <2>1, <2>4, <2>5, <2>6, <2>7, ReturnsOn
    <2> QED BY <2>1, <2>2, <2>3, <2>8, FoundSound
  <1> QED BY <1>2, <1>3

\* A name, or the path of an import, at the current token.
LEMMA AtToken ==
  ASSUME Running, Top.pc \in {"section", "partial", "import", "keyword"}
  PROVE  /\ Top.pc \in CodePcs /\ Top.pc \in Plain
         /\ TokenOffset(code.look) = LookAt /\ Floor = offset /\ offset <= LookAt
         /\ offset \in Nat /\ LookAt \in Nat /\ LookAt + 1 \in Nat
         /\ LookAt + 1 <= LookAt + 1
  <1>1. Top.pc \in CodePcs /\ Top.pc \in Plain \ {"block"}
    BY PcNames DEF CodePcList, Plain, Expressing
  <1>2. Floor = offset /\ offset <= LookAt /\ offset \in Nat
    BY <1>1, AtCode
  <1>3. LookAt \in Nat /\ LookAt + 1 \in Nat /\ LookAt + 1 <= LookAt + 1
    BY LookIsInt, Order
  <1> QED BY <1>1, <1>2, <1>3 DEF LookAt

LEMMA IdentsAre == /\ \A i \in Idents : i \notin {";", "EOF", "str", ".", "{", "(", ")", "^"}
                   /\ {"handler", "section", "partial", "layout", "layouts"} \subseteq Idents
  <1>1. \A i \in Names : i \notin Keywords \cup Blanks \cup Signs \cup {"", ";", "EOF"}
    BY LexemesAssumption
  <1> QED BY <1>1 DEF Idents, Signs

LEMMA KeywordSound ==
  ASSUME Running, Keyword
  PROVE  Sound
  <1>1. Top.pc = "keyword"
    BY DEF Keyword, Step, In, FailsBut
  <1>2. /\ Top.pc \in CodePcs /\ Top.pc \in Plain
        /\ TokenOffset(code.look) = LookAt /\ Floor = offset /\ offset <= LookAt
        /\ offset \in Nat /\ LookAt \in Nat /\ LookAt + 1 \in Nat
        /\ LookAt + 1 <= LookAt + 1
    BY <1>1, AtToken
  <1>3. CASE Step("keyword", {"handler", "section", "partial", "import"}) /\ Become(Frame(Look))
    <2>1. Look \in {"handler", "section", "partial", "import"}
      BY <1>3 DEF Step
    <2>2. Frame(Look) \in Frames /\ Frame(Look).pc = Look /\ Look \in Plain
      BY <2>1, FrameType, PcNames DEF CodePcList, Plain, Expressing
    <2>3. Leads(Frame(Look)) BY <2>1, <2>2 DEF Leads
    <2> QED BY <1>1, <1>2, <1>3, <2>1, <2>2, <2>3, StepsSound
  <1>4. ASSUME NEW pc \in Scans, NEW s \in {"if", "for", "{", "("},
               Step("keyword", {s}), Scanning(pc)
        PROVE  Sound
    <2>1. "EOF" \notin {s} /\ ";" \notin {s} /\ Look \in {s}
      BY <1>4 DEF Step
    <2> QED BY <1>1, <1>2, <1>4, <2>1, ScansStart
  <1>5. /\ Step("keyword", {"if"}) /\ Scanning("cond") => Sound
        /\ Step("keyword", {"for"}) /\ Scanning("clause") => Sound
        /\ Step("keyword", {"{"}) /\ Scanning("code") => Sound
        /\ Step("keyword", {"("}) /\ Scanning("expr") => Sound
    BY <1>4, PcNames
  <1>6. ASSUME NEW pc \in {"named", "name"},
               Step("keyword", Idents \ {"handler", "section", "partial"}),
               Become([Frame(pc) EXCEPT !.from = LookAt, !.end = LookAt + 1])
        PROVE  Sound
    <2> DEFINE f == [Frame(pc) EXCEPT !.from = LookAt, !.end = LookAt + 1]
    <2>1. /\ Advance /\ Code /\ UNCHANGED phase /\ UNCHANGED nodes /\ src' = src
          /\ Look \notin {";", "EOF"}
      BY <1>6, IdentsAre DEF Step, Code
    <2>2. LookAt < Len(src) BY <1>2, <2>1, LookIs
    <2>3. /\ offset' \in Nat /\ code' \in GoParsers /\ GoodLook'
          /\ offset' = LookAt + 1 /\ Unread' /\ LookAt <= LookAt + 1
      BY <1>2, <2>1, <2>2, Advances, Order DEF Unread
    <2>4. Typed'
      BY <2>1, <2>3, Types, NodesTyped DEF Typed, Code
    <2>5. pc \in Pcs /\ pc \in CodePcs /\ pc \in Expressing
      BY PcNames DEF CodePcList, Expressing
    <2>6. f \in Frames /\ f.pc = pc /\ f.from = LookAt /\ f.end = LookAt + 1
      <3>1. Frame(pc) \in Frames /\ Frame(pc).pc = pc
        BY <2>5, FrameType
      <3>2. f \in Frames BY <1>2, <3>1, FrameChanges
      <3> QED BY <3>1, <3>2 DEF Frames
    <2>7. Become(f) BY <1>6
    <2> HIDE DEF f
    <2>8. /\ stack' \in Seq(Frames) /\ Linked' /\ Top' = f
      BY <1>2, <2>5, <2>6, <2>7, Becomes
    <2>9. Placed'
      BY <1>2, <2>3, <2>5, <2>6, <2>8, Placing
    <2>10. Floor' = LookAt
      BY <2>5, <2>6, <2>8, NextFloorRules DEF FloorRule
    <2> QED BY <1>2, <2>1, <2>4, <2>8, <2>9, <2>10, InvWhole DEF Sound, Orderly
  <1>7. CASE FailsBut("keyword", Idents \cup {"if", "for", "import", "{", "("})
    BY <1>7, Failing DEF FailsBut
  <1>8. CASE /\ Step("keyword", Idents \ {"handler", "section", "partial"})
             /\ LET at == TokenOffset(code.look)
                IN Become([Frame(IF At(at + 1) \in Blanks THEN "named" ELSE "name")
                             EXCEPT !.from = at, !.end = at + 1])
    BY <1>2, <1>6, <1>8
  <1> QED BY <1>3, <1>5, <1>7, <1>8 DEF Keyword

LEMMA ImportSound ==
  ASSUME Running, Import
  PROVE  Sound
  <1>1. CASE /\ In("import") /\ Look = "str"
             /\ LET at == TokenOffset(code.look) IN Found("import", at, at + 1)
             /\ Advance /\ Return
    <2>1. /\ Top.pc \in CodePcs /\ TokenOffset(code.look) = LookAt
          /\ Floor = offset /\ offset <= LookAt /\ LookAt \in Nat /\ LookAt + 1 \in Nat
          /\ LookAt + 1 <= LookAt + 1
      BY <1>1, AtToken DEF In
    <2>2. Found("import", LookAt, LookAt + 1) /\ "import" \in Kinds /\ Look # "EOF"
      BY <1>1, <2>1 DEF Kinds
    <2>3. nodes' \in Seq(Pieces) /\ Code /\ UNCHANGED phase
      BY <2>1, <2>2, FoundTypes
    <2>4. TInv' /\ Floor' = LookAt + 1
      BY <1>1, <2>1, <2>2, <2>3, ReturnsPast
    <2> QED BY <2>1, <2>2, <2>4, FoundSound
  <1>2. CASE /\ Step("import", Idents \cup {"."})
             /\ Become([Frame("path") EXCEPT !.from = TokenOffset(code.look)])
    <2> DEFINE f == [Frame("path") EXCEPT !.from = LookAt]
    <2>1. /\ Top.pc \in CodePcs /\ TokenOffset(code.look) = LookAt
          /\ Floor = offset /\ offset <= LookAt /\ LookAt \in Nat
      BY <1>2, AtToken DEF In, Step
    <2>2. /\ Advance /\ Code /\ UNCHANGED phase /\ UNCHANGED nodes /\ src' = src
          /\ Look \notin {";", "EOF"}
      BY <1>2, IdentsAre DEF Step, Code
    <2>3. /\ offset' \in Nat /\ code' \in GoParsers /\ GoodLook' /\ Unread'
          /\ offset' = LookAt + 1
      <3>1. LookAt < Len(src) BY <2>1, <2>2, LookIs
      <3> QED BY <2>1, <2>2, <3>1, Advances DEF Unread
    <2>4. Typed'
      BY <2>2, <2>3, Types, NodesTyped DEF Typed, Code
    <2>5. f \in Frames /\ f.pc = "path" /\ f.from = LookAt /\ "path" \in CodePcs
      <3>1. Frame("path") \in Frames /\ Frame("path").pc = "path" /\ "path" \in CodePcs
        BY FrameType, PcNames DEF CodePcList
      <3>2. f \in Frames BY <2>1, <3>1, FrameChanges
      <3> QED BY <3>1, <3>2 DEF Frames
    <2>6. Become(f) BY <1>2, <2>1
    <2> HIDE DEF f
    <2>7. /\ stack' \in Seq(Frames) /\ Linked' /\ Top' = f
      BY <2>1, <2>5, <2>6, Becomes
    <2>8. LookAt < offset' BY <2>1, <2>3
    <2>9. Placed' BY <2>3, <2>5, <2>7, <2>8, Placing
    <2>10. Floor' = LookAt
      BY <2>5, <2>7, NextFloorRules DEF FloorRule
    <2> QED BY <2>1, <2>2, <2>4, <2>7, <2>9, <2>10, InvWhole DEF Sound, Orderly
  <1>3. CASE /\ In("path") /\ Look = "str"
             /\ Found("import", Top.from, TokenOffset(code.look) + 1)
             /\ Return /\ UNCHANGED <<offset, code>>
    <2>1. /\ Top.pc \in CodePcs /\ Top.pc = "path" /\ TokenOffset(code.look) = LookAt
      BY <1>3, PcNames DEF In, CodePcList, LookAt
    <2>2. /\ Floor = Top.from /\ Top.from < offset /\ offset <= LookAt
          /\ Top.from \in Nat /\ offset \in Nat
      BY <2>1, AtCode
    <2>3. LookAt \in Nat /\ LookAt + 1 \in Nat /\ Top.from + 1 < LookAt + 1
          /\ Floor <= Top.from /\ offset <= LookAt + 1 /\ Top.from <= offset
      <3>1. \A k, m, n \in Nat : (k < m /\ m <= n => k + 1 < n + 1) /\ m <= m
                                 /\ (m <= n => m <= n + 1) /\ (k < m => k <= m)
        OBVIOUS
      <3> QED BY <2>2, <3>1, LookIsInt
    <2>4. Found("import", Top.from, LookAt + 1) /\ "import" \in Kinds
      BY <1>3, <2>1 DEF Kinds
    <2>5. nodes' \in Seq(Pieces) /\ Code /\ UNCHANGED <<phase, offset, code>>
      BY <1>3, <2>2, <2>3, <2>4, FoundTypes
    <2>6. TInv' /\ Floor' = offset
      BY <1>3, <2>1, <2>3, <2>5, ReturnsAt
    <2> QED BY <2>2, <2>3, <2>4, <2>6, FoundSound
  <1>4. CASE FailsBut("import", Idents \cup {"str", "."}) \/ FailsBut("path", {"str"})
    BY <1>4, Failing DEF FailsBut
  <1> QED BY <1>1, <1>2, <1>3, <1>4 DEF Import

LEMMA NamedBlockSound ==
  ASSUME Running, NEW pc \in {"section", "partial"}, NamedBlock(pc)
  PROVE  Sound
  <1>1. CASE FailsBut(pc, Idents)
    BY <1>1, Failing DEF FailsBut
  <1>2. CASE ~FailsBut(pc, Idents)
    <2>1. /\ In(pc) /\ Look \in Idents /\ Advance /\ Become(Frame("block"))
          /\ LET at == TokenOffset(code.look) IN Found("name", at, at + 1)
      BY <1>2 DEF NamedBlock
    <2>2. /\ Top.pc \in CodePcs /\ TokenOffset(code.look) = LookAt
          /\ Floor = offset /\ offset <= LookAt /\ LookAt \in Nat /\ LookAt + 1 \in Nat
      BY <2>1, AtToken DEF In
    <2>3. Found("name", LookAt, LookAt + 1) /\ "name" \in Kinds /\ Look \notin {";", "EOF"}
      BY <2>1, <2>2, IdentsAre DEF Kinds
    <2>4. nodes' \in Seq(Pieces) /\ Code /\ UNCHANGED phase
      BY <2>2, <2>3, FoundTypes
    <2>5. Frame("block") \in Frames /\ Leads(Frame("block"))
      <3>1. "block" \in Pcs /\ "block" \in Plain
        BY PcNames DEF CodePcList, Plain, Expressing
      <3>2. Frame("block") \in Frames /\ Frame("block").pc = "block"
        BY <3>1, FrameType
      <3> QED BY <2>3, <3>1, <3>2 DEF Leads
    <2>6. TInv' /\ LookAt + 1 <= Floor'
      BY <2>1, <2>2, <2>3, <2>4, <2>5, StepsOn
    <2> QED BY <2>2, <2>3, <2>6, FoundSound
  <1> QED BY <1>1, <1>2

\* A token that leads from one frame to the next.
LEMMA PlainStep ==
  ASSUME Running, NEW pc \in CodePcs, NEW S, "EOF" \notin S, Step(pc, S),
         NEW next \in CodePcs, Become(Frame(next)),
         \/ next \in Plain /\ ";" \notin S
         \/ next \in {"after", "close", "else"}
  PROVE  Sound
  <1>1. Top.pc = pc /\ Look \in S /\ Step(Top.pc, S) /\ Top.pc \in CodePcs
    BY DEF Step, In
  <1>2. next \in Pcs BY PcNames
  <1>3. Frame(next) \in Frames /\ Frame(next).pc = next
    BY <1>2, FrameType
  <1>4. Leads(Frame(next))
    BY <1>1, <1>3, PcNames DEF Leads, Plain
  <1> QED BY <1>1, <1>3, <1>4, StepsSound

LEMMA HandlerSound ==
  ASSUME Running, Handler
  PROVE  Sound
  <1>1. CASE Step("handler", {"{"}) /\ Scanning("handling")
    <2>1. Top.pc = "handler" /\ Top.pc \in CodePcs /\ Look \in {"{"} /\ "handling" \in Scans
      BY <1>1, PcNames DEF Step, In, CodePcList
    <2>2. "EOF" \notin {"{"} /\ ";" \notin {"{"}
      OBVIOUS
    <2> QED BY <1>1, <2>1, <2>2, ScansStart
  <1>2. CASE FailsBut("handler", {"{"})
    BY <1>2, Failing DEF FailsBut
  <1> QED BY <1>1, <1>2 DEF Handler

LEMMA BlockSound ==
  ASSUME Running, Block
  PROVE  Sound
  <1>1. CASE Step("block", {"{"}) /\ Become(Frame("body"))
    <2>1. "block" \in CodePcs /\ "body" \in CodePcs /\ "body" \in Plain
      BY PcNames DEF CodePcList, Plain, Expressing
    <2>2. "EOF" \notin {"{"} /\ ";" \notin {"{"}
      OBVIOUS
    <2> QED BY <1>1, <2>1, <2>2, PlainStep
  <1>2. CASE FailsBut("block", {"{"})
    BY <1>2, Failing DEF FailsBut
  <1> QED BY <1>1, <1>2 DEF Block

\* The frame changes and nothing else.
LEMMA Shifts ==
  ASSUME Running, Top.pc \in {"after", "alternative"}, Code,
         UNCHANGED <<offset, code, nodes, phase>>,
         NEW next \in {"close", "block"}, Become(Frame(next)),
         Top.pc = "after" => next = "close"
  PROVE  Sound
  <1>1. Top.pc \in CodePcs /\ next \in CodePcs /\ next \in Pcs
    BY PcNames DEF CodePcList
  <1>2. Frame(next) \in Frames /\ Frame(next).pc = next
    BY <1>1, FrameType
  <1>3. stack' \in Seq(Frames) /\ Linked' /\ Top' = Frame(next)
    BY <1>1, <1>2, Becomes
  <1>4. /\ Floor = offset /\ offset \in Nat /\ offset <= LookAt + 1
        /\ Top.pc = "alternative" => offset <= LookAt
    <2>1. "alternative" \in Plain \ {"block"}
      BY PcNames DEF CodePcList, Plain, Expressing
    <2>2. Floor = offset /\ offset \in Nat
      BY <1>1, <2>1, AtCode
    <2>3. Top.pc = "alternative" => offset <= LookAt
      BY <1>1, <2>1, AtCode
    <2>4. Top.pc = "after" => offset <= LookAt + 1
      BY <1>1, AtCode
    <2>5. offset <= LookAt => offset <= LookAt + 1
      BY <2>2, LookIsInt, Order
    <2> QED BY <2>2, <2>3, <2>4, <2>5
  <1>5. nodes' \in Seq(Pieces) BY NodesTyped
  <1>6. CASE next = "close"
    <2>1. TInv' /\ Floor' = offset
      BY <1>1, <1>2, <1>3, <1>4, <1>5, <1>6, StaysAt
    <2> QED BY <1>4, <2>1, Order DEF Sound, Orderly
  <1>7. CASE next = "block"
    <2>1. TInv' /\ Floor' = LookAt + 1
      BY <1>1, <1>2, <1>3, <1>4, <1>5, <1>7, StaysAt
    <2> QED BY <1>4, <2>1 DEF Sound, Orderly
  <1> QED BY <1>6, <1>7

LEMMA BlockCodeSound ==
  ASSUME Running, BlockCode
  PROVE  Sound
  <1>1. CASE Step("body", {"^"}) /\ Call(Frame("keyword"), Frame("after"))
    <2>1. /\ Top.pc = "body" /\ Advance /\ Code /\ UNCHANGED phase /\ UNCHANGED nodes
          /\ src' = src /\ Look = "^"
      BY <1>1 DEF Step, In, Code
    <2>2. Top.pc \in CodePcs /\ Top.pc \in Plain \ {"block"}
      BY <2>1, PcNames DEF CodePcList, Plain, Expressing
    <2>3. /\ offset' \in Nat /\ code' \in GoParsers /\ GoodLook' /\ Unread'
          /\ offset' = LookAt + 1
      <3>1. LookAt < Len(src) BY <2>1, <2>2, LookIs
      <3> QED BY <2>1, <2>2, <3>1, Advances DEF Unread
    <2>4. Typed'
      BY <2>1, <2>3, Types, NodesTyped DEF Typed, Code
    <2>5. /\ Frame("keyword") \in Frames /\ Frame("keyword").pc = "keyword"
          /\ Frame("after") \in Frames /\ Frame("after").pc = "after"
          /\ "keyword" \in CodePcs /\ "after" \in CodePcs /\ "keyword" \in Plain \ {"block"}
      BY FrameType, PcNames DEF CodePcList, Plain, Expressing
    <2>6. Replaces(Frame("after")) /\ "after" \in Below("keyword")
      <3>1. Len(stack) # 1
        BY <2>1 DEF Running, TInv, Linked, Top
      <3> QED BY <2>1, <2>2, <2>5, <3>1, BelowCode DEF Replaces, Callables
    <2>7. stack' \in Seq(Frames) /\ Linked' /\ Top' = Frame("keyword")
      BY <1>1, <2>5, <2>6, Calls
    <2>8. Placed' BY <2>3, <2>5, <2>7, Placing
    <2>9. Floor' = offset'
      BY <2>5, <2>7, PcNames, NextFloorRules DEF FloorRule, Expressing
    <2>10. Floor = offset /\ offset <= LookAt /\ offset \in Nat
      BY <2>2, AtCode
    <2>11. Floor <= Floor'
      BY <2>3, <2>9, <2>10, LookIsInt, Order
    <2> QED BY <2>1, <2>4, <2>7, <2>8, <2>11, InvWhole DEF Sound, Orderly
  <1>2. CASE Fails("body", {"EOF"})
    BY <1>2, Failing DEF Fails
  <1>3. CASE Step("after", {";"}) /\ Become(Frame("close"))
    <2>1. "after" \in CodePcs /\ "close" \in CodePcs /\ "EOF" \notin {";"}
      BY PcNames DEF CodePcList
    <2> QED BY <1>3, <2>1, PlainStep
  <1>4. CASE /\ In("after") /\ Look # ";" /\ Become(Frame("close"))
             /\ Code /\ UNCHANGED <<offset, code, nodes, phase>>
    BY <1>4, Shifts DEF In
  <1> QED BY <1>1, <1>2, <1>3, <1>4 DEF BlockCode

LEMMA BlockEndSound ==
  ASSUME Running, BlockEnd
  PROVE  Sound
  <1>1. CASE Step("close", {"}"}) /\ Return
    <2>1. /\ Top.pc = "close" /\ Advance /\ Code /\ UNCHANGED phase /\ UNCHANGED nodes
          /\ Look # "EOF"
      BY <1>1 DEF Step, In
    <2>2. Top.pc \in CodePcs
      BY <2>1, PcNames DEF CodePcList
    <2>3. TInv' /\ Floor' = LookAt + 1
      BY <1>1, <2>1, <2>2, NodesTyped, ReturnsPast
    <2>4. Floor <= LookAt + 1
      BY <2>1, <2>2, FloorAtLook
    <2> QED BY <2>1, <2>3, <2>4 DEF Sound, Orderly
  <1>2. CASE FailsBut("close", {"}"})
    BY <1>2, Failing DEF FailsBut
  <1> QED BY <1>1, <1>2 DEF BlockEnd

LEMMA ElseSound ==
  ASSUME Running, Else
  PROVE  Sound
  <1>0. /\ {"else", "alt", "alternative", "elseif"} \subseteq CodePcs
        /\ {"alt", "alternative", "elseif"} \subseteq Plain \ {"block"}
    BY PcNames DEF CodePcList, Plain, Expressing
  <1>1. ASSUME NEW pc \in CodePcs, NEW next \in Plain, next \in CodePcs,
               NEW s \in {"^", "else"}, Step(pc, {s}), Become(Frame(next))
        PROVE  Sound
    <2>1. "EOF" \notin {s} /\ ";" \notin {s} OBVIOUS
    <2> QED BY <1>1, <2>1, PlainStep
  <1>2. CASE \/ Step("else", {"^"}) /\ Become(Frame("alt"))
             \/ Step("alt", {"else"}) /\ Become(Frame("alternative"))
             \/ Step("alternative", {"^"}) /\ Become(Frame("elseif"))
    BY <1>0, <1>1, <1>2
  <1>3. CASE /\ (In("else") /\ Look # "^") \/ (In("alt") /\ Look # "else")
             /\ Return /\ Code /\ UNCHANGED <<offset, code, nodes, phase>>
    <2>1. Top.pc \in {"else", "alt"} /\ Top.pc \in CodePcs
      BY <1>0, <1>3 DEF In
    <2>2. Floor = offset /\ offset \in Nat /\ (offset <= LookAt \/ offset <= LookAt + 1)
      BY <1>0, <2>1, AtCode
    <2>3. offset <= LookAt + 1 /\ offset <= offset
      BY <2>2, LookIsInt, Order
    <2>4. TInv' /\ Floor' = offset
      BY <1>3, <2>1, <2>3, NodesTyped, ReturnsAt
    <2> QED BY <1>3, <2>2, <2>3, <2>4 DEF Sound, Orderly
  <1>4. CASE /\ In("alternative") /\ Look # "^" /\ Become(Frame("block"))
             /\ Code /\ UNCHANGED <<offset, code, nodes, phase>>
    BY <1>4, Shifts DEF In
  <1>5. CASE Step("elseif", {"if"}) /\ Scanning("cond")
    <2>1. Top.pc = "elseif" /\ Top.pc \in CodePcs /\ Look \in {"if"} /\ "cond" \in Scans
      BY <1>0, <1>5, PcNames DEF Step, In
    <2>2. "EOF" \notin {"if"} /\ ";" \notin {"if"}
      OBVIOUS
    <2> QED BY <1>5, <2>1, <2>2, ScansStart
  <1>6. CASE FailsBut("elseif", {"if"})
    BY <1>6, Failing DEF FailsBut
  <1> QED BY <1>2, <1>3, <1>4, <1>5, <1>6 DEF Else

-----------------------------------------------------------------------------
(* Implicit expressions.                                                   *)

LEMMA InExpression ==
  ASSUME Running, Top.pc \in Expressing, Look # "EOF" \/ Top.pc \in {"name", "named"}
  PROVE  /\ Top.pc \in CodePcs /\ Top \in Frames
         /\ Floor = Top.from /\ Top.from <= Top.end /\ Top.end <= offset /\ offset <= LookAt
         /\ Top.from \in Nat /\ Top.end \in Nat /\ offset \in Nat /\ LookAt \in Nat
         /\ Top.end + 1 \in Nat /\ LookAt + 1 \in Nat
         /\ Top.from <= LookAt /\ Top.end <= LookAt /\ Top.from <= offset
         /\ Top.end <= LookAt + 1 /\ Top.end + 1 <= LookAt + 1 /\ Top.from <= LookAt + 1
         /\ Top.from <= Top.end + 1 /\ Top.from <= Top.from /\ offset <= LookAt + 1
         /\ Top.end + 2 \in Nat /\ Top.from <= Top.end + 2
  <1>1. Top.pc \in CodePcs
    BY PcNames DEF CodePcList, Expressing
  <1>2. /\ Floor = Top.from /\ Top.from <= Top.end /\ Top.end <= offset /\ offset <= LookAt
        /\ Top.from \in Nat /\ Top.end \in Nat /\ offset \in Nat /\ Top \in Frames
    BY <1>1, AtCode
  <1>3. LookAt \in Nat BY LookIsInt
  <1>4. \A f, e, o, l \in Nat : f <= e /\ e <= o /\ o <= l =>
          /\ e + 1 \in Nat /\ l + 1 \in Nat /\ f <= l /\ e <= l /\ f <= o
          /\ e <= l + 1 /\ e + 1 <= l + 1 /\ f <= l + 1 /\ f <= e + 1 /\ f <= f
          /\ o <= l + 1 /\ e + 2 \in Nat /\ f <= e + 2
    OBVIOUS
  <1> DEFINE f == Top.from
             e == Top.end
  <1>5. f \in Nat /\ e \in Nat /\ f <= e /\ e <= offset
    BY <1>2
  <1> HIDE DEF f, e
  <1>6. /\ e + 1 \in Nat /\ LookAt + 1 \in Nat /\ f <= LookAt /\ e <= LookAt /\ f <= offset
        /\ e <= LookAt + 1 /\ e + 1 <= LookAt + 1 /\ f <= LookAt + 1 /\ f <= e + 1 /\ f <= f
        /\ offset <= LookAt + 1 /\ e + 2 \in Nat /\ f <= e + 2
    BY <1>2, <1>3, <1>4, <1>5
  <1> QED BY <1>1, <1>2, <1>3, <1>6 DEF f, e

\* The expression has grown up to `end` when the next token is read.
LEMMA GrowsOn ==
  ASSUME Running, Top.pc \in CodePcs, Top.pc \in Expressing \cup {"member"},
         Top.pc = "member" \/ Look # "EOF" \/ Top.pc = "name",
         Advance, Code, UNCHANGED <<nodes, phase>>,
         NEW pc \in Expressing, NEW end \in Nat, Grows(pc, end),
         Top.from <= end, end <= LookAt + 1, Look # "EOF",
         Look = ";" => pc \in {"call", "index"}
  PROVE  Sound
  <1> DEFINE f == [Top EXCEPT !.pc = pc, !.end = end]
  <1>1. src' = src /\ Top \in Frames /\ Top.from \in Nat
    BY AtCode DEF Code
  <1>2. /\ offset' \in Nat /\ code' \in GoParsers /\ GoodLook'
        /\ Unread' \/ (Look' = "EOF" /\ pc \in {"call", "index"})
        /\ offset' = LookAt + 1
    <2>1. Look # ";" => LookAt < Len(src) BY LookIs
    <2>2. offset' = LookAt + Width(Look) /\ Width(Look) = 1
      BY <1>1, Advances, LookIs
    <2>3. Look # ";" => Unread'
      BY <1>1, <2>1, Advances DEF Unread
    <2> QED BY <1>1, <2>2, <2>3, Advances
  <1>3. Typed'
    BY <1>1, <1>2, Types, NodesTyped DEF Typed, Code
  <1>4. pc \in CodePcs /\ pc \in Pcs
    BY PcNames DEF CodePcList, Expressing
  <1>5. f \in Frames /\ f.pc = pc /\ f.from = Top.from /\ f.end = end
    <2>1. f \in Frames BY <1>1, <1>4, FrameChanges
    <2> QED BY <1>1, <2>1 DEF Frames
  <1>6. Become(f) BY DEF Grows
  <1> HIDE DEF f
  <1>7. stack' \in Seq(Frames) /\ Linked' /\ Top' = f
    BY <1>4, <1>5, <1>6, Becomes
  <1>8. Placed' BY <1>2, <1>4, <1>5, <1>7, Placing
  <1>9. Floor' = Top.from /\ Floor = Top.from
    <2>1. Floor' = Top.from
      BY <1>5, <1>7, NextFloorRules DEF FloorRule
    <2>2. Floor = Top.from BY AtCode
    <2> QED BY <2>1, <2>2
  <1>10. Floor <= Floor' BY <1>1, <1>9, Order
  <1> QED BY <1>3, <1>7, <1>8, <1>10, InvWhole DEF Sound, Orderly

LEMMA ArgumentsSound ==
  ASSUME Running, NEW pc \in {"call", "index"}, Arguments(pc)
  PROVE  Sound
  <1>1. Bracket(pc) \in {"(", "["} /\ Unbracket(pc) \in {")", "]"}
    BY DEF Bracket, Unbracket
  <1>2. CASE Step("name", {Bracket(pc)}) /\ Grows(pc, Top.end + 1)
    <2>1. /\ Top.pc = "name" /\ Top.pc \in Expressing /\ Look \notin {"EOF", ";"}
          /\ Advance /\ Code /\ UNCHANGED <<nodes, phase>> /\ pc \in Expressing
      BY <1>1, <1>2 DEF Step, In, Expressing
    <2>2. /\ Top.pc \in CodePcs /\ Top.end + 1 \in Nat /\ Top.from <= Top.end + 1
          /\ Top.end + 1 <= LookAt + 1
      BY <2>1, InExpression
    <2> QED BY <1>2, <2>1, <2>2, GrowsOn
  <1>3. CASE Step(pc, {Unbracket(pc)}) /\ Grows("name", Top.end + 1)
    <2>1. /\ Top.pc = pc /\ Top.pc \in Expressing /\ Look \notin {"EOF", ";"}
          /\ Advance /\ Code /\ UNCHANGED <<nodes, phase>> /\ "name" \in Expressing
      BY <1>1, <1>3 DEF Step, In, Expressing
    <2>2. /\ Top.pc \in CodePcs /\ Top.end + 1 \in Nat /\ Top.from <= Top.end + 1
          /\ Top.end + 1 <= LookAt + 1
      BY <2>1, InExpression
    <2> QED BY <1>3, <2>1, <2>2, GrowsOn
  <1>4. CASE Fails(pc, {"#", "EOF"})
    BY <1>4, Failing DEF Fails
  <1>5. CASE /\ In(pc) /\ Look \notin {Unbracket(pc), "#", "EOF"}
             /\ Advance /\ Grows(pc, TokenOffset(code.look) + Width(Look))
             /\ Code /\ UNCHANGED <<nodes, phase>>
    <2>1. /\ Top.pc = pc /\ Top.pc \in Expressing /\ Look # "EOF"
          /\ Advance /\ Code /\ UNCHANGED <<nodes, phase>> /\ pc \in Expressing
      BY <1>5 DEF In, Expressing
    <2>2. /\ Top.pc \in CodePcs /\ LookAt + 1 \in Nat /\ Top.from <= LookAt + 1
          /\ LookAt + 1 <= LookAt + 1
      BY <2>1, InExpression, LookIsInt, Order
    <2>3. TokenOffset(code.look) + Width(Look) = LookAt + 1
      BY <2>1 DEF Width, LookAt
    <2>4. Grows(pc, LookAt + 1) BY <1>5, <2>3
    <2> QED BY <2>1, <2>2, <2>4, GrowsOn
  <1> QED BY <1>2, <1>3, <1>4, <1>5 DEF Arguments

\* There is one next token.
LEMMA ScanOne ==
  ASSUME src \in Seq(Lexemes), NEW b \in Nat, NEW o \in Nat, NEW semi \in BOOLEAN,
         NEW t \in Scan(b, o, semi), NEW u \in Scan(b, o, semi)
  PROVE  t = u
  <1> DEFINE S == {d \in o..(Len(src) - b) :
                    At(b + d) \notin (IF semi THEN {" "} ELSE Blanks)}
             T(k) == [tok |-> IF At(b + k) = "\n" THEN ";"
                              ELSE IF At(b + k) # "" THEN At(b + k)
                              ELSE IF semi THEN ";" ELSE "EOF",
                      at  |-> k]
  <1>1. \A x \in Scan(b, o, semi) : \E k \in Least(S) : x = T(k)
    BY DEF Scan
  <1>2. PICK j \in Least(S), k \in Least(S) : t = T(j) /\ u = T(k)
    BY <1>1
  <1>3. S \subseteq Int
    <2>1. S \subseteq o..(Len(src) - b) OBVIOUS
    <2> HIDE DEF S, T
    <2>2. \A m, n \in Int : m..n \subseteq Int
      OBVIOUS
    <2>3. o \in Int /\ Len(src) - b \in Int
      <3>1. Len(src) \in Nat BY SourceLexemes
      <3> QED BY <3>1
    <2> QED BY <2>1, <2>2, <2>3
  <1>4. j \in Int /\ k \in Int /\ j <= k /\ k <= j
    BY <1>2, <1>3 DEF Least
  <1>5. j = k
    <2> HIDE DEF S, T
    <2> QED BY <1>4
  <1> QED BY <1>2, <1>5

LEMMA PeriodCases ==
  ASSUME Period
  PROVE  \/ /\ In("name") /\ Look = "." /\ Code /\ UNCHANGED <<nodes, phase>>
            /\ \/ /\ offset' = TokenOffset(code.look) /\ code' = [code EXCEPT !.acc = code.look]
                  /\ Grows("named", Top.end)
               \/ /\ \E t \in NextTokens : t.tok \in Idents /\ ~(t.at - code.look.at > 1)
                  /\ Advance /\ Grows("member", Top.end + 2)
         \/ Step("member", Idents) /\ \E pc \in {"named", "name"} : Grows(pc, Top.end)
  BY DEF Period

LEMMA LooksAhead ==
  ASSUME Running, Advance, NEW t \in NextTokens
  PROVE  code'.look = t
  <1>1. PICK u \in NextTokens : code' = [code EXCEPT !.look = u, !.acc = code.look]
    BY DEF Advance
  <1>2. u = t
    <2> DEFINE o == IF code.base + code.look.at < Len(src) THEN code.look.at + 1
                    ELSE code.look.at
    <2>1. o \in Nat /\ InsertsSemi(Look) \in BOOLEAN
      BY Types DEF InsertsSemi
    <2>2. NextTokens = Scan(code.base, o, InsertsSemi(Look))
      BY DEF NextTokens
    <2>3. code.base \in Nat /\ src \in Seq(Lexemes)
      BY Types DEF Typed
    <2> HIDE DEF o
    <2> QED BY <1>1, <2>1, <2>2, <2>3, ScanOne
  <1>3. code \in GoParsers BY Types DEF Typed
  <1> QED BY <1>1, <1>2, <1>3 DEF GoParsers

LEMMA PeriodSound ==
  ASSUME Running, Period
  PROVE  Sound
  <1>1. ASSUME In("name"), Look = "."
        PROVE  /\ Top.pc = "name" /\ Top.pc \in Expressing /\ Look \notin {"EOF", ";"}
               /\ Top.pc \in CodePcs /\ Top \in Frames
               /\ Floor = Top.from /\ Top.from <= Top.end /\ Top.end <= offset
               /\ offset <= LookAt /\ Top.from \in Nat /\ Top.end \in Nat /\ offset \in Nat
               /\ LookAt \in Nat /\ Top.end <= LookAt /\ Top.from <= Top.from
               /\ Top.end + 2 \in Nat /\ Top.from <= Top.end + 2
               /\ LookAt < Len(src) /\ TokenOffset(code.look) = LookAt
    <2>1. Top.pc = "name" /\ Top.pc \in Expressing /\ Look \notin {"EOF", ";"}
      BY <1>1 DEF In, Expressing
    <2> QED BY <2>1, InExpression, LookIs DEF LookAt
  <1>2. ASSUME In("name"), Look = ".",
               offset' = TokenOffset(code.look), code' = [code EXCEPT !.acc = code.look],
               Grows("named", Top.end), Code, UNCHANGED <<nodes, phase>>
        PROVE  Sound
    <2> DEFINE f == [Top EXCEPT !.pc = "named", !.end = Top.end]
    <2>1. "named" \in CodePcs /\ "named" \in Pcs /\ "named" \in Expressing
      BY PcNames DEF CodePcList, Expressing
    <2>2. f \in Frames /\ f.pc = "named" /\ f.from = Top.from /\ f.end = Top.end
      <3>1. f \in Frames
        BY <1>1, <1>2, <2>1, FrameChanges
      <3> QED BY <1>1, <1>2, <3>1 DEF Frames
    <2>3. Become(f) BY <1>2 DEF Grows
    <2> HIDE DEF f
    <2>4. stack' \in Seq(Frames) /\ Linked' /\ Top' = f
      BY <1>1, <1>2, <2>1, <2>2, <2>3, Becomes
    <2>5. code' \in GoParsers /\ code'.look = code.look /\ code'.base = code.base
      BY <1>2, Types DEF GoParsers, Typed
    <2>6. LookAt' = LookAt /\ Look' = Look /\ offset' = LookAt /\ src' = src
      BY <1>1, <1>2, <2>5 DEF LookAt, TokenOffset, Look, Code
    <2>7. offset' \in Nat /\ Unread' /\ Top.end <= offset'
      BY <1>1, <1>2, <2>6, Order DEF Unread
    <2>8. GoodLook'
      <3>1. GoodLook /\ \A d : At(d)' = At(d)
        BY <1>1, <1>2, <2>6, LookIs DEF At
      <3>2. \A n \in Nat : ~(\E d \in n..(n - 1) : TRUE)
        OBVIOUS
      <3>3. ~(\E d \in offset'..(LookAt' - 1) : TRUE)
        BY <1>1, <1>2, <2>6, <3>2
      <3> QED BY <2>6, <3>1, <3>3 DEF GoodLook
    <2>9. Typed'
      BY <1>2, <2>5, <2>7, Types, NodesTyped DEF Typed, Code
    <2>10. Placed'
      BY <1>1, <1>2, <2>1, <2>2, <2>4, <2>7, <2>8, Placing
    <2>11. Floor' = Top.from /\ Floor <= Floor'
      BY <1>1, <1>2, <2>1, <2>2, <2>4, NextFloorRules DEF FloorRule
    <2> QED BY <1>2, <2>4, <2>9, <2>10, <2>11, InvWhole DEF Sound, Orderly
  <1>3. ASSUME NEW t \in NextTokens, In("name"), Look = ".", t.tok \in Idents,
               Advance, Grows("member", Top.end + 2), Code, UNCHANGED <<nodes, phase>>
        PROVE  Sound
    <2> DEFINE f == [Top EXCEPT !.pc = "member", !.end = Top.end + 2]
    <2>1. "member" \in CodePcs /\ "member" \in Pcs
      BY PcNames DEF CodePcList
    <2>2. f \in Frames /\ f.pc = "member" /\ f.from = Top.from /\ f.end = Top.end + 2
      <3>1. f \in Frames
        BY <1>1, <1>3, <2>1, FrameChanges
      <3> QED BY <1>1, <1>3, <3>1 DEF Frames
    <2>3. Become(f) BY <1>3 DEF Grows
    <2> HIDE DEF f
    <2>4. stack' \in Seq(Frames) /\ Linked' /\ Top' = f
      BY <1>1, <1>3, <2>1, <2>2, <2>3, Becomes
    <2>5. src' = src BY <1>3 DEF Code
    <2>6. /\ offset' \in Nat /\ code' \in GoParsers /\ GoodLook' /\ Unread'
          /\ LookAt' \in Nat /\ LookAt + 1 <= LookAt'
      BY <1>1, <1>3, <2>5, Advances DEF Unread
    <2>7. Look' \in Idents
      BY <1>3, LooksAhead DEF Look
    <2>8. Top.end + 2 <= LookAt' + 1
      <3>1. \A e, l, m \in Nat : e <= l /\ l + 1 <= m => e + 2 <= m + 1
        OBVIOUS
      <3> QED BY <1>1, <1>3, <2>6, <3>1
    <2>9. Typed'
      BY <1>3, <2>6, Types, NodesTyped DEF Typed, Code
    <2>10. Placed'
      BY <1>1, <1>3, <2>1, <2>2, <2>4, <2>6, <2>7, <2>8, Placing
    <2>11. Floor' = Top.from /\ Floor <= Floor'
      BY <1>1, <1>3, <2>2, <2>4, NextFloorRules DEF FloorRule
    <2> QED BY <1>3, <2>4, <2>9, <2>10, <2>11, InvWhole DEF Sound, Orderly
  <1>4. ASSUME Step("member", Idents), NEW pc \in {"named", "name"}, Grows(pc, Top.end)
        PROVE  Sound
    <2>1. /\ Top.pc = "member" /\ Top.pc \in CodePcs /\ Look \notin {"EOF", ";"}
          /\ Advance /\ Code /\ UNCHANGED <<nodes, phase>> /\ pc \in Expressing
      BY <1>4, IdentsAre, PcNames DEF Step, In, CodePcList, Expressing
    <2>2. Top.end \in Nat /\ Top.from <= Top.end /\ Top.end <= LookAt + 1
      BY <2>1, AtCode
    <2> QED BY <1>4, <2>1, <2>2, GrowsOn
  <1> QED BY <1>2, <1>3, <1>4, PeriodCases

LEMMA NameDoneSound ==
  ASSUME Running, NameDone
  PROVE  Sound
  <1>1. Top.pc \in {"named", "name"} /\ Top.pc \in Expressing
    BY DEF NameDone, In, Expressing
  <1>2. CASE ~Parses(Top.from, Top.end)
    BY <1>2, Failing DEF NameDone
  <1>3. CASE Parses(Top.from, Top.end)
    <2>1. Found("expr", Top.from, Top.end) /\ Return /\ UNCHANGED <<offset, code>>
      BY <1>3 DEF NameDone
    <2>2. /\ Top.pc \in CodePcs /\ Floor = Top.from /\ Top.end <= offset
          /\ Top.from \in Nat /\ Top.end \in Nat /\ Floor <= Top.from
          /\ offset <= LookAt + 1
      BY <1>1, InExpression
    <2>3. "expr" \in Kinds BY DEF Kinds
    <2>4. nodes' \in Seq(Pieces) /\ Code /\ UNCHANGED <<phase, offset, code>>
      BY <2>1, <2>2, <2>3, FoundTypes
    <2>5. TInv' /\ Floor' = offset
      BY <2>1, <2>2, <2>4, ReturnsAt
    <2> QED BY <2>1, <2>2, <2>3, <2>5, FoundSound
  <1> QED BY <1>2, <1>3

-----------------------------------------------------------------------------
(* The HTML parser.                                                        *)

\* A frame that Go code does not concern.
LEMMA HtmlPlaces ==
  ASSUME Top'.pc \notin CodePcs,
         Top'.pc \in {"children", "element"} => html.start' <= html.end' /\ offset' = html.end'
  PROVE  Placed'
  BY PcNames DEF Placed, CodePcList, Expressing

\* The document's tokens.
LEMMA Tokens ==
  ASSUME Running, NEW t \in HtmlAt(offset), In("document")
  PROVE  /\ t \in [start : Nat, end : Nat] /\ t.start = offset /\ t.start <= t.end
         /\ t.start \in Nat /\ t.end \in Nat /\ offset \in Nat /\ Floor = offset
         /\ Top.pc = "document" /\ Top.pc \notin CodePcs
         /\ \A o \in Symbols(t) : /\ o \in Nat /\ offset <= o /\ o + 1 \in Nat /\ o + 2 \in Nat
                                  /\ o <= o + 1 /\ o + 1 <= o + 1 /\ o + 2 <= o + 2
                                  /\ offset <= o + 1
         /\ offset <= offset
  <1>1. src \in Seq(Lexemes) /\ offset \in Nat
    BY Types DEF Typed
  <1>2. t \in [start : Nat, end : Nat] /\ t.start = offset /\ offset <= t.end
    BY <1>1, HtmlFinds
  <1>3. t.start \in Nat /\ t.end \in Nat BY <1>2
  <1>4. Top.pc = "document" /\ Top.pc \notin CodePcs
    BY PcNames DEF In, CodePcList
  <1>5. Floor = offset
    BY <1>4, PcNames, FloorRules DEF FloorRule, Expressing
  <1>6. \A a, b \in Nat : \A o \in a..(b - 1) :
          /\ o \in Nat /\ a <= o /\ o + 1 \in Nat /\ o + 2 \in Nat
          /\ o <= o + 1 /\ o + 1 <= o + 1 /\ o + 2 <= o + 2 /\ a <= o + 1
    OBVIOUS
  <1>7. Symbols(t) \subseteq offset..(t.end - 1)
    BY <1>2 DEF Symbols
  <1> QED BY <1>1, <1>2, <1>3, <1>4, <1>5, <1>6, <1>7, Order

LEMMA AddsTwo ==
  ASSUME Running, NEW k \in Kinds, NEW l \in Kinds, NEW a \in Nat, NEW b \in Nat,
         NEW c \in Nat, NEW d \in Nat, Add(<<Node(k, a, b), Node(l, c, d)>>)
  PROVE  /\ nodes' \in Seq(Pieces)
         /\ Floor <= a /\ b <= c /\ d <= Floor' => Orderly
  <1> DEFINE m == Node(k, a, b)
             n == Node(l, c, d)
  <1>1. b \in Int /\ d \in Int BY Order
  <1>2. m \in Pieces /\ n \in Pieces /\ m.from = a /\ m.to = b /\ n.from = c /\ n.to = d
    BY <1>1, NodeTypes DEF Node
  <1>3. Add(<<m, n>>) OBVIOUS
  <1> HIDE DEF m, n
  <1>4. <<m, n>> \in Seq(Pieces) BY <1>2
  <1>5. nodes' \in Seq(Pieces)
    BY <1>3, <1>4, AddTypes
  <1> QED BY <1>2, <1>3, <1>5 DEF Orderly

LEMMA AddsOne ==
  ASSUME Running, NEW k \in Kinds, NEW a \in Nat, NEW b \in Nat, Add(<<Node(k, a, b)>>)
  PROVE  /\ nodes' \in Seq(Pieces)
         /\ Floor <= a /\ b <= Floor' => Orderly
  <1>1. b \in Int BY Order
  <1> QED BY <1>1, NodesTyped, Adds

LEMMA AddsNone ==
  ASSUME Running, Add(<<>>)
  PROVE  nodes' \in Seq(Pieces) /\ UNCHANGED nodes /\ (Floor <= Floor' => Orderly)
  <1>1. nodes \in Seq(Pieces) BY Types DEF Typed
  <1>2. nodes' = nodes
    BY <1>1, ConcatEmptySeq DEF Add
  <1> QED BY <1>1, <1>2 DEF Orderly

LEMMA Concats == \A x, y : <<x>> \o <<y>> = <<x, y>> /\ <<>> \o <<y>> = <<y>>
  <1> TAKE x, y
  <1>1. <<x>> \o <<y>> = <<x, y>>
    <2>1. <<x>> \in Seq({x, y}) /\ y \in {x, y}
      OBVIOUS
    <2>2. Append(<<x>>, y) = <<x>> \o <<y>>
      BY <2>1, AppendIsConcat
    <2>3. Append(<<x>>, y) = <<x, y>>
      <3>1. Append(<<x>>, y) \in Seq({x, y}) /\ <<x, y>> \in Seq({x, y})
        BY <2>1, AppendProperties
      <3>2. Len(Append(<<x>>, y)) = 2 /\ Append(<<x>>, y)[1] = x /\ Append(<<x>>, y)[2] = y
        BY <2>1
      <3>3. /\ Len(<<x, y>>) = 2 /\ <<x, y>>[1] = x /\ <<x, y>>[2] = y
            /\ \A i \in 1..2 : i = 1 \/ i = 2
        OBVIOUS
      <3>4. \A i \in 1..Len(Append(<<x>>, y)) : Append(<<x>>, y)[i] = <<x, y>>[i]
        BY <3>2, <3>3
      <3> QED BY <3>1, <3>2, <3>3, <3>4, SeqEqual
    <2> QED BY <2>2, <2>3
  <1>2. <<>> \o <<y>> = <<y>> OBVIOUS
  <1> QED BY <1>1, <1>2

\* The document goes on, from offset' on.
LEMMA DocumentGoes ==
  ASSUME Running, In("document"), src' = src, html' \in [start : Nat, end : Nat],
         offset' \in Nat, nodes' \in Seq(Pieces), UNCHANGED <<code, stack, phase>>
  PROVE  TInv' /\ Floor' = offset'
  <1>1. Typed' BY Types DEF Typed
  <1>2. Top' = Top /\ stack' \in Seq(Frames) /\ Linked'
    BY DEF Running, TInv, TypeOK, Linked, Top
  <1>3. Top'.pc = "document" /\ Top'.pc \notin CodePcs
    BY <1>2, PcNames DEF In, CodePcList
  <1>4. Placed' BY <1>3, HtmlPlaces
  <1>5. Floor' = offset'
    BY <1>3, PcNames, NextFloorRules DEF FloorRule, Expressing
  <1> QED BY <1>1, <1>2, <1>4, <1>5, InvWhole

LEMMA DocumentLiteralSound ==
  ASSUME Running, DocumentLiteral
  PROVE  Sound
  <1>1. PICK t \in HtmlAt(offset) :
          /\ Tokenize(t) /\ Add(<<Node("literal", t.start, t.end)>>)
          /\ offset' = t.end /\ UNCHANGED <<code, stack, phase>>
    BY DEF DocumentLiteral
  <1>2. /\ t \in [start : Nat, end : Nat] /\ t.start = offset /\ t.start \in Nat
        /\ t.end \in Nat /\ Floor = offset /\ offset <= offset /\ t.end <= t.end
    BY <1>1, Tokens, Order DEF Tokenize
  <1>3. "literal" \in Kinds BY DEF Kinds
  <1>4. nodes' \in Seq(Pieces)
    BY <1>1, <1>2, <1>3, AddsOne
  <1>5. TInv' /\ Floor' = t.end
    BY <1>1, <1>2, <1>4, DocumentGoes DEF Tokenize
  <1> QED BY <1>1, <1>2, <1>3, <1>5, AddsOne DEF Sound

LEMMA DocumentEscapeSound ==
  ASSUME Running, DocumentEscape
  PROVE  Sound
  <1>1. PICK t \in HtmlAt(offset) : \E o \in Least(Pairs(t)) :
          /\ Tokenize(t) /\ Add(Lead(t, o) \o <<Node("escape", o, o + 2)>>)
          /\ offset' = o + 2 /\ UNCHANGED <<code, stack, phase>>
    BY DEF DocumentEscape
  <1>2. PICK o \in Symbols(t) :
          /\ Tokenize(t) /\ Add(Lead(t, o) \o <<Node("escape", o, o + 2)>>)
          /\ offset' = o + 2 /\ UNCHANGED <<code, stack, phase>>
    BY <1>1 DEF Least, Pairs
  <1>3. /\ t \in [start : Nat, end : Nat] /\ t.start = offset /\ t.start \in Nat
        /\ Floor = offset /\ offset <= offset
        /\ o \in Nat /\ offset <= o /\ o + 2 \in Nat /\ o + 2 <= o + 2 /\ o <= o
    BY <1>2, Tokens, Order DEF Tokenize
  <1>4. "literal" \in Kinds /\ "escape" \in Kinds
    BY DEF Kinds
  <1>5. CASE o > t.start
    <2>1. Lead(t, o) \o <<Node("escape", o, o + 2)>>
            = <<Node("literal", t.start, o), Node("escape", o, o + 2)>>
      BY <1>5, Concats DEF Lead
    <2>2. Add(<<Node("literal", t.start, o), Node("escape", o, o + 2)>>)
      BY <1>2, <2>1
    <2>3. nodes' \in Seq(Pieces)
      BY <1>3, <1>4, <2>2, AddsTwo
    <2>4. TInv' /\ Floor' = o + 2
      BY <1>2, <1>3, <2>3, DocumentGoes DEF Tokenize
    <2> QED BY <1>3, <1>4, <2>2, <2>4, AddsTwo DEF Sound
  <1>6. CASE ~(o > t.start)
    <2>1. Lead(t, o) \o <<Node("escape", o, o + 2)>> = <<Node("escape", o, o + 2)>>
      BY <1>6, Concats DEF Lead
    <2>2. Add(<<Node("escape", o, o + 2)>>)
      BY <1>2, <2>1
    <2>3. nodes' \in Seq(Pieces)
      BY <1>3, <1>4, <2>2, AddsOne
    <2>4. TInv' /\ Floor' = o + 2
      BY <1>2, <1>3, <2>3, DocumentGoes DEF Tokenize
    <2> QED BY <1>3, <1>4, <2>2, <2>4, AddsOne DEF Sound
  <1> QED BY <1>5, <1>6

\* A ^layout that is read, or an error.
LayoutRead(t, o) ==
  /\ At(o + 1) = "layout" /\ At(o + 2) = " "
  /\ \E e \in LayoutEnd(o + 3) : Add(<<Node("layout", o + 1, e)>>) /\ offset' = e
  /\ html' = t /\ UNCHANGED <<code, stack, phase>>

LEMMA LayoutIs ==
  ASSUME DocumentLayout
  PROVE  \E t, o : /\ t \in HtmlAt(offset) /\ o \in Symbols(t) /\ \A d \in Symbols(t) : o <= d
                   /\ In("document") /\ src' = src /\ Pairs(t) = {}
                   /\ Fail \/ LayoutRead(t, o)
  <1>1. PICK t \in HtmlAt(offset) : \E o \in Least(Symbols(t)) :
          /\ In("document") /\ src' = src /\ Pairs(t) = {}
          /\ IF <<At(o + 1), At(o + 2)>> # <<"layout", " ">> THEN Fail
             ELSE /\ \E e \in LayoutEnd(o + 3) :
                       Add(<<Node("layout", o + 1, e)>>) /\ offset' = e
                  /\ html' = t
                  /\ UNCHANGED <<code, stack, phase>>
    BY DEF DocumentLayout
  <1>2. \A o : <<At(o + 1), At(o + 2)>> = <<"layout", " ">>
               => At(o + 1) = "layout" /\ At(o + 2) = " "
    OBVIOUS
  <1> QED BY <1>1, <1>2, ZenonT(60) DEF Least, LayoutRead

LEMMA LayoutEnds ==
  ASSUME Running, NEW o \in Nat, NEW e \in LayoutEnd(o + 3)
  PROVE  e \in Nat /\ e >= o + 3 /\ (At(o + 2) = " " => At(e - 1) # "^")
  <1>1. o + 3 \in Nat /\ o + 3 + 1 \in Nat /\ Len(src) \in Nat
    <2>1. \A m \in Nat : m + 3 \in Nat /\ m + 3 + 1 \in Nat
      OBVIOUS
    <2>2. Len(src) \in Nat BY Types
    <2> QED BY ONLY <2>1, <2>2
  <1>2. CASE At(o + 3) = "!"
    <2>1. e = (o + 3) + 1 /\ e - 1 = o + 3 /\ e \in Nat /\ e >= o + 3
      BY <1>1, <1>2 DEF LayoutEnd
    <2> QED BY <1>2, <2>1
  <1>3. CASE At(o + 3) # "!"
    <2>1. /\ e \in (o + 3)..Len(src)
          /\ \A d \in (o + 3)..Len(src) : At(d) \notin Words \cup {"."} => e <= d
      BY <1>3 DEF LayoutEnd, Least
    <2>2. e \in Nat /\ e >= o + 3 BY <1>1, <2>1
    <2>3. e - 1 = o + 2 \/ (e - 1 \in (o + 3)..Len(src) /\ ~(e <= e - 1))
      BY <1>1, <2>1
    <2>4. "^" \notin Words \cup {"."}
      BY LexemesAssumption DEF Words, Idents, Keywords, Signs
    <2> QED BY <2>1, <2>2, <2>3, <2>4
  <1> QED BY <1>2, <1>3

LEMMA DocumentLayoutSound ==
  ASSUME Running, DocumentLayout
  PROVE  Sound
  <1>1. PICK t, o : /\ t \in HtmlAt(offset) /\ o \in Symbols(t) /\ In("document") /\ src' = src
                    /\ Fail \/ LayoutRead(t, o)
    BY LayoutIs
  <1>2. CASE Fail
    BY <1>1, <1>2, Failing
  <1>3. CASE LayoutRead(t, o)
    <2>1. PICK e \in LayoutEnd(o + 3) : Add(<<Node("layout", o + 1, e)>>) /\ offset' = e
      BY <1>3 DEF LayoutRead
    <2>2. /\ t \in [start : Nat, end : Nat] /\ Floor = offset
          /\ o \in Nat /\ o + 1 \in Nat /\ offset <= o + 1
      BY <1>1, Tokens
    <2>3. e \in Nat BY <2>2, LayoutEnds
    <2>4. "layout" \in Kinds /\ e <= e
      BY <2>3, Order DEF Kinds
    <2>5. nodes' \in Seq(Pieces)
      BY <2>1, <2>2, <2>3, <2>4, AddsOne
    <2>6. TInv' /\ Floor' = e
      BY <1>1, <1>3, <2>1, <2>2, <2>3, <2>5, DocumentGoes DEF LayoutRead
    <2> QED BY <2>1, <2>2, <2>3, <2>4, <2>6, AddsOne DEF Sound
  <1> QED BY <1>1, <1>2, <1>3

\* A symbol is followed by Go code: the frame f is called, and `back` waits.
LEMMA Transitions ==
  ASSUME Running, src' = src, html' \in [start : Nat, end : Nat], nodes' \in Seq(Pieces),
         NEW o \in Nat, offset' = o, Reset(o), UNCHANGED phase,
         NEW back \in Frames, back.pc \in {"document", "resume"},
         Call(Frame("keyword"), back), Replaces(back)
  PROVE  TInv' /\ Floor' = o
  <1>1. src \in Seq(Lexemes) BY Types DEF Typed
  <1>2. code' \in GoParsers /\ GoodLook' /\ Unread'
    BY <1>1, Resets
  <1>3. /\ Frame("keyword") \in Frames /\ Frame("keyword").pc = "keyword"
        /\ "keyword" \in CodePcs /\ "keyword" \in Plain \ {"block"}
    BY FrameType, PcNames DEF CodePcList, Plain, Expressing
  <1>4. back.pc \in Below(Frame("keyword").pc)
    BY <1>3, BelowCode DEF Callables
  <1>5. stack' \in Seq(Frames) /\ Linked' /\ Top' = Frame("keyword")
    BY <1>3, <1>4, Calls
  <1>6. Typed' BY <1>1, <1>2, Types DEF Typed
  <1>7. Placed' BY <1>2, <1>3, <1>5, Placing
  <1>8. Floor' = offset'
    BY <1>3, <1>5, PcNames, NextFloorRules DEF FloorRule, Expressing
  <1> QED BY <1>5, <1>6, <1>7, <1>8, InvWhole

\* The text before a symbol, if there is any.
LEMMA TextBefore ==
  ASSUME Running, NEW t, NEW a \in Nat, t.start = a, NEW o \in Nat, Add(Lead(t, o)),
         Floor <= a
  PROVE  nodes' \in Seq(Pieces) /\ (o <= Floor' /\ Floor <= Floor' => Orderly)
  <1>1. "literal" \in Kinds BY DEF Kinds
  <1>2. CASE o > t.start
    <2>1. Add(<<Node("literal", a, o)>>)
      BY <1>2 DEF Lead
    <2> QED BY <1>1, <2>1, AddsOne
  <1>3. CASE ~(o > t.start)
    <2>1. Add(<<>>) BY <1>3 DEF Lead
    <2> QED BY <2>1, AddsNone
  <1> QED BY <1>2, <1>3

LEMMA DocumentTransitionSound ==
  ASSUME Running, DocumentTransition
  PROVE  Sound
  <1>0. PICK t \in HtmlAt(offset) : \E o \in Symbols(t) :
          /\ Tokenize(t) /\ Add(Lead(t, o)) /\ offset' = o + 1 /\ Reset(o + 1)
          /\ Call(Frame("keyword"), Top) /\ UNCHANGED phase
    BY DEF DocumentTransition, Least
  <1>1. PICK o \in Symbols(t) :
          /\ Tokenize(t) /\ Add(Lead(t, o)) /\ offset' = o + 1 /\ Reset(o + 1)
          /\ Call(Frame("keyword"), Top) /\ UNCHANGED phase
    BY <1>0
  <1>2. /\ t \in [start : Nat, end : Nat] /\ t.start = offset /\ Floor = offset
        /\ offset \in Nat /\ o \in Nat /\ o + 1 \in Nat /\ o <= o + 1 /\ offset <= o + 1
        /\ offset <= offset /\ Top.pc = "document"
    BY <1>1, Tokens DEF Tokenize
  <1>3. nodes' \in Seq(Pieces)
    BY <1>1, <1>2, TextBefore
  <1>4. Top \in Frames /\ Replaces(Top)
    BY <1>2, Stack DEF Replaces
  <1>5. src' = src /\ html' \in [start : Nat, end : Nat]
    BY <1>1, <1>2 DEF Tokenize
  <1>6. TInv' /\ Floor' = o + 1
    BY <1>1, <1>2, <1>3, <1>4, <1>5, Transitions
  <1>7. o <= Floor' /\ Floor <= Floor' BY <1>2, <1>6
  <1> QED BY <1>1, <1>2, <1>6, <1>7, TextBefore DEF Sound

LEMMA DocumentStops ==
  ASSUME Running, DocumentEnd \/ AttributeEnd
  PROVE  Sound
  <1>1. CASE DocumentEnd
    <2>1. PICK t \in HtmlAt(offset) : Tokenize(t)
      BY <1>1 DEF DocumentEnd
    <2>2. UNCHANGED <<src, offset, code, stack, nodes>> /\ phase' = "parsed" /\ html' = t
      BY <1>1, <2>1 DEF DocumentEnd, Tokenize
    <2>3. t \in [start : Nat, end : Nat]
      BY <2>1, Tokens DEF Tokenize
    <2>4. TypeOK' /\ Linked'
      BY <2>2, <2>3 DEF Running, TInv, TypeOK, Linked
    <2> QED BY <2>2, <2>4 DEF Sound, TInv
  <1>2. CASE AttributeEnd
    <2>1. UNCHANGED <<src, offset, html, code, stack, nodes>> /\ phase' = "done"
      BY <1>2 DEF AttributeEnd
    <2>2. TypeOK' /\ Linked'
      BY <2>1 DEF Running, TInv, TypeOK, Linked
    <2> QED BY <2>1, <2>2 DEF Sound, TInv
  <1> QED BY <1>1, <1>2

\* A child, and what is known where one is parsed.
LEMMA AtChild ==
  ASSUME Running, Top.pc \in {"children", "element"}
  PROVE  /\ Floor = html.start /\ html.start <= html.end /\ offset = html.end
         /\ html.start \in Nat /\ html.end \in Nat /\ offset \in Nat
         /\ html.start <= html.start /\ html.end <= html.end
         /\ Top.pc \notin CodePcs /\ Top \in Frames /\ Top.open \in Seq(STRING)
         /\ src \in Seq(Lexemes) /\ Len(stack) # 1
         /\ \A o \in Symbols(html) : /\ o \in Nat /\ o + 1 \in Nat /\ html.start <= o
                                     /\ o <= o + 1 /\ html.start <= o + 1
  <1>1. /\ html.start \in Nat /\ html.end \in Nat /\ offset \in Nat /\ src \in Seq(Lexemes)
    BY Types DEF Typed
  <1>2. html.start <= html.end /\ offset = html.end
    BY DEF Running, TInv, Placed
  <1>3. Floor = html.start
    BY FloorRules DEF FloorRule
  <1>4. Top.pc \notin CodePcs
    BY PcNames DEF CodePcList
  <1>5. Top \in Frames /\ Top.open \in Seq(STRING)
    <2>1. Top \in Frames BY Stack
    <2> QED BY <2>1 DEF Frames
  <1>6. Len(stack) # 1
    BY DEF Running, TInv, Linked, Top
  <1>7. \A a, b \in Nat : \A o \in a..(b - 1) :
          o \in Nat /\ a <= o /\ o + 1 \in Nat /\ o <= o + 1 /\ a <= o + 1
    OBVIOUS
  <1>8. Symbols(html) \subseteq html.start..(html.end - 1)
    BY DEF Symbols
  <1> QED BY <1>1, <1>2, <1>3, <1>4, <1>5, <1>6, <1>7, <1>8, Order

LEMMA TagNames ==
  ASSUME NEW o
  PROVE  /\ At(o) \in DOMAIN Open => Open[At(o)] \in STRING
         /\ At(o) \in DOMAIN Close => Close[At(o)] \in STRING
  BY LexemesAssumption

\* The children go on with the next token.
LEMMA ChildrenGo ==
  ASSUME Running, src' = src, nodes' \in Seq(Pieces), UNCHANGED <<code, phase>>,
         NEW o \in Nat, HtmlAdvance(o), stack' \in Seq(Frames), Linked',
         Top'.pc = "children"
  PROVE  TInv' /\ Floor' = o
  <1>1. PICK t \in HtmlAt(o) : html' = t /\ offset' = t.end
    BY DEF HtmlAdvance
  <1>2. src \in Seq(Lexemes) BY Types DEF Typed
  <1>3. t \in [start : Nat, end : Nat] /\ t.start = o /\ o <= t.end /\ t.end \in Nat
    BY <1>1, <1>2, HtmlFinds
  <1>4. Typed' BY <1>1, <1>2, <1>3, Types DEF Typed
  <1>5. Placed'
    <2>1. html.start' <= html.end' /\ offset' = html.end' /\ Top'.pc \notin CodePcs
      BY <1>1, <1>3, PcNames DEF CodePcList
    <2> QED BY <2>1, HtmlPlaces
  <1>6. Floor' = o
    BY <1>1, <1>3, NextFloorRules DEF FloorRule
  <1> QED BY <1>4, <1>5, <1>6, InvWhole

\* The frame that runs may change without changing its place.
LEMMA Remains ==
  ASSUME Running, NEW f \in Frames, Become(f), Replaces(f)
  PROVE  stack' \in Seq(Frames) /\ Linked' /\ Top' = f
  <1> DEFINE s == <<f>>
  <1>1. s \in Seq(Frames) /\ Len(s) = 1 /\ s[1] = f
    OBVIOUS
  <1>2. stack' = Callers \o s
    BY Stack, AppendIsConcat DEF Become
  <1>3. Chained(s) /\ Replaces(s[1]) /\ Len(s) >= 1 /\ s[Len(s)] = f
    BY <1>1 DEF Chained
  <1> HIDE DEF s
  <1> QED BY <1>1, <1>2, <1>3, Restacked

LEMMA ChildStays ==
  ASSUME Running, UNCHANGED stack
  PROVE  stack' \in Seq(Frames) /\ Linked' /\ Top' = Top
  BY DEF Running, TInv, TypeOK, Linked, Top

LEMMA ChildElementSound ==
  ASSUME Running, ChildElement
  PROVE  Sound
  <1>1. Top.pc = "children" BY DEF ChildElement, In
  <1>2. /\ Child \in DOMAIN Open /\ Add(<<Node("element", html.start, html.end)>>)
        /\ HtmlAdvance(offset) /\ UNCHANGED <<src, code, phase>>
    BY DEF ChildElement
  <1>3. /\ Floor = html.start /\ html.start <= html.end /\ offset = html.end
        /\ html.start \in Nat /\ html.end \in Nat /\ offset \in Nat
        /\ html.start <= html.start /\ html.end <= html.end
        /\ Top \in Frames /\ Top.open \in Seq(STRING) /\ Len(stack) # 1
    BY <1>1, AtChild
  <1>4. "element" \in Kinds BY DEF Kinds
  <1>5. nodes' \in Seq(Pieces)
    BY <1>2, <1>3, <1>4, AddsOne
  <1>6. stack' \in Seq(Frames) /\ Linked' /\ Top'.pc = "children"
    <2>1. CASE UNCHANGED stack
      BY <1>1, <2>1, ChildStays
    <2>2. CASE Call(Frame("children"), [Top EXCEPT !.open = Append(@, Open[Child])])
      <3> DEFINE f == [Top EXCEPT !.open = Append(@, Open[Child])]
      <3>1. Open[Child] \in STRING
        BY <1>2, TagNames DEF Child
      <3>2. /\ Append(Top.open, Open[Child]) \in Seq(STRING)
            /\ Append(Top.open, Open[Child]) # <<>>
        BY <1>3, <3>1, AppendProperties
      <3>3. f \in Frames /\ f.pc = "children" /\ f.open # <<>>
        BY <1>1, <1>3, <3>2 DEF Frames
      <3>4. Call(Frame("children"), f) BY <2>2
      <3> HIDE DEF f
      <3>5. Frame("children") \in Frames /\ Frame("children").pc = "children"
        BY FrameType, PcNames
      <3>6. Replaces(f) /\ f.pc \in Below(Frame("children").pc)
        BY <1>1, <1>3, <3>3, <3>5, BelowCode DEF Replaces
      <3> QED BY <3>3, <3>4, <3>5, <3>6, Calls
    <2> QED BY <2>1, <2>2 DEF ChildElement, Stay
  <1>7. TInv' /\ Floor' = offset
    BY <1>2, <1>3, <1>5, <1>6, ChildrenGo
  <1> QED BY <1>2, <1>3, <1>4, <1>7, AddsOne DEF Sound

LEMMA ChildrenReturnSound ==
  ASSUME Running, ChildrenReturn
  PROVE  Sound
  <1>1. Top.pc = "children" /\ Return /\ UNCHANGED <<src, offset, html, code, nodes, phase>>
    BY DEF ChildrenReturn, In
  <1>2. /\ Floor = html.start /\ html.start <= html.end /\ offset = html.end
        /\ html.start <= html.start
    BY <1>1, AtChild
  <1>3. stack' \in Seq(Frames) /\ Linked' /\ Top'.pc \in {"children", "element"}
    BY <1>1, Returns, BelowCode
  <1>4. Typed' BY <1>1, Types DEF Typed
  <1>5. Top'.pc \notin CodePcs
    BY <1>3, PcNames DEF CodePcList
  <1>6. html.start' <= html.end' /\ offset' = html.end'
    BY <1>1, <1>2
  <1>7. Placed' BY <1>5, <1>6, HtmlPlaces
  <1>8. Floor' = html.start
    BY <1>1, <1>3, NextFloorRules DEF FloorRule
  <1> QED BY <1>1, <1>2, <1>3, <1>4, <1>7, <1>8, InvWhole DEF Sound, Orderly

LEMMA ChildEndSound ==
  ASSUME Running, ChildEnd
  PROVE  Sound
  <1>1. Top.pc = "children" /\ Top.open # <<>> /\ src' = src /\ Child \in DOMAIN Close
    BY DEF ChildEnd, In
  <1>2. CASE Top.open[Len(Top.open)] # Close[Child]
    BY <1>1, <1>2, Failing DEF ChildEnd
  <1>3. CASE Top.open[Len(Top.open)] = Close[Child]
    <2> DEFINE f == [Top EXCEPT !.open = SubSeq(@, 1, Len(@) - 1)]
    <2>1. /\ HtmlAdvance(offset) /\ Add(<<Node("end", html.start, html.end)>>)
          /\ Become(f) /\ UNCHANGED <<code, phase>>
      BY <1>3 DEF ChildEnd
    <2>2. /\ Floor = html.start /\ html.start <= html.end /\ offset = html.end
          /\ html.start \in Nat /\ html.end \in Nat /\ offset \in Nat
          /\ html.start <= html.start /\ html.end <= html.end
          /\ Top \in Frames /\ Top.open \in Seq(STRING) /\ Len(stack) # 1
      BY <1>1, AtChild
    <2>3. "end" \in Kinds BY DEF Kinds
    <2>4. nodes' \in Seq(Pieces)
      BY <2>1, <2>2, <2>3, AddsOne
    <2>5. f \in Frames /\ f.pc = "children"
      <3>1. SubSeq(Top.open, 1, Len(Top.open) - 1) \in Seq(STRING)
        <4> DEFINE o == Top.open
        <4>1. o \in Seq(STRING) /\ Len(o) \in Nat
          BY <2>2, LenProperties
        <4>2. \A k \in 1..Len(o) : o[k] \in STRING
          BY <4>1, ElementOfSeq
        <4> HIDE DEF o
        <4>3. Len(o) - 1 \in Int /\ \A k \in 1..(Len(o) - 1) : o[k] \in STRING
          BY <4>1, <4>2
        <4>4. SubSeq(o, 1, Len(o) - 1) \in Seq(STRING)
          BY <4>1, <4>3, SubSeqProperties
        <4> QED BY <4>4 DEF o
      <3> QED BY <1>1, <2>2, <3>1 DEF Frames
    <2> HIDE DEF f
    <2>6. Replaces(f)
      BY <1>1, <2>2, <2>5 DEF Replaces
    <2>7. stack' \in Seq(Frames) /\ Linked' /\ Top'.pc = "children"
      BY <2>1, <2>5, <2>6, Remains
    <2>8. TInv' /\ Floor' = offset
      BY <1>1, <2>1, <2>2, <2>4, <2>7, ChildrenGo
    <2> QED BY <2>1, <2>2, <2>3, <2>8, AddsOne DEF Sound
  <1> QED BY <1>2, <1>3

LEMMA ChildTextSound ==
  ASSUME Running, ChildDropped \/ ChildLiteral
  PROVE  Sound
  <1>1. /\ Top.pc = "children" /\ HtmlAdvance(offset) /\ UNCHANGED <<src, code, stack, phase>>
        /\ UNCHANGED nodes \/ Add(<<Node("literal", html.start, html.end)>>)
    BY DEF ChildDropped, ChildLiteral, In
  <1>2. /\ Floor = html.start /\ html.start <= html.end /\ offset = html.end
        /\ html.start \in Nat /\ html.end \in Nat /\ offset \in Nat
        /\ html.start <= html.start /\ html.end <= html.end
    BY <1>1, AtChild
  <1>3. "literal" \in Kinds BY DEF Kinds
  <1>4. nodes' \in Seq(Pieces)
    BY <1>1, <1>2, <1>3, AddsOne, NodesTyped
  <1>5. stack' \in Seq(Frames) /\ Linked' /\ Top'.pc = "children"
    BY <1>1, ChildStays
  <1>6. TInv' /\ Floor' = offset
    BY <1>1, <1>2, <1>4, <1>5, ChildrenGo
  <1>7. Orderly
    <2>1. CASE UNCHANGED nodes
      BY <1>2, <1>6, <2>1 DEF Orderly
    <2>2. CASE Add(<<Node("literal", html.start, html.end)>>)
      BY <1>2, <1>3, <1>6, <2>2, AddsOne
    <2> QED BY <1>1, <2>1, <2>2
  <1> QED BY <1>6, <1>7 DEF Sound

LEMMA ChildTransitionSound ==
  ASSUME Running, ChildTransition
  PROVE  Sound
  <1> DEFINE f == [Top EXCEPT !.pc = "resume"]
  <1>1. /\ Top.pc = "children" /\ UNCHANGED <<src, html, phase>>
        /\ Call(Frame("keyword"), f)
    BY DEF ChildTransition, In
  <1>2. PICK o \in Symbols(html) : Add(Lead(html, o)) /\ offset' = o + 1 /\ Reset(o + 1)
    BY DEF ChildTransition, Least
  <1>3. /\ Floor = html.start /\ html.start \in Nat /\ html.start <= html.start
        /\ o \in Nat /\ o + 1 \in Nat /\ html.start <= o
        /\ o <= o + 1 /\ html.start <= o + 1
        /\ Top \in Frames /\ Len(stack) # 1
    BY <1>1, AtChild
  <1>4. nodes' \in Seq(Pieces)
    BY <1>2, <1>3, TextBefore
  <1>5. f \in Frames /\ f.pc = "resume"
    <2>1. "resume" \in Pcs BY PcNames
    <2> QED BY <1>3, <2>1, FrameChanges DEF Frames
  <1> HIDE DEF f
  <1>6. Replaces(f)
    BY <1>1, <1>3, <1>5, BelowCode DEF Replaces
  <1>7. src' = src /\ html' \in [start : Nat, end : Nat]
    BY <1>1, Types DEF Typed
  <1>8. TInv' /\ Floor' = o + 1
    BY <1>1, <1>2, <1>3, <1>4, <1>5, <1>6, <1>7, Transitions
  <1>9. o <= Floor' /\ Floor <= Floor' BY <1>3, <1>8
  <1>10. Orderly BY <1>2, <1>3, <1>9, TextBefore
  <1> QED BY <1>8, <1>10 DEF Sound

LEMMA ChildResumeSound ==
  ASSUME Running, ChildResume
  PROVE  Sound
  <1> DEFINE f == [Top EXCEPT !.pc = "children"]
  <1>1. /\ Top.pc = "resume" /\ HtmlAdvance(offset) /\ Become(f)
        /\ UNCHANGED <<src, code, nodes, phase>>
    BY DEF ChildResume, In
  <1>2. Top \in Frames /\ offset \in Nat /\ offset <= offset
    BY Stack, Types, Order DEF Typed
  <1>3. f \in Frames /\ f.pc = "children"
    <2>1. "children" \in Pcs BY PcNames
    <2> QED BY <1>2, <2>1, FrameChanges DEF Frames
  <1> HIDE DEF f
  <1>4. Replaces(f)
    <2>1. Len(stack) # 1
      BY <1>1 DEF Running, TInv, Linked, Top
    <2> QED BY <1>1, <1>3, <2>1, BelowCode DEF Replaces
  <1>5. stack' \in Seq(Frames) /\ Linked' /\ Top'.pc = "children"
    BY <1>1, <1>3, <1>4, Remains
  <1>6. TInv' /\ Floor' = offset
    BY <1>1, <1>2, <1>5, NodesTyped, ChildrenGo
  <1>7. Floor = offset
    BY <1>1, PcNames, FloorRules DEF FloorRule, Expressing
  <1> QED BY <1>1, <1>2, <1>6, <1>7 DEF Sound, Orderly

LEMMA ElementEndSound ==
  ASSUME Running, ElementEnd
  PROVE  Sound
  <1>1. Top.pc = "element" /\ src' = src
    BY DEF ElementEnd, In
  <1>2. CASE ~(Child \in DOMAIN Close /\ Top.open = <<Close[Child]>>)
    BY <1>1, <1>2, Failing DEF ElementEnd
  <1>3. CASE Child \in DOMAIN Close /\ Top.open = <<Close[Child]>>
    <2>1. /\ Add(<<Node("end", html.start, html.end)>>) /\ Reset(offset) /\ Return
          /\ UNCHANGED <<offset, html, phase>>
      BY <1>3 DEF ElementEnd
    <2>2. /\ Floor = html.start /\ html.start <= html.end /\ offset = html.end
          /\ html.start \in Nat /\ html.end \in Nat /\ offset \in Nat
          /\ html.start <= html.start /\ html.end <= html.end
          /\ src \in Seq(Lexemes)
      BY <1>1, AtChild
    <2>3. "end" \in Kinds BY DEF Kinds
    <2>4. nodes' \in Seq(Pieces)
      BY <2>1, <2>2, <2>3, AddsOne
    <2>5. /\ code' \in GoParsers /\ GoodLook' /\ Unread' /\ LookAt' \in Nat /\ offset' = offset
      BY <1>1, <2>1, <2>2, Resets
    <2>6. JustRead'
      BY <2>2, <2>5, OneMore DEF Unread, JustRead
    <2>7. stack' \in Seq(Frames) /\ Linked' /\ Top'.pc = "close"
      BY <1>1, <2>1, Returns, BelowCode
    <2>8. Typed'
      BY <1>1, <2>1, <2>4, <2>5, Types DEF Typed
    <2>9. Placed'
      <3>1. Top'.pc \in CodePcs
        BY <2>7, PcNames DEF CodePcList
      <3> QED BY <2>5, <2>6, <2>7, <3>1, Placing
    <2>10. Floor' = html.end
      BY <2>2, <2>5, <2>7, PcNames, NextFloorRules DEF FloorRule, Expressing
    <2> QED BY <2>1, <2>2, <2>3, <2>7, <2>8, <2>9, <2>10, AddsOne, InvWhole DEF Sound
  <1> QED BY <1>2, <1>3

-----------------------------------------------------------------------------
(* An element that a block consists of, after white space or not.          *)

MarkupIn(t) == IF IsAllWhitespace(t) THEN HtmlAt(t.end) ELSE {t}

MarkupNodes(t, u) == (IF u = t THEN <<>> ELSE <<Node("literal", t.start, t.end)>>)
                       \o <<Node("element", u.start, u.end)>>

ElementFrames(u) == <<Frame("close"), [Frame("element") EXCEPT !.open = <<Open[At(u.start)]>>],
                      Frame("children")>>

MarkupRead(t, u) ==
  /\ t \in HtmlAt(offset) /\ u \in MarkupIn(t) /\ At(u.start) \in DOMAIN Open
  /\ Add(MarkupNodes(t, u))
  /\ UNCHANGED phase
  /\ Open[At(u.start)] \in Void =>
       html' = u /\ offset' = u.end /\ Reset(u.end) /\ Become(Frame("close"))
  /\ Open[At(u.start)] \notin Void =>
       HtmlAdvance(u.end) /\ UNCHANGED code /\ stack' = Callers \o ElementFrames(u)

LEMMA BlockMarkupReads ==
  ASSUME BlockMarkup
  PROVE  /\ Top.pc = "body" /\ Top.pc \in CodePcs /\ src' = src
         /\ Fail \/ \E t, u : MarkupRead(t, u)
  <1>1. Top.pc = "body" /\ Top.pc \in CodePcs /\ src' = src
    BY PcNames DEF BlockMarkup, In, CodePcList
  <1>2. ASSUME ~Fail PROVE \E t, u : MarkupRead(t, u)
    BY <1>2 DEF BlockMarkup, MarkupRead, MarkupIn, MarkupNodes, ElementFrames
  <1> QED BY <1>1, <1>2

\* Where the tokens are, and the nodes that they become.
LEMMA MarkupTokens ==
  ASSUME Running, NEW t \in HtmlAt(offset), NEW u \in MarkupIn(t)
  PROVE  /\ t.start = offset /\ offset <= t.end /\ t.start \in Nat /\ t.end \in Nat
         /\ t \in [start : Nat, end : Nat]
         /\ u.start \in Nat /\ u.end \in Nat /\ u.start <= u.end /\ offset <= u.end
         /\ u \in [start : Nat, end : Nat] /\ u \in HtmlAt(u.start)
         /\ u # t => u.start = t.end /\ IsAllWhitespace(t)
         /\ t.start \in Int /\ t.end \in Int /\ u.start \in Int /\ u.end \in Int
         /\ "element" \in Kinds /\ "literal" \in Kinds /\ "element" \notin Literals
         /\ Add(MarkupNodes(t, u)) =>
              /\ u = t => Add(<<Node("element", u.start, u.end)>>)
              /\ u # t => Add(<<Node("literal", t.start, t.end),
                                Node("element", u.start, u.end)>>)
  <1>1. src \in Seq(Lexemes) /\ offset \in Nat
    BY Types DEF Typed
  <1>2. /\ t.start = offset /\ offset <= t.end /\ t.start \in Nat /\ t.end \in Nat
        /\ t \in [start : Nat, end : Nat]
    BY <1>1, HtmlFinds
  <1>3. /\ u.start \in Nat /\ u.end \in Nat /\ u.start <= u.end /\ offset <= u.end
        /\ u \in [start : Nat, end : Nat] /\ u \in HtmlAt(u.start)
        /\ u # t => u.start = t.end /\ IsAllWhitespace(t)
    <2>1. CASE u = t
      BY <1>2, <2>1
    <2>2. CASE u # t
      <3>1. u \in HtmlAt(t.end) /\ IsAllWhitespace(t)
        BY <2>2 DEF MarkupIn
      <3>2. u.start = t.end /\ t.end <= u.end /\ u \in [start : Nat, end : Nat]
        BY <1>1, <1>2, <3>1, HtmlFinds
      <3>3. u.start \in Nat /\ u.end \in Nat BY <3>2
      <3> QED BY <1>1, <1>2, <3>1, <3>2, <3>3, Order
    <2> QED BY <2>1, <2>2
  <1>4. /\ t.start \in Int /\ t.end \in Int /\ u.start \in Int /\ u.end \in Int
        /\ "element" \in Kinds /\ "literal" \in Kinds /\ "element" \notin Literals
    BY <1>2, <1>3, Order DEF Kinds, Literals
  <1>5. Add(MarkupNodes(t, u)) =>
          /\ u = t => Add(<<Node("element", u.start, u.end)>>)
          /\ u # t => Add(<<Node("literal", t.start, t.end), Node("element", u.start, u.end)>>)
    BY Concats DEF MarkupNodes
  <1> QED BY <1>2, <1>3, <1>4, <1>5

LEMMA ElementFramesType ==
  ASSUME NEW u, At(u.start) \in DOMAIN Open
  PROVE  LET s == ElementFrames(u) IN
         /\ s \in Seq(Frames) /\ Len(s) = 3
         /\ s[1] = Frame("close") /\ s[1].pc = "close"
         /\ s[2].pc = "element" /\ s[2].open = <<Open[At(u.start)]>> /\ s[2].open # <<>>
         /\ s[3] = Frame("children") /\ s[3].pc = "children"
         /\ \A k \in 2..Len(s) : k - 1 \in {1, 2} /\ (k - 1 = 1 => k = 2) /\ (k - 1 = 2 => k = 3)
  <1> DEFINE e == [Frame("element") EXCEPT !.open = <<Open[At(u.start)]>>]
             s == <<Frame("close"), e, Frame("children")>>
  <1>1. \A pc \in {"close", "element", "children"} : Frame(pc) \in Frames /\ Frame(pc).pc = pc
    BY FrameType, PcNames DEF CodePcList
  <1>2. e \in Frames /\ e.pc = "element" /\ e.open = <<Open[At(u.start)]>> /\ e.open # <<>>
    <2>1. <<Open[At(u.start)]>> \in Seq(STRING) /\ <<Open[At(u.start)]>> # <<>>
      BY TagNames
    <2> QED BY <1>1, <2>1 DEF Frames
  <1>3. ElementFrames(u) = s BY DEF ElementFrames
  <1> HIDE DEF e
  <1>4. s \in Seq(Frames) /\ Len(s) = 3 /\ s[1] = Frame("close") /\ s[2] = e
        /\ s[3] = Frame("children")
    BY <1>1, <1>2
  <1>5. \A k \in 2..3 : k - 1 \in {1, 2} /\ (k - 1 = 1 => k = 2) /\ (k - 1 = 2 => k = 3)
    OBVIOUS
  <1> HIDE DEF s
  <1> QED BY <1>1, <1>2, <1>3, <1>4, <1>5

\* The children run, the element waits for them, and the block for it.
LEMMA ElementCalled ==
  ASSUME Running, Top.pc = "body", NEW u, At(u.start) \in DOMAIN Open,
         stack' = Callers \o ElementFrames(u)
  PROVE  stack' \in Seq(Frames) /\ Linked' /\ Top'.pc = "children"
  <1> DEFINE s == ElementFrames(u)
  <1>1. /\ s \in Seq(Frames) /\ Len(s) = 3 /\ Len(s) >= 1 /\ s[Len(s)].pc = "children"
        /\ s[1].pc = "close" /\ s[2].pc = "element" /\ s[3].pc = "children"
        /\ s[2].open # <<>>
        /\ \A k \in 2..Len(s) : k - 1 \in {1, 2} /\ (k - 1 = 1 => k = 2) /\ (k - 1 = 2 => k = 3)
    BY ElementFramesType
  <1>2. "close" \in CodePcs /\ "body" \in CodePcs
    BY PcNames DEF CodePcList
  <1> HIDE DEF s
  <1>3. Chained(s)
    <2>1. Sits(s[2], s[1]) /\ Sits(s[3], s[2])
      BY <1>1, <1>2, BelowCode DEF Sits
    <2> QED BY <1>1, <2>1 DEF Chained
  <1>4. Replaces(s[1])
    <2>1. Len(stack) # 1
      BY <1>2 DEF Running, TInv, Linked, Top
    <2> QED BY <1>1, <1>2, <2>1, BelowCode DEF Replaces
  <1>5. stack' = Callers \o s BY DEF s
  <1> QED BY <1>1, <1>3, <1>4, <1>5, Restacked

LEMMA BlockMarkupSound ==
  ASSUME Running, BlockMarkup
  PROVE  Sound
  <1>1. Top.pc = "body" /\ Top.pc \in CodePcs /\ src' = src
    BY BlockMarkupReads
  <1>4. CASE Fail
    BY <1>1, <1>4, Failing
  <1>5. CASE \E t, u : MarkupRead(t, u)
    <2>0. PICK t, u : MarkupRead(t, u)
      BY <1>5
    <2>1. src \in Seq(Lexemes) /\ offset \in Nat
      BY Types DEF Typed
    <2>2. t \in HtmlAt(offset) /\ u \in MarkupIn(t)
      BY <2>0 DEF MarkupRead
    <2>3. /\ t.start = offset /\ offset <= t.end /\ t.start \in Nat /\ t.end \in Nat
          /\ u.start \in Nat /\ u.end \in Nat /\ u.start <= u.end /\ offset <= u.end
          /\ u \in [start : Nat, end : Nat]
          /\ u # t => u.start = t.end
          /\ "element" \in Kinds /\ "literal" \in Kinds
      BY <2>2, MarkupTokens
    <2>4. Floor = offset
      BY <1>1, PcNames, FloorRules DEF FloorRule, Expressing
    <2>6. nodes' \in Seq(Pieces) /\ (Floor' = u.end => Orderly)
      <3>1. CASE u = t
        <4>1. Add(<<Node("element", u.start, u.end)>>)
          BY <2>0, <2>2, <3>1, MarkupTokens DEF MarkupRead
        <4>2. Floor <= u.start /\ u.end <= u.end
          BY <2>1, <2>3, <2>4, <3>1, Order
        <4> QED BY <2>3, <4>1, <4>2, AddsOne
      <3>2. CASE u # t
        <4>1. Add(<<Node("literal", t.start, t.end), Node("element", u.start, u.end)>>)
          BY <2>0, <2>2, <3>2, MarkupTokens DEF MarkupRead
        <4>2. Floor <= t.start /\ t.end <= u.start /\ u.end <= u.end
          BY <2>1, <2>3, <2>4, <3>2, Order
        <4> QED BY <2>3, <4>1, <4>2, AddsTwo
      <3> QED BY <3>1, <3>2
    <2>7. Frame("close") \in Frames /\ Frame("close").pc = "close" /\ "close" \in CodePcs
      BY FrameType, PcNames DEF CodePcList
    <2>8. CASE Open[At(u.start)] \in Void
      <3>1. /\ html' = u /\ offset' = u.end /\ Reset(u.end) /\ Become(Frame("close"))
            /\ UNCHANGED phase
        BY <2>0, <2>8 DEF MarkupRead
      <3>2. code' \in GoParsers /\ GoodLook' /\ Unread' /\ LookAt' \in Nat
        BY <1>1, <2>1, <2>3, <3>1, Resets
      <3>3. JustRead'
        BY <2>3, <3>1, <3>2, OneMore DEF Unread, JustRead
      <3>4. stack' \in Seq(Frames) /\ Linked' /\ Top' = Frame("close")
        BY <1>1, <2>7, <3>1, Becomes
      <3>5. Typed'
        BY <1>1, <2>3, <2>6, <3>1, <3>2, Types DEF Typed
      <3>6. Placed'
        BY <2>7, <3>2, <3>3, <3>4, Placing
      <3>7. Floor' = u.end
        BY <2>7, <3>1, <3>4, PcNames, NextFloorRules DEF FloorRule, Expressing
      <3> QED BY <2>6, <3>4, <3>5, <3>6, <3>7, InvWhole DEF Sound
    <2>9. CASE Open[At(u.start)] \notin Void
      <3>1. /\ HtmlAdvance(u.end) /\ UNCHANGED <<code, phase>> /\ At(u.start) \in DOMAIN Open
            /\ stack' = Callers \o ElementFrames(u)
        BY <2>0, <2>9 DEF MarkupRead
      <3>2. stack' \in Seq(Frames) /\ Linked' /\ Top'.pc = "children"
        BY <1>1, <3>1, ElementCalled
      <3>3. TInv' /\ Floor' = u.end
        BY <1>1, <2>3, <2>6, <3>1, <3>2, ChildrenGo
      <3> QED BY <2>6, <3>3 DEF Sound
    <2> QED BY <2>8, <2>9
  <1> QED BY <1>4, <1>5, BlockMarkupReads

-----------------------------------------------------------------------------
(* The invariants.                                                         *)

LEMMA StepSound ==
  ASSUME Running, HtmlStep \/ CodeStep
  PROVE  Sound
  <1>1. CASE HtmlStep
    <2>1. CASE ChildDoctype
      BY <2>1, Failing DEF ChildDoctype
    <2> QED
      BY <1>1, <2>1, DocumentStops, DocumentLiteralSound, DocumentEscapeSound,
         DocumentLayoutSound, DocumentTransitionSound, ChildElementSound,
         ChildrenReturnSound, ChildEndSound, ChildTextSound, ChildTransitionSound,
         ChildResumeSound, ElementEndSound DEF HtmlStep
  <1>2. CASE CodeStep
    BY <1>2, KeywordSound, ScanTokenSound, CondDoneSound, ClauseDoneSound, CodeDoneSound,
       ExprDoneSound, ImportSound, HandlerSound, NamedBlockSound, BlockSound,
       BlockCodeSound, BlockMarkupSound, BlockEndSound, ElseSound, ArgumentsSound,
       PeriodSound, NameDoneSound DEF CodeStep
  <1> QED BY <1>1, <1>2

\* A set of naturals has a least element.
LEMMA LeastNatural ==
  ASSUME NEW T \in SUBSET Nat, T # {}
  PROVE  \E n \in T : \A m \in T : n <= m
  <1> DEFINE R == OpToRel(<, Nat)
  <1>1. IsWellFoundedOn(R, Nat)
    BY NatLessThanWellFounded
  <1>2. PICK n \in T : \A m \in T : ~ (<<m, n>> \in R)
    <2> HIDE DEF R
    <2> QED BY <1>1, WFMin
  <1>3. \A m \in T : ~ (m < n) BY <1>2 DEF OpToRel
  <1> QED BY <1>3

\* Induction up to n, over a set instead of a predicate.
LEMMA UpToInduction ==
  ASSUME NEW n \in Nat, NEW T \in SUBSET (0..n), 0 \in T,
         \A m \in 1..n : m - 1 \in T => m \in T
  PROVE  n \in T
  <1> SUFFICES ASSUME n \notin T PROVE FALSE
    OBVIOUS
  <1> DEFINE R == (0..n) \ T
  <1>1. R \in SUBSET Nat /\ R # {} OBVIOUS
  <1>2. PICK m \in R : \A l \in R : m <= l
    <2> HIDE DEF R
    <2> QED BY <1>1, LeastNatural
  <1>3. m # 0 /\ m \in 1..n /\ m - 1 \in 0..n /\ ~(m <= m - 1)
    OBVIOUS
  <1>4. m - 1 \in T BY <1>2, <1>3
  <1> QED BY <1>3, <1>4

\* The recursive function that CoalesceLiterals is exists.
LEMMA JoinSteps ==
  ASSUME Len(nodes) \in Nat, NEW begins
  PROVE  \E r : /\ r[0] = <<>>
                /\ \A n \in 1..Len(nodes) : r[n] = Join(begins, r[n - 1], n)
                /\ CoalesceLiterals(begins) = r[Len(nodes)]
  <1> DEFINE N == Len(nodes)
             Steps(f, m) == f[0] = <<>> /\ \A n \in 1..m : f[n] = Join(begins, f[n - 1], n)
             Stepped(m) == \E f : Steps(f, m)
             U == {m \in 0..N : Stepped(m)}
  <1>1. Stepped(0)
    <2>1. Steps([i \in {0} |-> <<>>], 0) OBVIOUS
    <2> QED BY <2>1
  <1>2. ASSUME NEW m \in 1..N, Stepped(m - 1) PROVE Stepped(m)
    <2>0. m \in Nat /\ m # 0 OBVIOUS
    <2>1. PICK f : Steps(f, m - 1)
      BY <1>2
    <2> DEFINE g == [i \in 0..m |-> IF i = m THEN Join(begins, f[m - 1], m) ELSE f[i]]
    <2>2. g[0] = <<>> BY <2>0, <2>1
    <2>3. ASSUME NEW i \in 1..m PROVE g[i] = Join(begins, g[i - 1], i)
      <3>1. i - 1 \in 0..m /\ i - 1 # m /\ i \in 0..m
        BY <2>0, <2>3
      <3>2. g[i - 1] = f[i - 1] BY <3>1
      <3>3. g[i] = IF i = m THEN Join(begins, f[m - 1], m) ELSE f[i]
        BY <3>1
      <3>4. i # m => f[i] = Join(begins, f[i - 1], i)
        BY <2>0, <2>1, <2>3
      <3> HIDE DEF g
      <3> QED BY <3>2, <3>3, <3>4
    <2>4. Steps(g, m)
      <3> HIDE DEF g
      <3> QED BY <2>2, <2>3
    <2> QED BY <2>4
  <1>3. N \in U
    <2>1. 0 \in U
      <3>1. 0 \in 0..N OBVIOUS
      <3> HIDE DEF Stepped, N
      <3> QED BY <1>1, <3>1
    <2>2. ASSUME NEW m \in 1..N, m - 1 \in U PROVE m \in U
      <3>1. m \in 0..N /\ Stepped(m - 1)
        <4> HIDE DEF Stepped
        <4> QED BY <2>2
      <3> HIDE DEF Stepped, N
      <3> QED BY <1>2, <3>1
    <2>3. U \in SUBSET (0..N) /\ N \in Nat OBVIOUS
    <2> HIDE DEF U, N
    <2> QED BY <2>1, <2>2, <2>3, UpToInduction
  <1>4. Stepped(N)
    <2> HIDE DEF Stepped
    <2> QED BY <1>3
  <1> DEFINE body(f) == [n \in 0..N |-> IF n = 0 THEN <<>> ELSE Join(begins, f[n - 1], n)]
             r == CHOOSE f : f = body(f)
  <1>5. r = body(r)
    <2>1. PICK f : Steps(f, N)
      BY <1>4
    <2> DEFINE g == [i \in 0..N |-> f[i]]
    <2>2. g = body(g)
      <3>1. \A k \in 0..N : k # 0 => k \in 1..N /\ k - 1 \in 0..N
        OBVIOUS
      <3>2. \A k \in 0..N : k # 0 => g[k - 1] = f[k - 1]
        BY <3>1
      <3>3. \A k \in 0..N : f[k] = IF k = 0 THEN <<>> ELSE Join(begins, g[k - 1], k)
        BY <2>1, <3>1, <3>2
      <3> QED BY <3>3
    <2> QED BY <2>2
  <1>6. CoalesceLiterals(begins) = r[N]
    BY DEF CoalesceLiterals
  <1> HIDE DEF r
  <1>7. \A k \in 0..N : r[k] = IF k = 0 THEN <<>> ELSE Join(begins, r[k - 1], k)
    BY <1>5
  <1>8. 0 \in 0..N /\ \A k \in 1..N : k \in 0..N /\ k # 0
    OBVIOUS
  <1> QED BY <1>6, <1>7, <1>8

LEMMA OrderedNodes == InOrder = Ordered(nodes)
  BY DEF InOrder, Ordered, Follow

LEMMA NextOrderedNodes == InOrder' = Ordered(nodes')
  BY DEF InOrder, Ordered, Follow

\* One more.
LEMMA OrderedAppend ==
  ASSUME NEW s \in Seq(Pieces), Ordered(s), NEW n \in Pieces,
         s = <<>> \/ Follow(s[Len(s)], n)
  PROVE  /\ Append(s, n) \in Seq(Pieces) /\ Ordered(Append(s, n))
         /\ Len(Append(s, n)) = Len(s) + 1 /\ Append(s, n)[Len(s) + 1] = n
         /\ Len(s) \in Nat
         /\ \A k \in 1..Len(s) : Append(s, n)[k] = s[k]
  <1> DEFINE r == Append(s, n)
             l == Len(s)
  <1>1. /\ r \in Seq(Pieces) /\ Len(r) = l + 1 /\ r[l + 1] = n /\ l \in Nat
        /\ \A k \in 1..l : r[k] = s[k]
    BY AppendProperties, LenProperties
  <1>2. ASSUME NEW k \in 2..(l + 1) PROVE Follow(r[k - 1], r[k])
    <2> HIDE DEF r, l
    <2>1. CASE k = l + 1
      <3>1. k - 1 = l /\ l \in 1..l /\ l # 0
        BY <1>1, <1>2, <2>1
      <3>2. s # <<>> /\ l = Len(s)
        <4>1. Len(<<>>) = 0 OBVIOUS
        <4> QED BY <3>1, <4>1 DEF l
      <3> QED BY <1>1, <2>1, <3>1, <3>2
    <2>2. CASE k # l + 1
      <3>1. k \in 1..l /\ k - 1 \in 1..l /\ k \in 2..l
        BY <1>1, <1>2, <2>2
      <3>2. Follow(s[k - 1], s[k])
        BY <3>1 DEF Ordered, l
      <3> QED BY <1>1, <3>1, <3>2
    <2> QED BY <2>1, <2>2
  <1>3. Ordered(r)
    <2> HIDE DEF r, l
    <2> QED BY <1>1, <1>2 DEF Ordered
  <1> QED BY <1>1, <1>3

\* What the literals before and including the n-th are joined to.
JoinedTo(s, n) ==
  /\ s \in Seq(Pieces) /\ Ordered(s)
  /\ n = 0 => s = <<>>
  /\ n # 0 => /\ Len(s) >= 1 /\ s[Len(s)].to = nodes[n].to
              /\ nodes[n].kind = "import" => s[Len(s)] = nodes[n]

LEMMA JoinOrdered ==
  ASSUME nodes \in Seq(Pieces), InOrder, NEW begins, NEW s,
         NEW n \in 1..Len(nodes), JoinedTo(s, n - 1)
  PROVE  JoinedTo(Join(begins, s, n), n)
  <1>1. /\ Len(nodes) \in Nat /\ n \in Nat /\ n # 0 /\ nodes[n] \in Pieces
        /\ n # 1 => n - 1 \in 1..Len(nodes) /\ n \in 2..Len(nodes) /\ n - 1 # 0
    <2>1. Len(nodes) \in Nat /\ nodes[n] \in Pieces
      BY LenProperties, ElementOfSeq
    <2> QED BY <2>1
  <1>2. /\ s \in Seq(Pieces) /\ Ordered(s) /\ Len(s) \in Nat
        /\ n = 1 => s = <<>>
        /\ n # 1 => /\ Len(s) >= 1 /\ s[Len(s)].to = nodes[n - 1].to
                    /\ nodes[n - 1].kind = "import" => s[Len(s)] = nodes[n - 1]
    BY <1>1, LenProperties DEF JoinedTo
  <1>3. n # 1 => Follow(nodes[n - 1], nodes[n])
    BY <1>1 DEF InOrder, Follow
  <1>4. CASE n > 1 /\ IsLiteral(n - 1) /\ IsLiteral(n) /\ n \notin begins
    <2> DEFINE l == Len(s)
               e == [s[l] EXCEPT !.to = nodes[n].to]
               r == [s EXCEPT ![l] = e]
    <2>1. n # 1 /\ l \in 1..l /\ l \in 1..Len(s) /\ l \in Nat
      BY <1>1, <1>2, <1>4
    <2>2. s[l] \in Pieces
      BY <1>2, <2>1, ElementOfSeq
    <2>3. e \in Pieces /\ e.from = s[l].from /\ e.kind = s[l].kind /\ e.to = nodes[n].to
      BY <1>1, <2>2 DEF Pieces
    <2>4. Join(begins, s, n) = r BY <1>4 DEF Join
    <2>5. r \in Seq(Pieces) /\ Len(r) = l /\ \A j \in 1..l : r[j] = IF j = l THEN e ELSE s[j]
      <3> HIDE DEF e
      <3> QED BY <1>2, <2>1, <2>3, ExceptSeq
    <2>6. ASSUME NEW k \in 2..l PROVE Follow(r[k - 1], r[k])
      <3> HIDE DEF l, e, r
      <3>1. k - 1 \in 1..l /\ k \in 1..l /\ k - 1 # l
        BY <2>1, <2>6
      <3>2. Follow(s[k - 1], s[k])
        BY <1>2, <2>6 DEF Ordered, l
      <3>3. r[k - 1] = s[k - 1] /\ r[k].from = s[k].from
        BY <2>3, <2>5, <3>1
      <3> QED BY <3>2, <3>3 DEF Follow
    <2>7. Ordered(r)
      <3> HIDE DEF l, e, r
      <3> QED BY <2>5, <2>6 DEF Ordered
    <2>8. nodes[n].kind # "import"
      BY <1>4 DEF IsLiteral
    <2>9. r[l] = e /\ l >= 1
      <3> HIDE DEF e, r, l
      <3> QED BY <2>1, <2>5
    <2> HIDE DEF l, e, r
    <2> QED BY <1>1, <2>3, <2>4, <2>5, <2>7, <2>8, <2>9 DEF JoinedTo
  <1>5. CASE ~(n > 1 /\ IsLiteral(n - 1) /\ IsLiteral(n) /\ n \notin begins)
    <2>1. Join(begins, s, n) = Append(s, nodes[n])
      BY <1>5 DEF Join
    <2>2. s = <<>> \/ Follow(s[Len(s)], nodes[n])
      <3>1. CASE n = 1
        BY <1>2, <3>1
      <3>2. CASE n # 1
        <4>1. Follow(nodes[n - 1], nodes[n]) /\ s[Len(s)].to = nodes[n - 1].to
              /\ (nodes[n - 1].kind = "import" => s[Len(s)] = nodes[n - 1])
          BY <1>2, <1>3, <3>2
        <4> QED BY <4>1 DEF Follow
      <3> QED BY <3>1, <3>2
    <2>3. /\ Append(s, nodes[n]) \in Seq(Pieces) /\ Ordered(Append(s, nodes[n]))
          /\ Len(Append(s, nodes[n])) = Len(s) + 1
          /\ Append(s, nodes[n])[Len(s) + 1] = nodes[n]
      BY <1>1, <1>2, <2>2, OrderedAppend
    <2>4. Len(s) + 1 >= 1 BY <1>2
    <2> QED BY <1>1, <2>1, <2>3, <2>4 DEF JoinedTo
  <1> QED BY <1>4, <1>5

\* The optimizer keeps the order.
LEMMA CoalesceOrdered ==
  ASSUME nodes \in Seq(Pieces), InOrder, NEW begins
  PROVE  JoinedTo(CoalesceLiterals(begins), Len(nodes))
  <1>1. Len(nodes) \in Nat BY LenProperties
  <1>2. PICK r : /\ r[0] = <<>>
                 /\ \A n \in 1..Len(nodes) : r[n] = Join(begins, r[n - 1], n)
                 /\ CoalesceLiterals(begins) = r[Len(nodes)]
    BY <1>1, JoinSteps
  <1> DEFINE T == {n \in 0..Len(nodes) : JoinedTo(r[n], n)}
  <1>3. 0 \in T
    <2>1. Ordered(<<>>) /\ <<>> \in Seq(Pieces)
      BY DEF Ordered
    <2>2. JoinedTo(r[0], 0)
      BY <1>2, <2>1 DEF JoinedTo
    <2>3. 0 \in 0..Len(nodes) BY <1>1
    <2> QED BY <2>2, <2>3
  <1>4. ASSUME NEW n \in 1..Len(nodes), n - 1 \in T PROVE n \in T
    <2>1. JoinedTo(r[n - 1], n - 1) BY <1>4
    <2>2. JoinedTo(Join(begins, r[n - 1], n), n)
      BY <2>1, JoinOrdered
    <2>3. n \in 0..Len(nodes) OBVIOUS
    <2> QED BY <1>2, <2>2, <2>3
  <1>5. T \in SUBSET (0..Len(nodes)) OBVIOUS
  <1>6. Len(nodes) \in T
    <2> HIDE DEF T
    <2> QED BY <1>1, <1>3, <1>4, <1>5, UpToInduction
  <1> QED BY <1>2, <1>6

LEMMA Runs == HtmlStep \/ CodeStep => phase = "run"
  <1>1. HtmlStep => phase = "run"
    BY DEF HtmlStep, DocumentEnd, AttributeEnd, DocumentLiteral, DocumentEscape, DocumentLayout,
           DocumentTransition, ChildElement, ChildrenReturn, ChildEnd, ChildDropped,
           ChildLiteral, ChildTransition, ChildResume, ChildDoctype, ElementEnd, Tokenize, In
  <1>2. Keyword \/ (\E pc \in Scans : ScanToken(pc)) => phase = "run"
    BY DEF Keyword, ScanToken, Step, Fails, FailsBut, In
  <1>3. CondDone \/ ClauseDone \/ CodeDone("code") \/ CodeDone("handling") \/ ExprDone
        => phase = "run"
    BY DEF CondDone, ClauseDone, CodeDone, ExprDone, Closed, In
  <1>4. \/ Import \/ Handler \/ NamedBlock("section") \/ NamedBlock("partial")
        \/ Block \/ BlockCode \/ BlockMarkup \/ BlockEnd \/ Else
        => phase = "run"
    BY DEF Import, Handler, NamedBlock, Block, BlockCode, BlockMarkup, BlockEnd, Else,
           Step, Fails, FailsBut, In
  <1>5. Arguments("call") \/ Arguments("index") \/ Period \/ NameDone => phase = "run"
    BY DEF Arguments, Period, NameDone, Step, Fails, In
  <1> QED BY <1>1, <1>2, <1>3, <1>4, <1>5 DEF CodeStep

LEMMA FloorIsInt == ASSUME Running PROVE Floor \in Int
  <1>1. /\ html.start \in Nat /\ offset \in Nat /\ LookAt + 1 \in Int
    BY Types, LookIsInt DEF Typed
  <1>2. Top.from \in Nat BY Stack DEF Frames
  <1>3. html.start \in Int /\ offset \in Int /\ Top.from \in Int
    BY <1>1, <1>2, Order
  <1>4. \/ Floor = html.start \/ Floor = Top.from \/ Floor = LookAt + 1 \/ Floor = offset
    BY FloorRules DEF FloorRule
  <1> QED BY <1>1, <1>3, <1>4

LEMMA NextFloorIsInt == ASSUME Running' PROVE Floor' \in Int
  <1>1. /\ html.start' \in Nat /\ offset' \in Nat /\ code'.base \in Nat /\ code'.look.at \in Nat
        /\ stack' \in Seq(Frames) /\ Len(stack') >= 1
    BY LenProperties DEF Running, TInv, TypeOK, GoTokens, Linked
  <1>2. LookAt' + 1 \in Int
    <2>1. \A m, n \in Nat : (m + n) + 1 \in Int
      OBVIOUS
    <2>2. LookAt' = code'.base + code'.look.at
      BY DEF LookAt, TokenOffset
    <2> QED BY <1>1, <2>1, <2>2
  <1>3. Top'.from \in Nat
    <2>1. Len(stack') \in Nat BY <1>1, LenProperties
    <2>2. Len(stack') \in 1..Len(stack')
      BY <1>1, <2>1
    <2>3. Top' \in Frames
      BY <1>1, <2>2, ElementOfSeq DEF Top
    <2> QED BY <2>3 DEF Frames
  <1>4. html.start' \in Int /\ offset' \in Int /\ Top'.from \in Int
    BY <1>1, <1>3, Order
  <1>5. \/ Floor' = html.start' \/ Floor' = Top'.from \/ Floor' = LookAt' + 1 \/ Floor' = offset'
    BY NextFloorRules DEF FloorRule
  <1> QED BY <1>2, <1>4, <1>5

\* What ends where the parser is may be followed by what begins there.
LEMMA DoneFollow ==
  ASSUME Running, Done(Floor), NEW n \in Pieces, Floor <= n.from
  PROVE  nodes = <<>> \/ Follow(nodes[Len(nodes)], n)
  <1>1. nodes \in Seq(Pieces) /\ Floor \in Int /\ n.from \in Int
    BY Types, FloorIsInt, Order DEF Typed, Pieces
  <1>2. CASE nodes # <<>>
    <2>1. Len(nodes) \in 1..Len(nodes)
      <3>1. Len(nodes) \in Nat /\ Len(nodes) # 0
        BY <1>1, <1>2, LenProperties, EmptySeq
      <3> QED BY <3>1
    <2>2. Last \in Pieces
      BY <1>1, <2>1, ElementOfSeq DEF Last
    <2>3. Last.to \in Int BY <2>2 DEF Pieces
    <2>4. Last.to <= Floor => Last.to <= n.from
      BY <1>1, <2>3, Order
    <2> QED BY <1>2, <2>4 DEF Done, Follow, Last
  <1> QED BY <1>2

LEMMA OrderStep ==
  ASSUME Running, OInv, Orderly
  PROVE  InOrder' /\ (Floor' \in Int => Done(Floor)')
  <1>1. /\ nodes \in Seq(Pieces) /\ Ordered(nodes) /\ Done(Floor)
        /\ Floor \in Int
    BY Types, OrderedNodes, FloorIsInt DEF OInv, Running, Typed
  <1>2. CASE UNCHANGED nodes /\ Floor <= Floor'
    <2>1. CASE nodes = <<>>
      BY <1>1, <1>2, <2>1, OrderedNodes, NextOrderedNodes DEF Done
    <2>2. CASE nodes # <<>>
      <3>1. Len(nodes) \in 1..Len(nodes)
        <4>1. Len(nodes) \in Nat /\ Len(nodes) # 0
          BY <1>1, <2>2, LenProperties, EmptySeq
        <4> QED BY <4>1
      <3>2. Last \in Pieces
        BY <1>1, <3>1, ElementOfSeq DEF Last
      <3>3. Last.to \in Int /\ Last.from \in Int
        BY <3>2, Order DEF Pieces
      <3>4. Floor' \in Int => /\ Last.to <= Floor => Last.to <= Floor'
                              /\ Last.from <= Floor => Last.from <= Floor'
        BY <1>1, <1>2, <3>3, Order
      <3>5. Last' = Last /\ nodes' = nodes
        BY <1>2 DEF Last
      <3> QED BY <1>1, <1>2, <2>2, <3>4, <3>5, NextOrderedNodes DEF Done
    <2> QED BY <2>1, <2>2
  <1>3. ASSUME NEW n \in Pieces, Add(<<n>>), Floor <= n.from,
               n.to <= Floor' \/ (n.kind = "import" /\ n.from + 1 < n.to /\ n.from <= Floor')
        PROVE  InOrder' /\ Done(Floor)'
    <2>1. nodes' = Append(nodes, n)
      BY <1>1, <1>3, AppendIsConcat DEF Add
    <2>2. nodes = <<>> \/ Follow(nodes[Len(nodes)], n)
      BY <1>1, <1>3, DoneFollow
    <2>3. /\ Ordered(nodes') /\ Len(nodes') = Len(nodes) + 1 /\ nodes'[Len(nodes) + 1] = n
      BY <1>1, <2>1, <2>2, OrderedAppend
    <2>4. Last' = n BY <2>3 DEF Last
    <2> QED BY <1>3, <2>3, <2>4, NextOrderedNodes DEF Done
  <1>4. ASSUME NEW m \in Pieces, NEW n \in Pieces, Add(<<m, n>>), Floor <= m.from,
               m.to <= n.from, n.to <= Floor'
        PROVE  InOrder' /\ Done(Floor)'
    <2> DEFINE r == Append(nodes, m)
    <2>1. nodes' = Append(r, n)
      <3>1. r = nodes \o <<m>> /\ r \in Seq(Pieces)
        BY <1>1, <1>4, AppendIsConcat, AppendProperties
      <3>2. Append(r, n) = r \o <<n>>
        BY <1>4, <3>1, AppendIsConcat
      <3>3. <<m>> \in Seq(Pieces) /\ <<n>> \in Seq(Pieces)
        BY <1>4
      <3>4. (nodes \o <<m>>) \o <<n>> = nodes \o (<<m>> \o <<n>>)
        BY <1>1, <3>3, ConcatAssociative
      <3>5. <<m>> \o <<n>> = <<m, n>> BY Concats
      <3> QED BY <1>4, <3>1, <3>2, <3>4, <3>5 DEF Add
    <2>2. nodes = <<>> \/ Follow(nodes[Len(nodes)], m)
      BY <1>1, <1>4, DoneFollow
    <2>3. /\ r \in Seq(Pieces) /\ Ordered(r) /\ Len(r) = Len(nodes) + 1 /\ r[Len(nodes) + 1] = m
      BY <1>1, <1>4, <2>2, OrderedAppend
    <2> HIDE DEF r
    <2>4. Follow(r[Len(r)], n)
      BY <1>4, <2>3 DEF Follow
    <2>5. /\ Ordered(nodes') /\ Len(nodes') = Len(r) + 1 /\ nodes'[Len(r) + 1] = n
      BY <1>4, <2>1, <2>3, <2>4, OrderedAppend
    <2>6. Last' = n BY <2>5 DEF Last
    <2> QED BY <1>4, <2>5, <2>6, NextOrderedNodes DEF Done
  <1> QED BY <1>2, <1>3, <1>4 DEF Orderly

LEMMA InitInv == Init => IInv
  <1> SUFFICES ASSUME Init PROVE IInv
    OBVIOUS
  <1>1. src \in Seq(Lexemes) /\ offset = 0 /\ html = [start |-> 0, end |-> 0] /\ nodes = <<>>
        /\ phase = "run"
    BY SourcesAssumption DEF Init
  <1>2. OInv BY <1>1 DEF OInv, InOrder, Done
  <1>3. NoToken \in GoTokens
    BY DEF NoToken, GoTokens
  <1>4. html \in [start : Nat, end : Nat] /\ nodes \in Seq(Pieces) /\ offset \in Nat
    BY <1>1
  <1>5. CASE stack = <<Frame("document")>> /\ code = [base |-> 0, look |-> NoToken, acc |-> NoToken]
    <2>1. /\ Frame("document") \in Frames /\ Frame("document").pc = "document"
          /\ "document" \notin CodePcs
      BY FrameType, PcNames DEF CodePcList
    <2>2. stack \in Seq(Frames) /\ Len(stack) = 1 /\ stack[1] = Frame("document")
      BY <1>5, <2>1
    <2>3. Top = Frame("document") BY <2>2 DEF Top
    <2>4. Linked BY <2>1, <2>2 DEF Linked
    <2>5. code \in GoParsers
      BY <1>3, <1>5 DEF GoParsers
    <2>6. Placed
      BY <2>1, <2>3, PcNames DEF Placed, CodePcList, Expressing
    <2> QED
      BY <1>1, <1>2, <1>4, <2>2, <2>4, <2>5, <2>6 DEF IInv, TInv, TypeOK, GoParsers, Pieces
  <1>6. CASE /\ stack = <<Frame("attribute"), Frame("keyword")>>
             /\ \E t \in Scan(0, 0, FALSE) :
                  code = [base |-> 0, look |-> t, acc |-> NoToken]
    <2>1. /\ Frame("attribute") \in Frames /\ Frame("attribute").pc = "attribute"
          /\ Frame("keyword") \in Frames /\ Frame("keyword").pc = "keyword"
          /\ "keyword" \in CodePcs /\ "keyword" \notin Scans
      BY FrameType, PcNames DEF CodePcList
    <2>2. /\ stack \in Seq(Frames) /\ Len(stack) = 2 /\ stack[1] = Frame("attribute")
          /\ stack[2] = Frame("keyword")
      BY <1>6, <2>1
    <2>3. Top = Frame("keyword") BY <2>2 DEF Top
    <2>4. Linked
      <3>1. Sits(stack[2], stack[1])
        BY <2>1, <2>2, BelowCode DEF Callables, Sits
      <3>2. \A k \in 2..2 : k = 2 OBVIOUS
      <3> QED BY <2>1, <2>2, <3>1, <3>2 DEF Linked
    <2>5. PICK t \in Scan(0, 0, FALSE) : code = [base |-> 0, look |-> t, acc |-> NoToken]
      BY <1>6
    <2>6. /\ t \in GoTokens /\ 0 <= t.at /\ 0 + t.at <= Len(src)
          /\ 0 + t.at < Len(src) => t.tok = IF At(0 + t.at) = "\n" THEN ";" ELSE At(0 + t.at)
          /\ 0 + t.at = Len(src) => t.tok = "EOF"
          /\ \A d \in 0..(t.at - 1) : At(0 + d) \in Blanks
      BY <1>1, <2>5, ScanFinds
    <2>7. t.at \in Nat /\ 0 + t.at = t.at /\ \A d \in 0..(t.at - 1) : 0 + d = d
      <3>1. t.at \in Nat BY <2>6 DEF GoTokens
      <3>2. \A n \in Nat : 0 + n = n /\ \A d \in 0..(n - 1) : 0 + d = d
        OBVIOUS
      <3> QED BY <3>1, <3>2
    <2>8. code \in GoParsers
      BY <1>3, <2>5, <2>6 DEF GoParsers
    <2>9. LookAt = 0 + t.at /\ Look = t.tok
      BY <2>5 DEF LookAt, TokenOffset, Look
    <2>10. LookAt = t.at BY <2>7, <2>9
    <2>11. GoodLook
      BY <1>1, <2>6, <2>7, <2>9, <2>10 DEF GoodLook
    <2>12. Unread BY <1>1, <2>7, <2>10 DEF Unread
    <2>13. Placed
      BY <2>1, <2>3, <2>11, <2>12, PcNames DEF Placed, Expressing
    <2> QED
      BY <1>1, <1>2, <1>4, <2>2, <2>4, <2>8, <2>13 DEF IInv, TInv, TypeOK, GoParsers, Pieces
  <1> QED BY <1>5, <1>6 DEF Init

LEMMA NextInv == IInv /\ [Next]_vars => IInv'
  <1> SUFFICES ASSUME IInv, [Next]_vars PROVE IInv'
    OBVIOUS
  <1>1. CASE HtmlStep \/ CodeStep
    <2>1. Running BY <1>1, Runs DEF IInv, Running
    <2>2. Sound BY <1>1, <2>1, StepSound
    <2>3. CASE phase' # "run" /\ UNCHANGED nodes
      BY <2>2, <2>3, OrderedNodes, NextOrderedNodes DEF Sound, IInv, OInv
    <2>4. CASE Orderly
      <3>1. InOrder' /\ (Floor' \in Int => Done(Floor)')
        BY <2>1, <2>4, OrderStep DEF IInv
      <3>2. phase' = "run" => Floor' \in Int
        BY <2>2, NextFloorIsInt DEF Sound, Running
      <3> QED BY <2>2, <3>1, <3>2 DEF Sound, IInv, OInv
    <2> QED BY <2>2, <2>3, <2>4 DEF Sound
  <1>2. CASE Compile
    <2>1. UNCHANGED <<src, offset, html, code, stack>> /\ phase = "parsed" /\ phase' = "done"
      BY <1>2 DEF Compile
    <2>2. nodes \in Seq(Pieces) /\ InOrder
      BY DEF IInv, TInv, TypeOK, OInv, Pieces
    <2>3. nodes' \in Seq(Pieces) /\ Ordered(nodes')
      <3>1. CASE UNCHANGED nodes
        BY <2>2, <3>1, OrderedNodes
      <3>2. CASE \E begins : nodes' = CoalesceLiterals(begins)
        BY <2>2, <3>2, CoalesceOrdered DEF JoinedTo
      <3> QED BY <1>2, <3>1, <3>2 DEF Compile
    <2>4. TInv'
      BY <2>1, <2>3 DEF IInv, TInv, TypeOK, Linked, Pieces
    <2> QED BY <2>1, <2>3, <2>4, NextOrderedNodes DEF IInv, OInv
  <1>3. CASE UNCHANGED vars
    <2>1. UNCHANGED <<src, offset, html, code, stack, nodes, phase>>
      BY <1>3 DEF vars
    <2>2. TInv'
      <3>1. /\ Top' = Top /\ LookAt' = LookAt /\ Look' = Look /\ PrevEnd' = PrevEnd
            /\ \A o : At(o)' = At(o)
            /\ TokenOffset(code.acc)' = TokenOffset(code.acc)
        BY <2>1 DEF Top, LookAt, Look, TokenOffset, PrevEnd, At
      <3>2. TypeOK' /\ Linked'
        BY <2>1 DEF IInv, TInv, TypeOK, Linked
      <3>3. GoodLook' = GoodLook /\ Unread' = Unread /\ JustRead' = JustRead
        BY <2>1, <3>1 DEF GoodLook, Unread, JustRead
      <3>4. Placed' = Placed
        BY <2>1, <3>1, <3>3 DEF Placed
      <3> QED BY <2>1, <3>2, <3>4 DEF IInv, TInv
    <2>3. OInv'
      BY <2>1, OrderedNodes, NextOrderedNodes
         DEF IInv, OInv, Done, Last, Floor, Top, LookAt, TokenOffset
    <2> QED BY <2>2, <2>3 DEF IInv
  <1> QED BY <1>1, <1>2, <1>3 DEF Next, Over

\* The types of what the two parsers keep, whatever the source: theirs is one
\* offset, and each leaves it where the other can go on.
THEOREM TypeCorrect == Spec => []TypeOK
  <1>1. IInv => TypeOK BY DEF IInv, TInv
  <1> QED BY <1>1, InitInv, NextInv, PTL DEF Spec

\* Nothing comes into the tree twice, and the tree is in the source's order,
\* before the optimizer and after it.
THEOREM TreeInOrder == Spec => []InOrder
  <1>1. IInv => InOrder BY DEF IInv, OInv
  <1> QED BY <1>1, InitInv, NextInv, PTL DEF Spec
-----------------------------------------------------------------------------
(* No word is lost.                                                        *)

LEMMA NoWords ==
  /\ \A o : IsWord(o) <=> At(o) \in Tagged
  /\ Tagged \cap (Blanks \cup Signs \cup Keywords \cup {"", ";", "EOF", "<!-- -->", "<!doctype>"}
                  \cup {"handler", "section", "partial", "layout", "layouts"}) = {}
  /\ Tagged \cap Idents \subseteq Names
  <1>1. \A o : IsWord(o) <=> At(o) \in Tagged
    BY DEF IsWord, Tagged
  <1>2. Names \cap (Blanks \cup Signs \cup Keywords \cup {"", ";", "EOF"}
                  \cup {"handler", "section", "partial", "layout", "layouts"}) = {}
    BY LexemesAssumption
  <1>3. Markup \cap (Words \cup Blanks \cup Signs \cup {"", ";", "EOF"}) = {}
    BY LexemesAssumption
  <1>4. {"<!-- -->", "<!doctype>"} \cap (DOMAIN Open \cup DOMAIN Close) = {}
    BY LexemesAssumption
  <1>5. "<!-- -->" \notin Names /\ "<!doctype>" \notin Names
    BY <1>3 DEF Markup, Words, Idents
  <1>6. DOMAIN Open \subseteq Markup /\ DOMAIN Close \subseteq Markup
    BY DEF Markup
  <1>7. Words = Names \cup {"handler", "section", "partial", "layout", "layouts"} \cup Keywords
    BY DEF Words, Idents
  <1>8. Idents = Names \cup {"handler", "section", "partial", "layout", "layouts"}
    BY DEF Idents
  <1>9. Tagged \cap (Blanks \cup Signs \cup Keywords \cup {"", ";", "EOF", "<!-- -->", "<!doctype>"}
                  \cup {"handler", "section", "partial", "layout", "layouts"}) = {}
    BY <1>2, <1>3, <1>4, <1>5, <1>6, <1>7, ZenonT(60) DEF Tagged
  <1>10. Tagged \cap Idents \subseteq Names
    BY <1>3, <1>6, <1>7, <1>8 DEF Tagged
  <1> QED BY <1>1, <1>9, <1>10

LEMMA GrowsOnly ==
  ASSUME nodes \in Seq(Pieces), Grown, src' = src
  PROVE  /\ \A o : Covered(o) => Covered(o)'
         /\ \A o : Kept(o) => Kept(o)'
         /\ \A o : InText(o) => InText(o)'
         /\ \A o : IsWord(o)' = IsWord(o) /\ Run(o)' = Run(o)
         /\ Forward => Forward'
         /\ \A k \in DOMAIN nodes : k \in DOMAIN nodes' /\ nodes'[k] = nodes[k]
  <1>1. PICK more \in Seq(Pieces) : nodes' = nodes \o more /\ Onward(more)
    BY DEF Grown
  <1>2. /\ Len(nodes) \in Nat /\ Len(more) \in Nat /\ DOMAIN nodes = 1..Len(nodes)
        /\ DOMAIN more = 1..Len(more)
    BY <1>1, LenProperties
  <1>3. nodes' \in Seq(Pieces) /\ Len(nodes') = Len(nodes) + Len(more)
        /\ \A k \in 1..(Len(nodes) + Len(more)) :
             nodes'[k] = IF k <= Len(nodes) THEN nodes[k] ELSE more[k - Len(nodes)]
    BY <1>1, ConcatProperties
  <1>4. DOMAIN nodes' = 1..(Len(nodes) + Len(more))
    BY <1>3, LenProperties
  <1>5. \A k \in DOMAIN nodes : k \in DOMAIN nodes' /\ nodes'[k] = nodes[k]
    <2>1. \A m, n \in Nat : \A k \in 1..m : k \in 1..(m + n) /\ k <= m
      OBVIOUS
    <2> QED BY <1>2, <1>3, <1>4, <2>1
  <1>6. \A k \in DOMAIN nodes' : \/ k \in DOMAIN nodes
                                 \/ k - Len(nodes) \in DOMAIN more /\ nodes'[k] = more[k - Len(nodes)]
    <2>1. \A m, n \in Nat : \A k \in 1..(m + n) : k \in 1..m \/ (k - m \in 1..n /\ ~(k <= m))
      OBVIOUS
    <2> QED BY <1>2, <1>3, <1>4, <2>1
  <1>7. \A d : At(d)' = At(d) BY DEF At
  <1>8. /\ \A o : Covered(o) => Covered(o)'
        /\ \A o : InText(o) => InText(o)'
    BY <1>5 DEF Covered, InText
  <1>9. \A o : Run(o)' = Run(o) BY <1>7 DEF Run
  <1>10. \A o : BeforeLayout(o) => BeforeLayout(o)'
    BY <1>5, <1>7 DEF BeforeLayout, Markup
  <1>11. \A o : CutOff(o) => CutOff(o)'
    <2> TAKE o
    <2>1. SUFFICES ASSUME CutOff(o) PROVE CutOff(o)'
      OBVIOUS
    <2>2. PICK k \in DOMAIN nodes :
            /\ nodes[k].kind = "expr" /\ nodes[k].to <= o
            /\ \E b \in nodes[k].from..(nodes[k].to - 1) : Skipped(b)
            /\ Trails(nodes[k].to, o)
      BY <2>1 DEF CutOff
    <2>3. k \in DOMAIN nodes' /\ nodes'[k] = nodes[k]
      BY <1>5
    <2> QED BY <1>7, <2>2, <2>3 DEF CutOff, Trails, Skipped
  <1>12. Forward => Forward'
    BY <1>1, <1>5, <1>6 DEF Forward, Onward
  <1>13. \A o : IsWord(o)' = IsWord(o)
    BY <1>7 DEF IsWord
  <1> QED BY <1>5, <1>8, <1>9, <1>10, <1>11, <1>12, <1>13 DEF Kept

\* Elements that are open stay so.
LEMMA BalanceStays ==
  ASSUME nodes \in Seq(Pieces), Grown, src' = src, NEW k \in DOMAIN nodes
  PROVE  Balance(1, k)' = Balance(1, k)
  <1>1. \A i \in 1..k : nodes'[i] = nodes[i]
    <2>1. DOMAIN nodes = 1..Len(nodes) /\ Len(nodes) \in Nat
      BY LenProperties
    <2>2. \A i \in 1..k : i \in 1..Len(nodes)
      BY <2>1
    <2> QED BY <2>1, <2>2, GrowsOnly
  <1>2. \A o : At(o)' = At(o) BY DEF At
  <1>3. Tags(1, k)' = Tags(1, k)
    BY <1>1, <1>2 DEF Tags
  <1>4. \A i \in Tags(1, k) : nodes'[i] = nodes[i]
    BY <1>1 DEF Tags
  <1> DEFINE E(kind) == {i \in Tags(1, k) : nodes[i].kind = kind}
  <1>5. \A kind : {i \in Tags(1, k) : nodes'[i].kind = kind} = E(kind)
    BY <1>4
  <1>6. /\ Balance(1, k) = Cardinality(E("element")) - Cardinality(E("end"))
        /\ Balance(1, k)' = Cardinality({i \in Tags(1, k) : nodes'[i].kind = "element"})
                             - Cardinality({i \in Tags(1, k) : nodes'[i].kind = "end"})
    BY <1>3 DEF Balance
  <1> HIDE DEF E
  <1> QED BY <1>5, <1>6

LEMMA WFloorRules == WFloorRule
  <1>1. "block" \notin {"children", "element", "member", "path"} \cup Scans \cup Expressing
    BY PcNames DEF Expressing
  <1> QED BY <1>1, FloorRules DEF WFloorRule, WFloor, FloorRule

LEMMA NextWFloorRules == WFloorRule'
  <1>1. "block" \notin {"children", "element", "member", "path"} \cup Scans \cup Expressing
    BY PcNames DEF Expressing
  <1>2. Scans' = Scans /\ Expressing' = Expressing
    BY DEF Expressing, Scans, Closer
  <1> QED BY <1>1, <1>2, NextFloorRules DEF WFloorRule, WFloor, FloorRule

LEMMA WFloorIsInt == ASSUME Running PROVE WFloor \in Int /\ WFloor \in Nat
  <1>1. html.start \in Nat /\ offset \in Nat /\ Top.from \in Nat
    BY Types, Stack DEF Typed, Frames
  <1>2. WFloor = html.start \/ WFloor = Top.from \/ WFloor = offset
    BY WFloorRules DEF WFloorRule
  <1> QED BY <1>1, <1>2

LEMMA NextWFloorIsInt == ASSUME Running' PROVE WFloor' \in Int
  <1>1. /\ html.start' \in Nat /\ offset' \in Nat
        /\ stack' \in Seq(Frames) /\ Len(stack') >= 1
    BY DEF Running, TInv, TypeOK, Linked
  <1>2. Top'.from \in Nat
    <2>1. Len(stack') \in Nat BY <1>1, LenProperties
    <2>2. Len(stack') \in 1..Len(stack')
      BY <1>1, <2>1
    <2>3. Top' \in Frames
      BY <1>1, <2>2, ElementOfSeq DEF Top
    <2> QED BY <2>3 DEF Frames
  <1>3. WFloor' = html.start' \/ WFloor' = Top'.from \/ WFloor' = offset'
    BY NextWFloorRules DEF WFloorRule
  <1> QED BY <1>1, <1>2, <1>3

LEMMA NextTypes ==
  ASSUME TInv'
  PROVE  stack' \in Seq(Frames) /\ nodes' \in Seq(Pieces)
  BY DEF TInv, TypeOK, Pieces

\* The first node that a step adds, if it adds one.
LEMMA FirstAdded ==
  ASSUME nodes \in Seq(Pieces), Orderly
  PROVE  /\ Len(nodes) < Len(nodes') => Floor <= nodes'[Len(nodes) + 1].from
         /\ Len(nodes) = Len(nodes') => Floor <= Floor'
  <1>1. \E s \in Seq(Pieces) : /\ nodes' = nodes \o s /\ (s # <<>> => Floor <= s[1].from)
                               /\ s = <<>> => Floor <= Floor'
    <2>1. CASE UNCHANGED nodes /\ Floor <= Floor'
      <3>1. nodes \o <<>> = nodes /\ <<>> \in Seq(Pieces)
        BY ConcatEmptySeq
      <3> QED BY <2>1, <3>1
    <2>2. ASSUME NEW n \in Pieces, Add(<<n>>), Floor <= n.from
          PROVE  \E s \in Seq(Pieces) : nodes' = nodes \o s /\ s # <<>> /\ Floor <= s[1].from
      <3>1. <<n>> \in Seq(Pieces) /\ <<n>>[1] = n /\ <<n>> # <<>>
        OBVIOUS
      <3> QED BY <2>2, <3>1 DEF Add
    <2>3. ASSUME NEW m \in Pieces, NEW n \in Pieces, Add(<<m, n>>), Floor <= m.from
          PROVE  \E s \in Seq(Pieces) : nodes' = nodes \o s /\ s # <<>> /\ Floor <= s[1].from
      <3>1. <<m, n>> \in Seq(Pieces) /\ <<m, n>>[1] = m /\ <<m, n>> # <<>>
        OBVIOUS
      <3> QED BY <2>3, <3>1 DEF Add
    <2> QED BY <2>1, <2>2, <2>3 DEF Orderly
  <1>2. PICK s \in Seq(Pieces) : /\ nodes' = nodes \o s /\ (s # <<>> => Floor <= s[1].from)
                                 /\ s = <<>> => Floor <= Floor'
    BY <1>1
  <1>3. /\ Len(nodes) \in Nat /\ Len(s) \in Nat /\ Len(nodes') = Len(nodes) + Len(s)
        /\ \A k \in 1..(Len(nodes) + Len(s)) :
             nodes'[k] = IF k <= Len(nodes) THEN nodes[k] ELSE s[k - Len(nodes)]
    BY <1>2, LenProperties, ConcatProperties
  <1>4. s = <<>> <=> Len(s) = 0 BY EmptySeq
  <1>5. ASSUME Len(s) # 0 PROVE nodes'[Len(nodes) + 1] = s[1]
    <2>1. /\ Len(nodes) + 1 \in 1..(Len(nodes) + Len(s))
          /\ ~(Len(nodes) + 1 <= Len(nodes)) /\ (Len(nodes) + 1) - Len(nodes) = 1
      BY <1>3, <1>5
    <2> QED BY <1>3, <2>1
  <1> QED BY <1>2, <1>3, <1>4, <1>5

\* What is left out is so for good.
LEMMA EscapesOn ==
  ASSUME Running, nodes' \in Seq(Pieces), Grown, src' = src, Orderly, Floor' \in Int,
         NEW o \in Int, LeftForGood(o)
  PROVE  LeftForGood(o)'
  <1>1. PICK k \in DOMAIN nodes, e \in Run(o) :
          Skips(k, e, o) /\ (k = Len(nodes) => o < Floor /\ e < Floor)
    BY DEF LeftForGood
  <1>2. nodes \in Seq(Pieces) /\ Floor \in Int /\ e \in Int
    BY <1>1, Types, FloorIsInt DEF Typed, Run
  <1>3. /\ \A i \in DOMAIN nodes : i \in DOMAIN nodes' /\ nodes'[i] = nodes[i]
        /\ Run(o)' = Run(o)
    BY <1>2, GrowsOnly
  <1>4. /\ DOMAIN nodes = 1..Len(nodes) /\ Len(nodes) \in Nat
        /\ DOMAIN nodes' = 1..Len(nodes') /\ Len(nodes') \in Nat
    BY <1>2, LenProperties
  <1>5. ASSUME NEW x \in Int, k = Len(nodes) => x < Floor, Between(k, x) PROVE Between(k, x)'
    <2>1. k < Len(nodes') => x < nodes'[k + 1].from
      <3>1. CASE k < Len(nodes)
        <4>1. k + 1 \in DOMAIN nodes BY <1>4, <3>1
        <4> QED BY <1>3, <1>5, <3>1, <4>1 DEF Between
      <3>2. CASE k = Len(nodes) /\ k < Len(nodes')
        <4>1. Floor <= nodes'[k + 1].from
          BY <1>2, <3>2, FirstAdded
        <4>2. nodes'[k + 1].from \in Int
          <5>1. k + 1 \in 1..Len(nodes')
            BY <1>4, <3>2
          <5>2. nodes'[k + 1] \in Pieces
            BY <5>1, ElementOfSeq
          <5> QED BY <5>2, Order DEF Pieces
        <4> QED BY <1>2, <1>5, <3>2, <4>1, <4>2
      <3> QED BY <1>4, <3>1, <3>2
    <2> QED BY <1>3, <1>5, <2>1 DEF Between
  <1>6. Between(k, o)' /\ Between(k, e)' /\ Balance(1, k)' > 0
    BY <1>1, <1>2, <1>5, BalanceStays DEF Skips
  <1>7. \A d : At(d)' = At(d) BY DEF At
  <1>8. Skips(k, e, o)'
    BY <1>1, <1>6, <1>7 DEF Skips, Doubled
  <1>9. k = Len(nodes') => o < Floor' /\ e < Floor'
    <2>1. SUFFICES ASSUME Len(nodes') <= k PROVE o < Floor' /\ e < Floor'
      BY <1>4
    <2>2. k = Len(nodes) /\ Len(nodes) = Len(nodes')
      <3>1. k \in 1..Len(nodes) /\ Len(nodes) \in 1..Len(nodes)
        BY <1>1, <1>4
      <3>2. Len(nodes) \in 1..Len(nodes')
        BY <1>3, <1>4, <3>1
      <3>3. \A a, b, c \in Nat : c \in 1..a /\ a \in 1..b /\ b <= c => c = a /\ a = b
        OBVIOUS
      <3>4. k \in Nat BY <3>1
      <3> QED BY <1>4, <2>1, <3>1, <3>2, <3>3, <3>4, Zenon
    <2>3. Floor <= Floor' BY <1>2, <2>2, FirstAdded
    <2> QED BY <1>1, <1>2, <2>2, <2>3
  <1> QED BY <1>1, <1>3, <1>8, <1>9 DEF LeftForGood

LEMMA KeepsOn ==
  ASSUME Running, WInv, Running', Orderly, KeepsWords
  PROVE  WInv'
  <1>1. KeptTo(WFloor) /\ Forward /\ nodes \in Seq(Pieces) /\ nodes' \in Seq(Pieces)
        /\ Grown /\ src' = src
    BY Types, NextTypes DEF Running, WInv, Typed, KeepsWords
  <1>2. WFloor \in Int /\ WFloor' \in Int /\ Floor' \in Int
    BY WFloorIsInt, NextWFloorIsInt, NextFloorIsInt
  <1>3. /\ \A o : Kept(o) => Kept(o)'
        /\ \A o : IsWord(o)' = IsWord(o)
        /\ Forward'
    BY <1>1, GrowsOnly
  <1>4. KeptTo(WFloor)'
    <2>1. SUFFICES ASSUME NEW o \in 0..(WFloor' - 1), IsWord(o)
                   PROVE  (Kept(o) \/ LeftForGood(o))'
      BY <1>3 DEF KeptTo
    <2>2. \A a, b \in Int : \A d \in 0..(b - 1) : d \in 0..(a - 1) \/ d \in a..(b - 1)
      OBVIOUS
    <2>3. o \in 0..(WFloor - 1) \/ o \in WFloor..(WFloor' - 1)
      BY <1>2, <2>1, <2>2
    <2>4. CASE o \in 0..(WFloor - 1)
      <3>1. Kept(o) \/ LeftForGood(o)
        BY <1>1, <2>1, <2>4 DEF KeptTo
      <3> QED BY <1>1, <1>2, <1>3, <3>1, EscapesOn
    <2> QED BY <2>1, <2>3, <2>4 DEF KeepsWords
  <1>5. phase' = "run" BY DEF Running
  <1>6. WordsKept' BY <1>5 DEF WordsKept
  <1> QED BY <1>3, <1>4, <1>5, <1>6 DEF KeepsWords, WInv

\* Nodes that are added.
LEMMA AddedNone ==
  ASSUME nodes \in Seq(Pieces), UNCHANGED nodes \/ Add(<<>>)
  PROVE  Grown
  <1>1. <<>> \in Seq(Pieces) /\ Onward(<<>>)
    BY DEF Onward
  <1>2. nodes \o <<>> = nodes BY ConcatEmptySeq
  <1> QED BY <1>1, <1>2 DEF Grown, Add

LEMMA BalanceNone == ASSUME Len(nodes) = 0 PROVE Balance(1, Len(nodes)) = 0
  <1>1. Tags(1, Len(nodes)) = {}
    <2>1. 1..0 = {} OBVIOUS
    <2> QED BY <2>1 DEF Tags
  <1>2. \A kind : {k \in Tags(1, Len(nodes)) : nodes[k].kind = kind} = {}
    BY <1>1
  <1>3. Cardinality({}) = 0 /\ 0 - 0 = 0
    BY FS_EmptySet
  <1> QED BY <1>2, <1>3 DEF Balance

\* What is said of the tree and the source does not depend on anything else.
LEMMA SameTree ==
  ASSUME nodes \in Seq(Pieces), UNCHANGED <<src, nodes>>
  PROVE  /\ \A o : IsWord(o)' = IsWord(o) /\ Run(o)' = Run(o)
         /\ \A o : Kept(o) => Kept(o)'
         /\ \A k \in DOMAIN nodes : \A e, o : Skips(k, e, o) => Skips(k, e, o)'
         /\ \A o : Escaped(o) => Escaped(o)'
  <1>1. Grown BY AddedNone
  <1>2. \A o : IsWord(o)' = IsWord(o) /\ Run(o)' = Run(o) /\ (Kept(o) => Kept(o)')
    BY <1>1, GrowsOnly
  <1>3. \A k, o : Between(k, o) => Between(k, o)'
    BY DEF Between
  <1>4. \A e : At(e)' = At(e) /\ Doubled(e)' = Doubled(e)
    BY DEF At, Doubled
  <1>5. \A k \in DOMAIN nodes : Balance(1, k)' = Balance(1, k)
    BY <1>1, BalanceStays
  <1>6. \A k \in DOMAIN nodes : \A e, o : Skips(k, e, o) => Skips(k, e, o)'
    BY <1>3, <1>4, <1>5 DEF Skips
  <1> QED BY <1>2, <1>6 DEF Escaped

LEMMA AddedOne ==
  ASSUME nodes \in Seq(Pieces), NEW k \in Kinds, NEW a \in Int, NEW b \in Int, a \in Nat,
         Add(<<Node(k, a, b)>>), k \in Literals => a <= b
  PROVE  /\ Grown
         /\ \A o \in a..(b - 1) : Covered(o)'
         /\ \E j \in DOMAIN nodes' : nodes'[j] = Node(k, a, b)
  <1> DEFINE n == Node(k, a, b)
  <1>1. n \in Pieces /\ n.from = a /\ n.to = b /\ n.kind = k
    BY NodeTypes DEF Node
  <1>2. nodes' = nodes \o <<n>> BY DEF Add
  <1> HIDE DEF n
  <1>3. nodes' = Append(nodes, n)
    BY <1>1, <1>2, AppendIsConcat
  <1>4. /\ Len(nodes) \in Nat /\ nodes' \in Seq(Pieces) /\ Len(nodes') = Len(nodes) + 1
        /\ nodes'[Len(nodes) + 1] = n
    BY <1>1, <1>3, AppendProperties, LenProperties
  <1>5. Len(nodes) + 1 \in DOMAIN nodes'
    <2>1. Len(nodes) + 1 \in 1..(Len(nodes) + 1)
      BY <1>4
    <2> QED BY <1>4, <2>1, LenProperties
  <1>6. <<n>> \in Seq(Pieces) /\ Onward(<<n>>)
    BY <1>1 DEF Onward
  <1>7. \A o \in a..(b - 1) : a <= o /\ o < b
    OBVIOUS
  <1> QED BY <1>1, <1>2, <1>4, <1>5, <1>6, <1>7 DEF Grown, Covered, n

LEMMA AddedTwo ==
  ASSUME nodes \in Seq(Pieces),
         NEW k \in Kinds, NEW a \in Int, NEW b \in Int, k \in Literals => a <= b,
         NEW l \in Kinds, NEW c \in Int, NEW d \in Int, l \in Literals => c <= d,
         a \in Nat, c \in Nat,
         Add(<<Node(k, a, b), Node(l, c, d)>>)
  PROVE  /\ Grown
         /\ \A o \in a..(b - 1) : Covered(o)'
         /\ \A o \in c..(d - 1) : Covered(o)'
         /\ \E j \in DOMAIN nodes' : nodes'[j] = Node(l, c, d)
  <1> DEFINE m == Node(k, a, b)
             n == Node(l, c, d)
             s == <<m, n>>
  <1>1. /\ m \in Pieces /\ m.from = a /\ m.to = b /\ m.kind = k
        /\ n \in Pieces /\ n.from = c /\ n.to = d /\ n.kind = l
    BY NodeTypes DEF Node
  <1>2. nodes' = nodes \o s BY DEF Add
  <1> HIDE DEF m, n
  <1>3. s \in Seq(Pieces) /\ Len(s) = 2 /\ s[1] = m /\ s[2] = n /\ Onward(s)
    BY <1>1 DEF Onward
  <1>4. DOMAIN nodes' = 1..(Len(nodes) + 2) /\ Len(nodes) \in Nat
        /\ \A j \in 1..(Len(nodes) + 2) :
             nodes'[j] = IF j <= Len(nodes) THEN nodes[j] ELSE s[j - Len(nodes)]
    <2> HIDE DEF s
    <2>1. /\ nodes' \in Seq(Pieces) /\ Len(nodes') = Len(nodes) + Len(s)
          /\ \A j \in 1..(Len(nodes) + Len(s)) :
               nodes'[j] = IF j <= Len(nodes) THEN nodes[j] ELSE s[j - Len(nodes)]
      BY <1>2, <1>3, ConcatProperties
    <2> QED BY <1>3, <2>1, LenProperties
  <1>5. \A z \in Nat : /\ z + 1 \in 1..(z + 2) /\ z + 2 \in 1..(z + 2)
                       /\ ~(z + 1 <= z) /\ ~(z + 2 <= z) /\ (z + 1) - z = 1 /\ (z + 2) - z = 2
    OBVIOUS
  <1> HIDE DEF s
  <1>6. /\ Len(nodes) + 1 \in DOMAIN nodes' /\ nodes'[Len(nodes) + 1] = m
        /\ Len(nodes) + 2 \in DOMAIN nodes' /\ nodes'[Len(nodes) + 2] = n
    BY <1>3, <1>4, <1>5
  <1>7. /\ \A o \in a..(b - 1) : a <= o /\ o < b
        /\ \A o \in c..(d - 1) : c <= o /\ o < d
    OBVIOUS
  <1>8. \E j \in DOMAIN nodes' : nodes'[j] = Node(l, c, d)
    BY <1>6 DEF n
  <1> QED BY <1>1, <1>2, <1>3, <1>6, <1>7, <1>8 DEF Grown, Covered

-----------------------------------------------------------------------------
(* Words in the Go parser.                                                 *)

\* Only blanks precede the next token.
LEMMA LookGap ==
  ASSUME Running, Top.pc \in CodePcs
  PROVE  /\ \A o \in offset..(LookAt - 1) : ~IsWord(o)
         /\ Look \notin Tagged => ~IsWord(LookAt)
         /\ Look \notin Tagged => \A o \in offset..LookAt : ~IsWord(o)
  <1>1. GoodLook BY LookIs
  <1>2. \A o \in offset..(LookAt - 1) : ~IsWord(o)
    BY <1>1, NoWords DEF GoodLook
  <1>3. Look \notin Tagged => ~IsWord(LookAt)
    <2>1. LookAt < Len(src) \/ LookAt = Len(src)
      BY LookIs
    <2>2. LookAt \in Nat /\ Len(src) \in Nat /\ LookAt \in Int
      BY Types
    <2>3. CASE LookAt < Len(src)
      <3>1. Look = At(LookAt) \/ At(LookAt) = "\n"
        BY <1>1, <2>3 DEF GoodLook
      <3> QED BY <3>1, NoWords DEF Blanks
    <2>4. CASE LookAt = Len(src)
      <3>1. LookAt \notin 0..(Len(src) - 1)
        BY <2>2, <2>4
      <3>2. At(LookAt) = "" BY <3>1 DEF At
      <3> QED BY <3>2, NoWords
    <2> QED BY <2>1, <2>3, <2>4
  <1>4. \A a, b \in Nat : \A o \in a..b : o \in a..(b - 1) \/ o = b
    OBVIOUS
  <1>5. offset \in Nat /\ LookAt \in Nat
    BY Types DEF Typed
  <1> QED BY <1>2, <1>3, <1>4, <1>5

LEMMA NextLookGap ==
  ASSUME Running, GoodLook', src' = src
  PROVE  \A o \in offset'..(LookAt' - 1) : ~IsWord(o)
  <1>1. \A o : At(o)' = At(o) BY DEF At
  <1>2. \A o \in offset'..(LookAt' - 1) : At(o) \in Blanks
    BY <1>1 DEF GoodLook, Blanks
  <1> QED BY <1>2, NoWords

\* Places where the parser is through with what is before the offset.
Quiet(pc) == pc \notin {"children", "element", "member", "path"} \cup Scans \cup Expressing

LEMMA Quieter ==
  /\ Quiet(Top.pc) => WFloor = offset
  /\ Quiet(Top'.pc) => /\ WFloor' = offset'
                       /\ Top'.pc \notin {"children", "element"} \cup Expressing \cup {"member"}
  BY WFloorRules, NextWFloorRules DEF Quiet, WFloorRule

LEMMA QuietPcs ==
  /\ \A pc \in Plain \cup {"after", "close", "else"} \cup Callables : Quiet(pc)
  BY PcNames DEF Quiet, Plain, Callables, CodePcList, Expressing

LEMMA StepKeeps ==
  ASSUME Running, Top.pc \in CodePcs, Quiet(Top.pc), Quiet(Top'.pc), src' = src, Grown,
         offset' = LookAt + 1 \/ offset' = offset,
         Look \notin Tagged \/ \A o : o = LookAt => Covered(o)'
  PROVE  KeepsWords
  <1>1. WFloor = offset /\ WFloor' = offset'
    BY Quieter
  <1>2. offset \in Nat /\ LookAt \in Nat
    BY Types DEF Typed
  <1>3. \A o \in offset..(offset' - 1) : IsWord(o) => Kept(o)'
    <2>1. CASE offset' = offset
      <3>1. \A n \in Nat : ~\E o \in n..(n - 1) : TRUE
        OBVIOUS
      <3> QED BY <1>2, <2>1, <3>1
    <2>2. CASE offset' = LookAt + 1
      <3>1. \A a, b \in Nat : \A o \in a..((b + 1) - 1) : o \in a..(b - 1) \/ o = b
        OBVIOUS
      <3>2. \A o \in offset..(offset' - 1) : o \in offset..(LookAt - 1) \/ o = LookAt
        BY <1>2, <2>2, <3>1
      <3>3. \A o \in offset..(LookAt - 1) : ~IsWord(o)
        BY LookGap
      <3>4. \A o : o = LookAt /\ IsWord(o) => Kept(o)'
        BY LookGap DEF Kept
      <3> QED BY <3>2, <3>3, <3>4
    <2> QED BY <2>1, <2>2
  <1> QED BY <1>1, <1>3, Quieter DEF KeepsWords

\* After a step over a token the parser is right behind it.
LEMMA StepOver ==
  ASSUME Running, Top.pc \in CodePcs, Look # "EOF", Advance \/ Sync
  PROVE  offset' = LookAt + 1 /\ offset' = LookAt + Width(Look) /\ Width(Look) = 1
  <1>1. Width(Look) = 1 BY LookIs
  <1> QED BY <1>1 DEF Advance, Sync, LookAt

\* A frame takes the place of the one that runs, or that one returns.
LEMMA QuietBecomes ==
  ASSUME Running, Top.pc \in CodePcs, NEW pc \in CodePcs, Quiet(pc), Become(Frame(pc))
  PROVE  Quiet(Top'.pc)
  <1>1. Frame(pc) \in Frames /\ Frame(pc).pc = pc
    BY FrameType, PcNames
  <1> QED BY <1>1, Becomes

LEMMA QuietReturns ==
  ASSUME Running, Top.pc \in CodePcs, Return
  PROVE  Quiet(Top'.pc)
  <1>1. Top'.pc \in Callables
    <2>1. Top.pc \notin {"document", "attribute"}
      BY PcNames DEF CodePcList
    <2> QED BY <2>1, Returns, BelowCode
  <1> QED BY <1>1, QuietPcs

LEMMA QuietCalls ==
  ASSUME Running, Top.pc \in CodePcs, NEW pc \in CodePcs, Quiet(pc),
         NEW back \in Callables \cap CodePcs, Call(Frame(pc), Frame(back))
  PROVE  Quiet(Top'.pc)
  <1>1. /\ Frame(pc) \in Frames /\ Frame(pc).pc = pc
        /\ Frame(back) \in Frames /\ Frame(back).pc = back
    BY FrameType, PcNames
  <1>2. Replaces(Frame(back))
    <2>1. Len(stack) # 1
      BY PcNames DEF Running, TInv, Linked, Top, CodePcList
    <2> QED BY <1>1, <2>1, BelowCode DEF Replaces
  <1>3. Frame(back).pc \in Below(Frame(pc).pc) /\ Frame(pc).pc \notin {"children", "resume"}
    BY <1>1, BelowCode, PcNames DEF CodePcList
  <1> QED BY <1>1, <1>2, <1>3, Calls

\* A step over a token that is no word.
LEMMA SignKeeps ==
  ASSUME Running, Top.pc \in CodePcs, Quiet(Top.pc), NEW S, "EOF" \notin S, S \cap Tagged = {},
         Step(Top.pc, S), Quiet(Top'.pc)
  PROVE  KeepsWords
  <1>1. Look \in S /\ Advance /\ Code /\ UNCHANGED nodes
    BY DEF Step
  <1>2. Grown BY <1>1, Types, AddedNone DEF Typed
  <1>3. offset' = LookAt + 1 BY <1>1, StepOver
  <1> QED BY <1>1, <1>2, <1>3, StepKeeps DEF Code

LEMMA BecomeKeeps ==
  ASSUME Running, NEW pc \in CodePcs, Quiet(pc), NEW S, "EOF" \notin S, S \cap Tagged = {},
         Step(pc, S), NEW next \in CodePcs, Quiet(next), Become(Frame(next))
  PROVE  KeepsWords
  <1>1. Top.pc = pc BY DEF Step, In
  <1> QED BY <1>1, QuietBecomes, SignKeeps

\* A step without reading.
LEMMA ShiftKeeps ==
  ASSUME Running, Top.pc \in CodePcs, Quiet(Top.pc), Quiet(Top'.pc), Code,
         UNCHANGED <<offset, nodes>>
  PROVE  KeepsWords
  <1>1. WFloor = offset /\ WFloor' = offset
    BY Quieter
  <1>2. Grown BY Types, AddedNone DEF Typed
  <1>3. \A n \in Nat : ~\E o \in n..(n - 1) : TRUE
    OBVIOUS
  <1>4. offset \in Nat BY Types DEF Typed
  <1>5. \A o \in WFloor..(WFloor' - 1) : IsWord(o) => Kept(o)'
    BY <1>1, <1>3, <1>4
  <1> QED BY <1>2, <1>5, Quieter DEF KeepsWords, Code

LEMMA SignsAre ==
  /\ {"{"} \cap Tagged = {} /\ {"}"} \cap Tagged = {} /\ {"^"} \cap Tagged = {}
  /\ {";"} \cap Tagged = {} /\ {"("} \cap Tagged = {} /\ {")"} \cap Tagged = {}
  /\ {"handler", "section", "partial", "import"} \cap Tagged = {}
  /\ {"if"} \cap Tagged = {} /\ {"for"} \cap Tagged = {} /\ {"else"} \cap Tagged = {}
  /\ {"str"} \cap Tagged = {} /\ {"."} \cap Tagged = {}
  BY NoWords DEF Signs, Keywords

\* An interval in two.
LEMMA Parts ==
  /\ \A a, b, c \in Int : \A o \in a..c : o \in a..b \/ o \in (b + 1)..c
  /\ \A a, b, c \in Int : \A o \in a..(c - 1) : o \in a..b \/ o \in (b + 1)..(c - 1)
  /\ \A a, b, c \in Int : \A o \in a..(c - 1) : o \in a..(b - 1) \/ o \in b..(c - 1)
  OBVIOUS

\* A scan begins.
LEMMA ScanKeeps ==
  ASSUME Running, Top.pc \in CodePcs, Quiet(Top.pc), NEW S, "EOF" \notin S, ";" \notin S,
         S \cap Tagged = {}, Step(Top.pc, S), NEW pc \in Scans, Scanning(pc)
  PROVE  KeepsWords
  <1> DEFINE f == [Frame(pc) EXCEPT !.from = code'.base + code'.look.at, !.depth = 1]
  <1>1. /\ Advance /\ Code /\ UNCHANGED nodes /\ Look \notin {";", "EOF"}
        /\ Look \notin Tagged /\ src' = src
    BY DEF Step, Code
  <1>2. GoodLook' /\ offset' = LookAt + 1 /\ LookAt' \in Nat
    <2>1. LookAt < Len(src) BY <1>1, LookIs
    <2> QED BY <1>1, <2>1, Advances
  <1>3. LookAt' = code'.base + code'.look.at
    BY DEF LookAt, TokenOffset
  <1>4. f \in Frames /\ f.pc = pc /\ f.from = LookAt' /\ pc \in CodePcs
    <2>1. pc \in Pcs /\ pc \in CodePcs
      BY PcNames DEF CodePcList
    <2>2. Frame(pc) \in Frames /\ Frame(pc).pc = pc
      BY <2>1, FrameType
    <2>4. f = [Frame(pc) EXCEPT !.from = LookAt', !.depth = 1]
      BY <1>3
    <2> HIDE DEF f
    <2> DEFINE g == Frame(pc)
               l == LookAt'
    <2>5. [g EXCEPT !.from = l, !.depth = 1] \in Frames
      <3>1. g \in Frames /\ l \in Nat BY <1>2, <2>2
      <3> HIDE DEF g, l
      <3> QED BY <3>1, FrameChanges
    <2> QED BY <2>1, <2>2, <2>4, <2>5 DEF Frames
  <1>5. Become(f) BY DEF Scanning
  <1> HIDE DEF f
  <1>6. Top' = f BY <1>4, <1>5, Becomes
  <1>7. WFloor = offset /\ WFloor' = LookAt'
    BY <1>4, <1>6, Quieter, NextWFloorRules DEF WFloorRule
  <1>8. \A o \in offset..LookAt : ~IsWord(o)
    BY <1>1, LookGap
  <1>9. \A o \in offset'..(LookAt' - 1) : ~IsWord(o)
    BY <1>1, <1>2, NextLookGap
  <1>11. offset \in Nat /\ LookAt \in Nat
    BY Types DEF Typed
  <1>12. \A o \in WFloor..(WFloor' - 1) : ~IsWord(o)
    <2> TAKE o \in WFloor..(WFloor' - 1)
    <2>0. offset \in Int /\ LookAt \in Int /\ LookAt' \in Int
      BY <1>2, <1>11, Order
    <2>1. o \in offset..LookAt \/ o \in (LookAt + 1)..(LookAt' - 1)
      BY <1>7, <2>0, Parts
    <2> QED BY <1>2, <1>8, <1>9, <2>1
  <1>13. Grown BY <1>1, Types, AddedNone DEF Typed
  <1>14. Top'.pc \notin {"children", "element", "member"} \cup Expressing
    BY <1>4, <1>6, PcNames DEF Expressing
  <1> QED BY <1>1, <1>12, <1>13, <1>14 DEF KeepsWords

LEMMA ScanTokenKeeps ==
  ASSUME Running, NEW pc \in Scans, ScanToken(pc), phase' = "run"
  PROVE  KeepsWords
  <1>1. Top.pc = pc /\ pc \in CodePcs
    BY PcNames DEF ScanToken, In, Fails, CodePcList
  <1>2. ~Fails(pc, EndsScan(pc))
    BY FailStops DEF Fails
  <1> DEFINE f == [Top EXCEPT !.depth = Depth(pc)]
  <1>3. Become(f) /\ Code /\ UNCHANGED nodes
    BY <1>2 DEF ScanToken
  <1>4. /\ Top \in Frames /\ Top.from \in Nat /\ Top.depth \in Int
    BY <1>1, AtCode
  <1>5. Depth(pc) \in Int BY <1>4 DEF Depth
  <1>6. f \in Frames /\ f.pc = pc /\ f.from = Top.from
    BY <1>1, <1>4, <1>5 DEF Frames
  <1> HIDE DEF f
  <1>7. Top' = f BY <1>1, <1>3, <1>6, Becomes
  <1>8. WFloor = Top.from /\ WFloor' = Top.from
    BY <1>1, <1>6, <1>7, WFloorRules, NextWFloorRules DEF WFloorRule
  <1>9. \A n \in Nat : ~\E o \in n..(n - 1) : TRUE
    OBVIOUS
  <1>10. \A o \in WFloor..(WFloor' - 1) : IsWord(o) => Kept(o)'
    BY <1>4, <1>8, <1>9
  <1>11. Grown BY <1>3, Types, AddedNone DEF Typed
  <1>12. Top'.pc \notin {"children", "element", "member"} \cup Expressing
    BY <1>6, <1>7, PcNames DEF Expressing
  <1> QED BY <1>3, <1>10, <1>11, <1>12 DEF KeepsWords, Code

\* What has been scanned is in the tree, and only the token after it is not.
LEMMA FoundKeeps ==
  ASSUME Running, Top.pc \in CodePcs, NEW kind \in Kinds, kind \notin Literals,
         NEW a \in Nat, NEW b \in Nat, WFloor = a, offset <= b, Found(kind, a, b),
         Quiet(Top'.pc), offset' = offset \/ (offset' = LookAt + 1 /\ Look \notin Tagged)
  PROVE  KeepsWords
  <1>1. Code /\ Add(<<Node(kind, a, b)>>)
    BY FoundTypes
  <1>2. nodes \in Seq(Pieces) /\ offset \in Nat /\ LookAt \in Nat
    BY Types DEF Typed
  <1>3. a \in Int /\ b \in Int OBVIOUS
  <1>4. Grown /\ \A o \in a..(b - 1) : Covered(o)'
    BY <1>1, <1>2, <1>3, AddedOne
  <1>5. \A o \in a..(offset' - 1) : o \in a..(b - 1) \/ (o \in offset..LookAt /\ Look \notin Tagged)
    BY <1>2
  <1>6. Look \notin Tagged => \A o \in offset..LookAt : ~IsWord(o)
    BY LookGap
  <1>7. \A o \in WFloor..(WFloor' - 1) : IsWord(o) => Kept(o)'
    BY <1>4, <1>5, <1>6, Quieter DEF Kept
  <1> QED BY <1>1, <1>4, <1>7, Quieter DEF KeepsWords, Code

\* The kinds of what code makes.
LEMMA CodeKinds == {"expr", "code", "import", "name"} \subseteq Kinds \ Literals
  BY DEF Kinds, Literals

LEMMA Scanned ==
  ASSUME Running, Top.pc \in Scans, Look # "EOF"
  PROVE  /\ WFloor = Top.from /\ Top.from \in Nat /\ MaxRead \in Nat /\ PrevEnd \in Nat
         /\ offset <= MaxRead /\ offset <= PrevEnd
         /\ Top.pc \in CodePcs
  <1>1. Top.pc \in CodePcs BY PcNames DEF CodePcList
  <1>2. MaxRead \in Nat /\ PrevEnd = offset /\ offset \in Nat /\ offset <= LookAt + 1
        /\ Top.from \in Nat /\ LookAt \in Nat
    BY Reads
  <1>3. MaxRead = PrevEnd \/ MaxRead = LookAt + Width(Look)
    BY DEF MaxRead, PrevEnd, LookAt, Look
  <1>4. Width(Look) = 1 BY <1>1, LookIs
  <1>5. WFloor = Top.from
    BY WFloorRules DEF WFloorRule
  <1> QED BY <1>1, <1>2, <1>3, <1>4, <1>5

LEMMA CondDoneKeeps ==
  ASSUME Running, CondDone, phase' = "run"
  PROVE  KeepsWords
  <1>1. Top.pc = "cond" /\ Top.pc \in Scans /\ Top.pc \in CodePcs /\ Look # "EOF"
    BY PcNames DEF CondDone, Closed, In, CodePcList, Closer
  <1>2. Parses(Top.from, MaxRead)
    BY FailStops DEF CondDone
  <1>3. /\ Found("expr", Top.from, MaxRead) /\ Call(Frame("block"), Frame("else"))
        /\ UNCHANGED <<offset, code>>
    BY <1>2 DEF CondDone
  <1>4. {"block", "else"} \subseteq CodePcs /\ "else" \in Callables /\ Quiet("block")
    BY PcNames DEF CodePcList, Callables, Quiet, Expressing
  <1>5. Quiet(Top'.pc)
    BY <1>1, <1>3, <1>4, QuietCalls
  <1> QED BY <1>1, <1>3, <1>5, Scanned, CodeKinds, FoundKeeps

LEMMA ClauseDoneKeeps ==
  ASSUME Running, ClauseDone, phase' = "run"
  PROVE  KeepsWords
  <1>1. Top.pc = "clause" /\ Top.pc \in Scans /\ Top.pc \in CodePcs /\ Look # "EOF"
    BY PcNames DEF ClauseDone, Closed, In, CodePcList, Closer
  <1>2. /\ Found("code", Top.from, PrevEnd) /\ Become(Frame("block"))
        /\ UNCHANGED <<offset, code>>
    BY DEF ClauseDone, Stop
  <1>3. "block" \in CodePcs /\ Quiet("block")
    BY PcNames DEF CodePcList, Quiet, Expressing
  <1>4. Quiet(Top'.pc)
    BY <1>1, <1>2, <1>3, QuietBecomes
  <1> QED BY <1>1, <1>2, <1>4, Scanned, CodeKinds, FoundKeeps

LEMMA CodeDoneKeeps ==
  ASSUME Running, NEW pc \in {"code", "handling"}, CodeDone(pc), phase' = "run"
  PROVE  KeepsWords
  <1> DEFINE end == IF pc = "code" THEN MaxRead ELSE PrevEnd
  <1>1. Top.pc = pc /\ Top.pc \in Scans /\ Top.pc \in CodePcs /\ Look = "}"
    <2>1. Top.pc = pc /\ Look = Closer[pc]
      BY DEF CodeDone, Closed, In
    <2>2. Closer["code"] = "}" /\ Closer["handling"] = "}"
      BY DEF Closer
    <2> QED BY <2>1, <2>2, PcNames DEF CodePcList
  <1>2. Found("code", Top.from, end) /\ Advance /\ Return
    BY DEF CodeDone, Stop
  <1>3. Quiet(Top'.pc) BY <1>1, <1>2, QuietReturns
  <1>4. Look # "EOF" /\ Look \notin Tagged
    BY <1>1, SignsAre
  <1>5. offset' = LookAt + 1
    BY <1>1, <1>2, <1>4, StepOver
  <1>6. end \in Nat /\ offset <= end
    BY <1>1, <1>4, Scanned
  <1> HIDE DEF end
  <1> QED BY <1>1, <1>2, <1>3, <1>4, <1>5, <1>6, Scanned, CodeKinds, FoundKeeps

LEMMA ExprDoneKeeps ==
  ASSUME Running, ExprDone, phase' = "run"
  PROVE  KeepsWords
  <1>1. Top.pc = "expr" /\ Top.pc \in Scans /\ Top.pc \in CodePcs /\ Look = ")"
    BY PcNames DEF ExprDone, Closed, In, CodePcList, Closer
  <1>2. Parses(Top.from, MaxRead)
    BY FailStops DEF ExprDone
  <1>3. Found("expr", Top.from, MaxRead) /\ Sync /\ Return
    BY <1>2 DEF ExprDone
  <1>4. Quiet(Top'.pc) BY <1>1, <1>3, QuietReturns
  <1>5. Look # "EOF" /\ Look \notin Tagged
    BY <1>1, SignsAre
  <1>6. offset' = LookAt + 1
    BY <1>1, <1>3, <1>5, StepOver
  <1> QED BY <1>1, <1>3, <1>4, <1>5, <1>6, Scanned, CodeKinds, FoundKeeps

\* Something begins at the current token.
LEMMA BeginsKeeps ==
  ASSUME Running, Top.pc \in CodePcs, Quiet(Top.pc), Advance, Code, UNCHANGED nodes,
         NEW f \in Frames, f.pc \in Expressing \cup {"path"}, f.from = LookAt, Become(f),
         f.pc = "path" \/ (Look # "EOF" /\ f.end = LookAt + 1)
  PROVE  KeepsWords
  <1>1. f.pc \in CodePcs
    BY PcNames DEF CodePcList, Expressing
  <1>2. Top' = f BY <1>1, Becomes
  <1>3. WFloor = offset /\ WFloor' = LookAt
    BY <1>2, Quieter, NextWFloorRules DEF WFloorRule
  <1>4. \A o \in WFloor..(WFloor' - 1) : ~IsWord(o)
    BY <1>3, LookGap
  <1>5. Grown BY Types, AddedNone DEF Typed
  <1>6. Top'.pc \notin {"children", "element", "member"}
    BY <1>2, PcNames DEF Expressing
  <1>7. ASSUME Top'.pc \in Expressing PROVE Behind'
    <2>1. f.pc # "path" BY <1>2, <1>7 DEF Expressing
    <2>2. offset' = LookAt + 1 /\ Top'.end = LookAt + 1
      BY <1>2, <2>1, StepOver
    <2>3. \A n \in Nat : ~\E d \in (n + 1)..((n + 1) - 1) : TRUE
      OBVIOUS
    <2>4. LookAt \in Nat BY LookIsInt
    <2>5. ~\E d \in Top'.end..(offset' - 1) : TRUE
      BY <2>2, <2>3, <2>4
    <2> QED BY <1>6, <2>5 DEF Behind, Trails
  <1> QED BY <1>4, <1>5, <1>6, <1>7 DEF KeepsWords, Code

LEMMA KeywordKeeps ==
  ASSUME Running, Keyword, phase' = "run"
  PROVE  KeepsWords
  <1>1. Top.pc = "keyword"
    BY DEF Keyword, Step, In, FailsBut
  <1>2. /\ Top.pc \in CodePcs /\ TokenOffset(code.look) = LookAt /\ LookAt \in Nat
        /\ LookAt + 1 \in Nat /\ Quiet(Top.pc)
    BY <1>1, AtToken, QuietPcs
  <1>3. CASE Step("keyword", {"handler", "section", "partial", "import"}) /\ Become(Frame(Look))
    <2>1. Look \in {"handler", "section", "partial", "import"}
      BY <1>3 DEF Step
    <2>2. Look \in CodePcs /\ Look \in Plain
      BY <2>1, PcNames DEF CodePcList, Plain, Expressing
    <2>3. Quiet(Look) BY <2>2, QuietPcs
    <2> QED BY <1>1, <1>2, <1>3, <2>2, <2>3, SignsAre, BecomeKeeps
  <1>4. ASSUME NEW pc \in Scans, NEW s \in {"if", "for", "{", "("},
               Step("keyword", {s}), Scanning(pc)
        PROVE  KeepsWords
    <2>1. "EOF" \notin {s} /\ ";" \notin {s} /\ {s} \cap Tagged = {}
      BY SignsAre
    <2> QED BY <1>1, <1>2, <1>4, <2>1, ScanKeeps
  <1>5. /\ Step("keyword", {"if"}) /\ Scanning("cond") => KeepsWords
        /\ Step("keyword", {"for"}) /\ Scanning("clause") => KeepsWords
        /\ Step("keyword", {"{"}) /\ Scanning("code") => KeepsWords
        /\ Step("keyword", {"("}) /\ Scanning("expr") => KeepsWords
    BY <1>4, PcNames
  <1>6. ASSUME NEW pc \in {"named", "name"},
               Step("keyword", Idents \ {"handler", "section", "partial"}),
               Become([Frame(pc) EXCEPT !.from = LookAt, !.end = LookAt + 1])
        PROVE  KeepsWords
    <2> DEFINE f == [Frame(pc) EXCEPT !.from = LookAt, !.end = LookAt + 1]
    <2>1. Advance /\ Code /\ UNCHANGED nodes /\ Look # "EOF"
      BY <1>6, IdentsAre DEF Step
    <2>2. pc \in Pcs /\ pc \in CodePcs /\ pc \in Expressing
      BY PcNames DEF CodePcList, Expressing
    <2>3. f \in Frames /\ f.pc = pc /\ f.from = LookAt /\ f.end = LookAt + 1
      <3>1. Frame(pc) \in Frames /\ Frame(pc).pc = pc
        BY <2>2, FrameType
      <3>2. f \in Frames BY <1>2, <3>1, FrameChanges
      <3> QED BY <3>1, <3>2 DEF Frames
    <2>4. Become(f) BY <1>6
    <2> HIDE DEF f
    <2> QED BY <1>2, <2>1, <2>2, <2>3, <2>4, BeginsKeeps
  <1>7. ~FailsBut("keyword", Idents \cup {"if", "for", "import", "{", "("})
    BY FailStops DEF FailsBut
  <1>8. CASE /\ Step("keyword", Idents \ {"handler", "section", "partial"})
             /\ LET at == TokenOffset(code.look)
                IN Become([Frame(IF At(at + 1) \in Blanks THEN "named" ELSE "name")
                             EXCEPT !.from = at, !.end = at + 1])
    BY <1>2, <1>6, <1>8
  <1> QED BY <1>3, <1>5, <1>7, <1>8 DEF Keyword

\* A node for the current token.
LEMMA FoundAtLook ==
  ASSUME Running, Top.pc \in CodePcs, Quiet(Top.pc), Quiet(Top'.pc), Look # "EOF", Advance,
         NEW kind \in {"import", "name"}, Found(kind, LookAt, LookAt + 1)
  PROVE  KeepsWords
  <1>1. kind \in Kinds /\ kind \notin Literals
    BY CodeKinds
  <1>2. LookAt \in Nat /\ LookAt + 1 \in Nat /\ LookAt \in Int /\ LookAt + 1 \in Int
    BY LookIsInt
  <1>3. Code /\ Add(<<Node(kind, LookAt, LookAt + 1)>>)
    BY <1>1, <1>2, FoundTypes
  <1>4. Grown /\ \A o \in LookAt..((LookAt + 1) - 1) : Covered(o)'
    BY <1>1, <1>2, <1>3, Types, AddedOne DEF Typed
  <1>5. \A o : o = LookAt => Covered(o)'
    <2>1. \A n \in Nat : n \in n..((n + 1) - 1)
      OBVIOUS
    <2> QED BY <1>2, <1>4, <2>1
  <1>6. offset' = LookAt + 1 BY StepOver
  <1> QED BY <1>3, <1>4, <1>5, <1>6, StepKeeps DEF Code

LEMMA ImportKeeps ==
  ASSUME Running, Import, phase' = "run"
  PROVE  KeepsWords
  <1>1. CASE /\ In("import") /\ Look = "str"
             /\ LET at == TokenOffset(code.look) IN Found("import", at, at + 1)
             /\ Advance /\ Return
    <2>1. /\ Top.pc \in CodePcs /\ Top.pc \in Plain /\ TokenOffset(code.look) = LookAt
      BY <1>1, AtToken DEF In
    <2>2. Quiet(Top.pc) /\ Quiet(Top'.pc)
      BY <1>1, <2>1, QuietPcs, QuietReturns
    <2> QED BY <1>1, <2>1, <2>2, FoundAtLook
  <1>2. CASE /\ Step("import", Idents \cup {"."})
             /\ Become([Frame("path") EXCEPT !.from = TokenOffset(code.look)])
    <2> DEFINE f == [Frame("path") EXCEPT !.from = LookAt]
    <2>1. /\ Top.pc \in CodePcs /\ Top.pc \in Plain /\ TokenOffset(code.look) = LookAt
          /\ LookAt \in Nat
      BY <1>2, AtToken DEF Step, In
    <2>2. Quiet(Top.pc) BY <2>1, QuietPcs
    <2>3. f \in Frames /\ f.pc = "path" /\ f.from = LookAt
      <3>1. Frame("path") \in Frames /\ Frame("path").pc = "path"
        BY FrameType, PcNames DEF CodePcList
      <3>2. f \in Frames BY <2>1, <3>1, FrameChanges
      <3> QED BY <3>1, <3>2 DEF Frames
    <2>4. Become(f) BY <1>2, <2>1
    <2> HIDE DEF f
    <2>5. Advance /\ Code /\ UNCHANGED nodes
      BY <1>2 DEF Step
    <2> QED BY <2>1, <2>2, <2>3, <2>4, <2>5, BeginsKeeps
  <1>3. CASE /\ In("path") /\ Look = "str"
             /\ Found("import", Top.from, TokenOffset(code.look) + 1)
             /\ Return /\ UNCHANGED <<offset, code>>
    <2>1. Top.pc = "path" /\ Top.pc \in CodePcs
      BY <1>3, PcNames DEF In, CodePcList
    <2>2. WFloor = Top.from /\ offset <= LookAt /\ Top.from \in Nat /\ LookAt + 1 \in Nat
      BY <2>1, AtCode, LookIsInt, WFloorRules DEF WFloorRule
    <2>3. offset <= LookAt + 1 /\ TokenOffset(code.look) = LookAt
      BY <2>1, <2>2, AtCode, LookIsInt, Order DEF LookAt
    <2>4. Quiet(Top'.pc) BY <1>3, <2>1, QuietReturns
    <2> QED BY <1>3, <2>1, <2>2, <2>3, <2>4, CodeKinds, FoundKeeps
  <1>4. ~FailsBut("import", Idents \cup {"str", "."}) /\ ~FailsBut("path", {"str"})
    BY FailStops DEF FailsBut
  <1> QED BY <1>1, <1>2, <1>3, <1>4 DEF Import

LEMMA HandlerKeeps ==
  ASSUME Running, Handler, phase' = "run"
  PROVE  KeepsWords
  <1>1. ~FailsBut("handler", {"{"})
    BY FailStops DEF FailsBut
  <1>2. Step("handler", {"{"}) /\ Scanning("handling")
    BY <1>1 DEF Handler
  <1>3. Top.pc = "handler" /\ Top.pc \in CodePcs /\ Quiet(Top.pc) /\ "handling" \in Scans
    BY <1>2, PcNames DEF Step, In, CodePcList, Quiet, Expressing
  <1> QED BY <1>2, <1>3, SignsAre, ScanKeeps

LEMMA NamedBlockKeeps ==
  ASSUME Running, NEW pc \in {"section", "partial"}, NamedBlock(pc), phase' = "run"
  PROVE  KeepsWords
  <1>1. ~FailsBut(pc, Idents)
    BY FailStops DEF FailsBut
  <1>2. /\ In(pc) /\ Look \in Idents
        /\ LET at == TokenOffset(code.look) IN Found("name", at, at + 1)
        /\ Advance /\ Become(Frame("block"))
    BY <1>1 DEF NamedBlock
  <1>3. Top.pc \in CodePcs /\ Top.pc \in Plain /\ TokenOffset(code.look) = LookAt
    BY <1>2, AtToken DEF In
  <1>4. "block" \in CodePcs /\ Quiet("block")
    BY PcNames DEF CodePcList, Quiet, Expressing
  <1>5. Quiet(Top.pc) /\ Quiet(Top'.pc) /\ Look # "EOF"
    BY <1>2, <1>3, <1>4, QuietPcs, QuietBecomes, IdentsAre
  <1> QED BY <1>2, <1>3, <1>5, FoundAtLook

LEMMA BlockKeeps ==
  ASSUME Running, Block, phase' = "run"
  PROVE  KeepsWords
  <1>1. ~FailsBut("block", {"{"})
    BY FailStops DEF FailsBut
  <1>2. Step("block", {"{"}) /\ Become(Frame("body"))
    BY <1>1 DEF Block
  <1>3. /\ "block" \in CodePcs /\ "body" \in CodePcs /\ Quiet("block") /\ Quiet("body")
    BY PcNames DEF CodePcList, Quiet, Expressing
  <1> QED BY <1>2, <1>3, SignsAre, BecomeKeeps

LEMMA BlockCodeKeeps ==
  ASSUME Running, BlockCode, phase' = "run"
  PROVE  KeepsWords
  <1>1. /\ {"body", "after", "close", "keyword"} \subseteq CodePcs /\ "after" \in Callables
        /\ Quiet("body") /\ Quiet("after") /\ Quiet("close") /\ Quiet("keyword")
    BY PcNames DEF CodePcList, Quiet, Expressing, Callables
  <1>2. CASE Step("body", {"^"}) /\ Call(Frame("keyword"), Frame("after"))
    <2>1. Top.pc = "body" BY <1>2 DEF Step, In
    <2>2. Quiet(Top'.pc)
      BY <1>1, <1>2, <2>1, QuietCalls
    <2> QED BY <1>1, <1>2, <2>1, <2>2, SignsAre, SignKeeps
  <1>3. ~Fails("body", {"EOF"})
    BY FailStops DEF Fails
  <1>4. CASE Step("after", {";"}) /\ Become(Frame("close"))
    BY <1>1, <1>4, SignsAre, BecomeKeeps
  <1>5. CASE /\ In("after") /\ Look # ";" /\ Become(Frame("close"))
             /\ Code /\ UNCHANGED <<offset, code, nodes, phase>>
    <2>1. Top.pc = "after" BY <1>5 DEF In
    <2>2. Quiet(Top'.pc)
      BY <1>1, <1>5, <2>1, QuietBecomes
    <2> QED BY <1>1, <1>5, <2>1, <2>2, ShiftKeeps
  <1> QED BY <1>2, <1>3, <1>4, <1>5 DEF BlockCode

LEMMA BlockEndKeeps ==
  ASSUME Running, BlockEnd, phase' = "run"
  PROVE  KeepsWords
  <1>1. ~FailsBut("close", {"}"})
    BY FailStops DEF FailsBut
  <1>2. Step("close", {"}"}) /\ Return
    BY <1>1 DEF BlockEnd
  <1>3. Top.pc = "close" /\ "close" \in CodePcs /\ Quiet("close")
    BY <1>2, PcNames DEF Step, In, CodePcList, Quiet, Expressing
  <1>4. Quiet(Top'.pc) BY <1>2, <1>3, QuietReturns
  <1> QED BY <1>2, <1>3, <1>4, SignsAre, SignKeeps

LEMMA ElseKeeps ==
  ASSUME Running, Else, phase' = "run"
  PROVE  KeepsWords
  <1>1. /\ {"else", "alt", "alternative", "elseif", "block"} \subseteq CodePcs
        /\ Quiet("else") /\ Quiet("alt") /\ Quiet("alternative") /\ Quiet("elseif")
        /\ Quiet("block") /\ "cond" \in Scans
    BY PcNames DEF CodePcList, Quiet, Expressing
  <1>2. CASE Step("else", {"^"}) /\ Become(Frame("alt"))
    BY <1>1, <1>2, SignsAre, BecomeKeeps
  <1>3. CASE Step("alt", {"else"}) /\ Become(Frame("alternative"))
    BY <1>1, <1>3, SignsAre, BecomeKeeps
  <1>4. CASE /\ (In("else") /\ Look # "^") \/ (In("alt") /\ Look # "else")
             /\ Return /\ Code /\ UNCHANGED <<offset, code, nodes, phase>>
    <2>1. Top.pc \in {"else", "alt"} BY <1>4 DEF In
    <2>2. Quiet(Top'.pc)
      BY <1>1, <1>4, <2>1, QuietReturns
    <2> QED BY <1>1, <1>4, <2>1, <2>2, ShiftKeeps
  <1>5. CASE Step("alternative", {"^"}) /\ Become(Frame("elseif"))
    BY <1>1, <1>5, SignsAre, BecomeKeeps
  <1>6. CASE /\ In("alternative") /\ Look # "^" /\ Become(Frame("block"))
             /\ Code /\ UNCHANGED <<offset, code, nodes, phase>>
    <2>1. Top.pc = "alternative" BY <1>6 DEF In
    <2>2. Quiet(Top'.pc)
      BY <1>1, <1>6, <2>1, QuietBecomes
    <2> QED BY <1>1, <1>6, <2>1, <2>2, ShiftKeeps
  <1>7. CASE Step("elseif", {"if"}) /\ Scanning("cond")
    <2>1. Top.pc = "elseif" BY <1>7 DEF Step, In
    <2> QED BY <1>1, <1>7, <2>1, SignsAre, ScanKeeps
  <1>8. ~FailsBut("elseif", {"if"})
    BY FailStops DEF FailsBut
  <1> QED BY <1>2, <1>3, <1>4, <1>5, <1>6, <1>7, <1>8 DEF Else

-----------------------------------------------------------------------------
(* Words in expressions.                                                   *)

\* The source does not change.
LEMMA SameSource ==
  ASSUME src' = src
  PROVE  /\ \A d : At(d)' = At(d)
         /\ \A d : Skipped(d)' = Skipped(d)
  <1>1. \A d : At(d)' = At(d) BY DEF At
  <1>2. \A d : Skipped(d)' = Skipped(d)
    BY <1>1 DEF Skipped
  <1> QED BY <1>1, <1>2

Brackets == {"(", ")", "[", "]", "."}
Trailing(d) == At(d) \in Idents \cup Brackets \/ Skipped(d)

LEMMA TrailsAre == ASSUME NEW a, NEW o PROVE Trails(a, o) <=> \A d \in a..o : Trailing(d)
  BY DEF Trails, Trailing, Brackets

LEMMA NextBehind ==
  ASSUME src' = src, NEW a, NEW e, NEW n, Top'.from = a, Top'.end = e, offset' = n,
         \A d \in e..(n - 1) : Trailing(d),
         Top'.pc \in Expressing => \/ \E b \in a..(e - 1) : Skipped(b)
                                   \/ \A d \in e..(n - 1) : At(d) \in Blanks,
         Top'.pc = "member" => LookAt' = n /\ (n < e \/ \E b \in a..(e - 1) : Skipped(b))
  PROVE  Behind'
  <1>1. \A d : At(d)' = At(d) /\ Skipped(d)' = Skipped(d)
    BY SameSource
  <1>2. \A d \in e..(n - 1) : At(d)' \in Idents \cup {"(", ")", "[", "]", "."} \/ Skipped(d)'
    BY <1>1 DEF Trailing, Brackets
  <1>3. \A d \in Top'.end..(offset' - 1) :
          At(d)' \in Idents \cup {"(", ")", "[", "]", "."} \/ Skipped(d)'
    BY <1>2
  <1>4. Top'.pc \in Expressing => \/ \E b \in Top'.from..(Top'.end - 1) : Skipped(b)'
                                  \/ \A d \in Top'.end..(offset' - 1) : At(d)' \in Blanks
    BY <1>1
  <1>5. Top'.pc = "member" => LookAt' = offset' /\ (\/ \E b \in Top'.from..(Top'.end - 1) : Skipped(b)'
                                                  \/ offset' < Top'.end)
    BY <1>1
  <1> QED BY <1>3, <1>4, <1>5 DEF Behind, Trails, Cuts, Expressing, Blanks, Idents

\* The expression grows.
LEMMA GrowsKeeps ==
  ASSUME Running, Top.pc \in Expressing \cup {"member"}, Code, UNCHANGED nodes,
         NEW pc \in Expressing \cup {"member"}, NEW end \in Nat, Grows(pc, end)
  PROVE  /\ Top'.pc = pc /\ Top'.from = Top.from /\ Top'.end = end
         /\ Behind' => KeepsWords
  <1> DEFINE f == [Top EXCEPT !.pc = pc, !.end = end]
  <1>1. Top.pc \in CodePcs /\ pc \in CodePcs /\ pc \in Pcs
    BY PcNames DEF CodePcList, Expressing
  <1>2. Top \in Frames /\ Top.from \in Nat
    BY <1>1, AtCode
  <1>3. f \in Frames /\ f.pc = pc /\ f.from = Top.from /\ f.end = end
    <2>1. f \in Frames BY <1>1, <1>2, FrameChanges
    <2> QED BY <1>2, <2>1 DEF Frames
  <1>4. Become(f) BY DEF Grows
  <1> HIDE DEF f
  <1>5. Top' = f BY <1>1, <1>3, <1>4, Becomes
  <1>6. WFloor = Top.from /\ WFloor' = Top.from
    BY <1>3, <1>5, WFloorRules, NextWFloorRules DEF WFloorRule
  <1>7. \A n \in Nat : ~\E o \in n..(n - 1) : TRUE
    OBVIOUS
  <1>8. \A o \in WFloor..(WFloor' - 1) : IsWord(o) => Kept(o)'
    BY <1>2, <1>6, <1>7
  <1>9. Grown BY Types, AddedNone DEF Typed
  <1>10. Top'.pc \notin {"children", "element"}
    BY <1>3, <1>5, PcNames DEF Expressing
  <1> QED BY <1>3, <1>5, <1>8, <1>9, <1>10 DEF KeepsWords, Code

\* Blanks up to a bracket or a period are not counted, so that it is cut off.
LEMMA UpToBracket ==
  ASSUME Running, Top.pc \in Expressing, WInv, Look \in Brackets
  PROVE  /\ \A d \in Top.end..LookAt : Trailing(d)
         /\ \/ LookAt = Top.end
            \/ Skipped(Top.end)
            \/ \E b \in Top.from..(Top.end - 1) : Skipped(b)
         /\ \/ \E b \in Top.from..(Top.end - 1) : Skipped(b)
            \/ \A d \in Top.end..(LookAt - 1) : At(d) \in Blanks
         /\ Top.from <= Top.end /\ Top.end <= LookAt
         /\ Top.from \in Nat /\ Top.end \in Nat /\ LookAt \in Nat /\ Top.pc \in CodePcs
         /\ Look \notin {"EOF", ";"}
  <1>1. Look \notin {"EOF", ";"} BY DEF Brackets
  <1>2. /\ Top.pc \in CodePcs /\ Top.from <= Top.end /\ Top.end <= offset /\ offset <= LookAt
        /\ Top.from \in Nat /\ Top.end \in Nat /\ offset \in Nat /\ LookAt \in Nat
        /\ Top.end <= LookAt
    BY <1>1, InExpression
  <1>3. GoodLook /\ LookAt < Len(src) /\ At(LookAt) = Look /\ Len(src) \in Nat
    BY <1>1, <1>2, LookIs, Types
  <1>4. \A d \in offset..(LookAt - 1) : At(d) \in Blanks
    BY <1>3 DEF GoodLook
  <1>5. LookAt \in 0..(Len(src) - 1) /\ At(LookAt) \in {"(", ")", "[", "]", "."}
    BY <1>2, <1>3 DEF Brackets
  <1>6. ASSUME NEW d \in Int, d <= LookAt - 1, \A c \in d..(LookAt - 1) : At(c) \in Blanks
        PROVE  Skipped(d)
    <2>1. LookAt \in d..(Len(src) - 1)
      BY <1>2, <1>3, <1>6
    <2>2. d \in d..(LookAt - 1) BY <1>2, <1>6
    <2> QED BY <1>5, <1>6, <2>1, <2>2 DEF Skipped
  <1>7. Behind BY DEF WInv, Running
  <1>8. \A d \in Top.end..(offset - 1) : Trailing(d)
    BY <1>7, TrailsAre DEF Behind
  <1>9. \A d \in offset..(LookAt - 1) : Skipped(d)
    <2> TAKE d \in offset..(LookAt - 1)
    <2>1. d \in Int /\ d <= LookAt - 1 /\ \A c \in d..(LookAt - 1) : c \in offset..(LookAt - 1)
      BY <1>2
    <2> QED BY <1>4, <1>6, <2>1
  <1> DEFINE e == Top.end
             a == Top.from
  <1>10. e \in Nat /\ a \in Nat /\ e <= offset /\ e <= LookAt
    BY <1>2
  <1>11. /\ \A d \in e..(offset - 1) : Trailing(d)
         /\ \/ \E b \in a..(e - 1) : Skipped(b)
            \/ \A d \in e..(offset - 1) : At(d) \in Blanks
    BY <1>7, <1>8 DEF Behind, Cuts
  <1> HIDE DEF e, a
  <1>12. \A d \in e..LookAt : d \in e..(offset - 1) \/ d \in offset..(LookAt - 1) \/ d = LookAt
    BY <1>2, <1>10
  <1>13. \A d \in e..LookAt : Trailing(d)
    BY <1>5, <1>9, <1>11, <1>12 DEF Trailing, Brackets
  <1>14. \/ \E b \in a..(e - 1) : Skipped(b)
         \/ \A d \in e..(LookAt - 1) : At(d) \in Blanks
    <2>1. \A d \in e..(LookAt - 1) : d \in e..(offset - 1) \/ d \in offset..(LookAt - 1)
      BY <1>2, <1>10
    <2> QED BY <1>4, <1>11, <2>1
  <1>15. \/ LookAt = e
         \/ Skipped(e)
         \/ \E b \in a..(e - 1) : Skipped(b)
    <2>1. LookAt # e => e \in Int /\ e <= LookAt - 1
      BY <1>2, <1>10
    <2> QED BY <1>6, <1>14, <2>1
  <1> QED BY <1>1, <1>2, <1>13, <1>14, <1>15 DEF a, e

\* So it is where the expression has grown by that bracket, or by a period and
\* a name.
LEMMA BracketBehind ==
  ASSUME Running, Top.pc \in Expressing, WInv, Look \in Brackets, src' = src,
         NEW n \in {1, 2}, Top'.from = Top.from, Top'.end = Top.end + n, offset' = LookAt + 1,
         IF n = 1 THEN Top'.pc \in Expressing ELSE Top'.pc = "member" /\ LookAt' = LookAt + 1
  PROVE  Behind'
  <1> DEFINE e == Top.end
             a == Top.from
             l == LookAt
             s == \E b \in a..((e + n) - 1) : Skipped(b)
  <1>1. /\ \A d \in e..l : Trailing(d)
        /\ l = e \/ Skipped(e) \/ \E b \in a..(e - 1) : Skipped(b)
        /\ a <= e /\ e <= l /\ a \in Nat /\ e \in Nat /\ l \in Nat
    BY UpToBracket
  <1> HIDE DEF e, a, l
  <1>2. \A d \in (e + n)..((l + 1) - 1) : d \in e..l
    BY <1>1
  <1>3. l = e \/ s
    <2>1. /\ e \in a..((e + n) - 1)
          /\ \A b \in a..(e - 1) : b \in a..((e + n) - 1)
      BY <1>1
    <2> QED BY <1>1, <2>1
  <1>4. l = e => l + 1 < e + 2 /\ ~\E d \in (e + 1)..((l + 1) - 1) : TRUE
    BY <1>1
  <1>5. \A d \in (e + n)..((l + 1) - 1) : Trailing(d)
    BY <1>1, <1>2
  <1>6. Top'.pc \in Expressing => s \/ \A d \in (e + n)..((l + 1) - 1) : At(d) \in Blanks
    <2>1. Top'.pc \in Expressing => n = 1
      BY DEF Expressing
    <2> QED BY <1>3, <1>4, <2>1
  <1>7. Top'.pc = "member" => LookAt' = l + 1 /\ (l + 1 < e + n \/ s)
    <2>1. Top'.pc = "member" => n = 2 /\ LookAt' = LookAt + 1
      BY DEF Expressing
    <2> QED BY <1>3, <1>4, <2>1 DEF l
  <1>8. Top'.from = a /\ Top'.end = e + n /\ offset' = l + 1
    BY DEF a, e, l
  <1> QED BY <1>5, <1>6, <1>7, <1>8, NextBehind

LEMMA ArgumentsKeep ==
  ASSUME Running, WInv, NEW pc \in {"call", "index"}, Arguments(pc), phase' = "run"
  PROVE  KeepsWords
  <1>1. /\ Bracket(pc) \in Brackets /\ Unbracket(pc) \in Brackets
        /\ pc \in Expressing /\ "name" \in Expressing
    BY DEF Bracket, Unbracket, Brackets, Expressing
  <1>2. ASSUME NEW old \in Expressing, NEW s \in Brackets, NEW new \in Expressing,
               Step(old, {s}), Grows(new, Top.end + 1)
        PROVE  KeepsWords
    <2>1. Top.pc = old /\ Look \in Brackets /\ Advance /\ Code /\ UNCHANGED nodes /\ src' = src
      BY <1>2 DEF Step, In, Code
    <2>2. Look # "EOF" /\ Top.pc \in CodePcs /\ Top.end \in Nat
      BY <2>1, UpToBracket
    <2>3. Top.end + 1 \in Nat BY <2>2
    <2>4. /\ Top'.pc = new /\ Top'.from = Top.from /\ Top'.end = Top.end + 1
          /\ Behind' => KeepsWords
      BY <1>2, <2>1, <2>3, GrowsKeeps
    <2>5. offset' = LookAt + 1
      BY <2>1, <2>2, StepOver
    <2> QED BY <1>2, <2>1, <2>4, <2>5, BracketBehind
  <1>3. CASE Step("name", {Bracket(pc)}) /\ Grows(pc, Top.end + 1)
    BY <1>1, <1>2, <1>3
  <1>4. CASE Step(pc, {Unbracket(pc)}) /\ Grows("name", Top.end + 1)
    BY <1>1, <1>2, <1>4
  <1>5. ~Fails(pc, {"#", "EOF"})
    BY FailStops DEF Fails
  <1>6. CASE /\ In(pc) /\ Look \notin {Unbracket(pc), "#", "EOF"}
             /\ Advance /\ Grows(pc, TokenOffset(code.look) + Width(Look))
             /\ Code /\ UNCHANGED <<nodes, phase>>
    <2>1. /\ Top.pc = pc /\ Top.pc \in Expressing /\ Look # "EOF" /\ src' = src
          /\ Top.pc \in CodePcs
      BY <1>1, <1>6, PcNames DEF In, Code, CodePcList
    <2>2. offset' = LookAt + 1 /\ LookAt \in Nat /\ LookAt + 1 \in Nat
      BY <1>6, <2>1, StepOver, LookIsInt
    <2>3. TokenOffset(code.look) + Width(Look) = LookAt + 1
      BY <1>6, <2>1, StepOver DEF LookAt
    <2>4. Grows(pc, LookAt + 1) BY <1>6, <2>3
    <2>5. /\ Top'.pc = pc /\ Top'.from = Top.from /\ Top'.end = LookAt + 1
          /\ Behind' => KeepsWords
      BY <1>6, <2>1, <2>2, <2>4, GrowsKeeps
    <2>6. ~\E d \in (LookAt + 1)..((LookAt + 1) - 1) : TRUE
      <3>1. \A n \in Nat : ~\E d \in n..(n - 1) : TRUE
        OBVIOUS
      <3> QED BY <2>2, <3>1
    <2>7. Top'.pc # "member" BY <2>5
    <2>8. Behind'
      BY <2>1, <2>2, <2>5, <2>6, <2>7, NextBehind
    <2> QED BY <2>5, <2>8
  <1> QED BY <1>3, <1>4, <1>5, <1>6 DEF Arguments

LEMMA PeriodKeeps ==
  ASSUME Running, WInv, Period
  PROVE  KeepsWords
  <1>1. ASSUME In("name"), Look = "."
        PROVE  /\ Top.pc = "name" /\ Top.pc \in Expressing /\ Look \in Brackets
               /\ TokenOffset(code.look) = LookAt
    BY <1>1 DEF In, Expressing, Brackets, LookAt
  <1>2. ASSUME In("name"), Look = ".", offset' = TokenOffset(code.look),
               Grows("named", Top.end), Code, UNCHANGED <<nodes, phase>>
        PROVE  KeepsWords
    <2>1. /\ \A d \in Top.end..LookAt : Trailing(d)
          /\ \/ \E b \in Top.from..(Top.end - 1) : Skipped(b)
             \/ \A d \in Top.end..(LookAt - 1) : At(d) \in Blanks
          /\ Top.end \in Nat /\ LookAt \in Nat
      BY <1>1, <1>2, UpToBracket
    <2>2. "named" \in Expressing /\ src' = src
      BY <1>2 DEF Expressing, Code
    <2>3. /\ Top'.pc = "named" /\ Top'.from = Top.from /\ Top'.end = Top.end
          /\ Behind' => KeepsWords
      BY <1>1, <1>2, <2>1, <2>2, GrowsKeeps
    <2>4. offset' = LookAt BY <1>1, <1>2
    <2>5. \A d \in Top.end..(LookAt - 1) : Trailing(d)
      <3>1. \A e, l \in Nat : \A d \in e..(l - 1) : d \in e..l
        OBVIOUS
      <3> QED BY <2>1, <3>1
    <2>6. Behind'
      BY <2>1, <2>2, <2>3, <2>4, <2>5, NextBehind
    <2> QED BY <2>3, <2>6
  <1>3. ASSUME NEW t \in NextTokens, In("name"), Look = ".", t.tok \in Idents,
               ~(t.at - code.look.at > 1),
               Advance, Grows("member", Top.end + 2), Code, UNCHANGED <<nodes, phase>>
        PROVE  KeepsWords
    <2>1. /\ Top.end \in Nat /\ LookAt \in Nat /\ Top.pc \in CodePcs /\ Look \notin {"EOF", ";"}
          /\ src' = src
      BY <1>1, <1>3, UpToBracket DEF Code
    <2>2. Top.end + 2 \in Nat
      BY <1>1, <1>3, <2>1, InExpression
    <2>3. /\ Top'.pc = "member" /\ Top'.from = Top.from /\ Top'.end = Top.end + 2
          /\ Behind' => KeepsWords
      BY <1>1, <1>3, <2>2, GrowsKeeps
    <2>4. offset' = LookAt + 1
      BY <1>3, <2>1, StepOver
    <2>5. LookAt + 1 <= LookAt' /\ code'.base = code.base /\ LookAt' \in Nat
      BY <1>3, <2>1, LookIs, Advances
    <2>6. LookAt' = LookAt + 1
      <3>4. code'.look = t BY <1>3, LooksAhead
      <3>5. LookAt' = code.base + t.at
        BY <2>5, <3>4 DEF LookAt, TokenOffset
      <3>6. code.base \in Nat /\ code.look.at \in Nat /\ LookAt = code.base + code.look.at
        BY Types
      <3>7. t.at \in Int
        <4>1. code'.look \in GoTokens
          BY <1>3, <2>1, Advances DEF GoParsers
        <4>2. t \in GoTokens BY <3>4, <4>1
        <4>3. \A x \in GoTokens : x.at \in Nat
          BY DEF GoTokens
        <4> QED BY <4>2, <4>3, Order
      <3> QED BY <1>3, <2>5, <3>5, <3>6, <3>7
    <2>7. Behind'
      <3>1. 2 \in {1, 2} /\ 2 # 1 OBVIOUS
      <3> QED BY <1>1, <1>3, <2>1, <2>3, <2>4, <2>6, <3>1, BracketBehind
    <2> QED BY <2>3, <2>7
  <1>4. ASSUME Step("member", Idents), NEW pc \in {"named", "name"}, Grows(pc, Top.end)
        PROVE  KeepsWords
    <2>1. /\ Top.pc = "member" /\ Top.pc \in CodePcs /\ Look \notin {"EOF", ";"}
          /\ Look \in Idents /\ Advance /\ Code /\ UNCHANGED nodes /\ pc \in Expressing
          /\ src' = src
      BY <1>4, IdentsAre, PcNames DEF Step, In, CodePcList, Expressing, Code
    <2>2. Top.end \in Nat /\ offset \in Nat /\ LookAt \in Nat
      BY <2>1, AtCode, LookIsInt
    <2>3. /\ Top'.pc = pc /\ Top'.from = Top.from /\ Top'.end = Top.end
          /\ Behind' => KeepsWords
      BY <1>4, <2>1, <2>2, GrowsKeeps
    <2>4. offset' = LookAt + 1 BY <2>1, StepOver
    <2>5. Behind BY <2>1 DEF WInv, Running
    <2>6. LookAt = offset /\ (offset < Top.end \/ \E b \in Top.from..(Top.end - 1) : Skipped(b))
      BY <2>1, <2>5 DEF Behind, Cuts
    <2>7. \A d \in Top.end..(offset - 1) : Trailing(d)
      BY <2>5, TrailsAre DEF Behind
    <2>8. Trailing(LookAt)
      BY <2>1, LookIs DEF Trailing
    <2> DEFINE e == Top.end
               l == LookAt
    <2>9. e \in Nat /\ l \in Nat BY <2>2
    <2> HIDE DEF e, l
    <2>10. \A d \in e..((l + 1) - 1) : d \in e..(l - 1) \/ d = l
      BY <2>9
    <2>11. \A d \in e..((l + 1) - 1) : Trailing(d)
      BY <2>6, <2>7, <2>8, <2>10 DEF e, l
    <2>12. l < e => ~\E d \in e..((l + 1) - 1) : TRUE
      BY <2>9
    <2>13. \/ \E b \in Top.from..(e - 1) : Skipped(b)
           \/ \A d \in e..((l + 1) - 1) : At(d) \in Blanks
      BY <2>6, <2>12 DEF e, l
    <2>14. Top'.end = e /\ offset' = l + 1 /\ Top'.pc # "member"
      BY <2>3, <2>4 DEF e, l
    <2>15. Behind'
      BY <2>1, <2>3, <2>11, <2>13, <2>14, NextBehind
    <2> QED BY <2>3, <2>15
  <1> QED BY <1>2, <1>3, <1>4, PeriodCases

\* What is not in the tree of an expression is blanks, or cut off.
LEMMA NameDoneKeeps ==
  ASSUME Running, WInv, NameDone, phase' = "run"
  PROVE  KeepsWords
  <1>1. Top.pc \in {"named", "name"} /\ Top.pc \in Expressing
    BY DEF NameDone, In, Expressing
  <1>2. Parses(Top.from, Top.end)
    BY FailStops DEF NameDone
  <1>3. Found("expr", Top.from, Top.end) /\ Return /\ UNCHANGED <<offset, code>>
    BY <1>2 DEF NameDone
  <1>4. /\ Top.pc \in CodePcs /\ Top.from \in Nat /\ Top.end \in Nat /\ offset \in Nat
        /\ Top.from \in Int /\ Top.end \in Int
    BY <1>1, InExpression, Order
  <1>5. "expr" \in Kinds /\ "expr" \notin Literals
    BY CodeKinds
  <1>6. Code /\ Add(<<Node("expr", Top.from, Top.end)>>) /\ src' = src
    BY <1>3, <1>4, <1>5, FoundTypes DEF Code
  <1>7. nodes \in Seq(Pieces) BY Types DEF Typed
  <1>8. /\ Grown
        /\ \A o \in Top.from..(Top.end - 1) : Covered(o)'
        /\ \E j \in DOMAIN nodes' : nodes'[j] = Node("expr", Top.from, Top.end)
    BY <1>4, <1>5, <1>6, <1>7, AddedOne
  <1>9. Quiet(Top'.pc)
    BY <1>1, <1>3, <1>4, QuietReturns
  <1>10. WFloor = Top.from /\ WFloor' = offset
    BY <1>1, <1>3, <1>9, Quieter, WFloorRules DEF WFloorRule
  <1>11. Behind BY <1>1 DEF WInv, Running
  <1>12. \A d : At(d)' = At(d) /\ Skipped(d)' = Skipped(d)
    BY <1>6, SameSource
  <1>13. ASSUME NEW o \in Top.end..(offset - 1), IsWord(o) PROVE CutOff(o)'
    <2>1. PICK b \in Top.from..(Top.end - 1) : Skipped(b)
      BY <1>1, <1>11, <1>13, NoWords DEF Behind, Cuts
    <2>2. \A d \in Top.end..o : Trailing(d)
      <3>1. \A e, n \in Nat : \A x \in e..(n - 1) : \A d \in e..x : d \in e..(n - 1)
        OBVIOUS
      <3>2. \A d \in Top.end..o : d \in Top.end..(offset - 1)
        BY <1>4, <3>1
      <3>3. \A d \in Top.end..(offset - 1) : Trailing(d)
        BY <1>11, TrailsAre DEF Behind
      <3> QED BY <3>2, <3>3
    <2>3. PICK j \in DOMAIN nodes' : nodes'[j] = Node("expr", Top.from, Top.end)
      BY <1>8
    <2>4. /\ nodes'[j].kind = "expr" /\ nodes'[j].from = Top.from /\ nodes'[j].to = Top.end
      BY <2>3 DEF Node
    <2>5. nodes'[j].to <= o BY <1>4, <2>4
    <2>6. \A d \in nodes'[j].to..o :
            At(d)' \in Idents \cup {"(", ")", "[", "]", "."} \/ Skipped(d)'
      BY <1>12, <2>2, <2>4 DEF Trailing, Brackets
    <2>7. \E c \in nodes'[j].from..(nodes'[j].to - 1) : Skipped(c)'
      BY <1>12, <2>1, <2>4
    <2> QED BY <2>3, <2>4, <2>5, <2>6, <2>7 DEF CutOff, Trails, Idents
  <1>14. \A o \in WFloor..(WFloor' - 1) : IsWord(o) => Kept(o)'
    <2> TAKE o \in WFloor..(WFloor' - 1)
    <2>1. \A a, e, n \in Nat : \A x \in a..(n - 1) : x \in a..(e - 1) \/ x \in e..(n - 1)
      OBVIOUS
    <2>2. o \in Top.from..(Top.end - 1) \/ o \in Top.end..(offset - 1)
      BY <1>4, <1>10, <2>1
    <2> QED BY <1>8, <1>13, <2>2 DEF Kept
  <1> QED BY <1>6, <1>8, <1>9, <1>14, Quieter DEF KeepsWords

-----------------------------------------------------------------------------
(* Words in the HTML parser.                                               *)

\* The token at an offset, after the step.
LEMMA Advanced ==
  ASSUME src \in Seq(Lexemes), src' = src, NEW o \in Nat, HtmlAdvance(o)
  PROVE  html'.start = o /\ (html \in HtmlAt(html.start))'
  <1>1. html' \in HtmlAt(o) BY DEF HtmlAdvance
  <1>2. html'.start = o BY <1>1, HtmlFinds
  <1>3. (html \in HtmlAt(html.start))'
    BY <1>1, <1>2 DEF HtmlAt, Least, At
  <1> QED BY <1>2, <1>3

\* A text is one to its end.
LEMMA TextOf ==
  ASSUME src \in Seq(Lexemes), NEW a \in Nat, NEW t \in HtmlAt(a), NEW o \in Symbols(t)
  PROVE  /\ t.start = a /\ t.end \in Nat /\ t.end <= Len(src) /\ Len(src) \in Nat
         /\ o \in Nat /\ a <= o /\ o <= t.end - 1 /\ At(o) = "^" /\ ~IsWord(o)
         /\ \A d \in a..(t.end - 1) : o \in Run(d) /\ At(d) \notin Markup
  <1>1. /\ t.start = a /\ t.end \in Nat /\ Len(src) \in Nat
        /\ a < Len(src) => t.end <= Len(src)
        /\ \A d \in (a + 1)..(t.end - 1) : At(d) \notin Markup
        /\ At(a) \in Markup => t.end = a + 1
    BY HtmlFinds, SourceLexemes
  <1>2. o \in a..(t.end - 1) /\ At(o) = "^"
    BY <1>1 DEF Symbols
  <1>3. o \in Nat /\ a <= o /\ o <= t.end - 1
    BY <1>1, <1>2
  <1>4. a < Len(src)
    <2>1. o \in 0..(Len(src) - 1)
      <3>1. At(o) # "" /\ o \in Int BY <1>2, <1>3
      <3> QED BY <3>1, SourceLexemes
    <2> QED BY <1>1, <1>3, <2>1
  <1>5. "^" \notin Markup
    BY LexemesAssumption DEF Signs
  <1>6. \A d \in a..(t.end - 1) : At(d) \notin Markup
    <2>1. At(a) \notin Markup
      <3>1. t.end = a + 1 => o = a BY <1>1, <1>3
      <3> QED BY <1>1, <1>2, <1>5, <3>1
    <2>2. \A d \in a..(t.end - 1) : d = a \/ d \in (a + 1)..(t.end - 1)
      BY <1>1
    <2> QED BY <1>1, <2>1, <2>2
  <1>7. \A d \in a..(t.end - 1) : o \in Run(d)
    <2> TAKE d \in a..(t.end - 1)
    <2>1. o \in 0..(Len(src) - 1)
      BY <1>1, <1>3, <1>4
    <2>2. /\ \A x \in o..d : x \in a..(t.end - 1)
          /\ \A x \in d..o : x \in a..(t.end - 1)
      BY <1>1, <1>3
    <2>3. \A x \in (IF o < d THEN o..d ELSE d..o) : At(x) \notin Markup
      BY <1>6, <2>2
    <2> QED BY <2>1, <2>3 DEF Run
  <1>8. ~IsWord(o) BY <1>2, NoWords DEF Signs
  <1>9. \A d \in a..(t.end - 1) : o \in Run(d) /\ At(d) \notin Markup
    BY <1>6, <1>7
  <1> QED BY <1>1, <1>2, <1>3, <1>4, <1>8, <1>9

\* No symbol is before the first one, and none in a tag.
LEMMA BeforeFirst ==
  ASSUME src \in Seq(Lexemes), NEW a \in Nat, NEW t \in HtmlAt(a), NEW o \in Symbols(t),
         \A d \in Symbols(t) : o <= d
  PROVE  \A d \in a..(o - 1) : At(d) # "^"
  <1> TAKE d \in a..(o - 1)
  <1>1. t.start = a /\ t.end \in Nat /\ o \in Nat /\ o <= t.end - 1
    BY TextOf
  <1>2. d \in t.start..(t.end - 1) /\ ~(o <= d)
    BY <1>1
  <1> QED BY <1>2 DEF Symbols

LEMMA TagSymbols ==
  ASSUME src \in Seq(Lexemes), NEW a \in Nat, NEW t \in HtmlAt(a), At(a) \in Markup
  PROVE  \A d \in a..(t.end - 1) : At(d) # "^"
  <1>1. t.end = a + 1 BY HtmlFinds
  <1>2. \A n \in Nat : \A d \in n..((n + 1) - 1) : d = n
    OBVIOUS
  <1>3. "^" \notin Markup
    BY LexemesAssumption DEF Signs
  <1> QED BY <1>1, <1>2, <1>3

\* The document goes on.
LEMMA DocumentKeeps ==
  ASSUME Running, In("document"), src' = src, UNCHANGED stack, Grown,
         \A d \in offset..(offset' - 1) : IsWord(d) => Kept(d)'
  PROVE  KeepsWords
  <1>1. Top.pc = "document" /\ Top' = Top
    BY ChildStays DEF In
  <1>2. Quiet(Top.pc) /\ Quiet(Top'.pc)
    BY <1>1, PcNames DEF Quiet, Expressing
  <1> QED BY <1>2, Quieter DEF KeepsWords

LEMMA DocumentLiteralKeeps ==
  ASSUME Running, DocumentLiteral
  PROVE  KeepsWords
  <1>1. PICK t \in HtmlAt(offset) :
          /\ Tokenize(t) /\ Add(<<Node("literal", t.start, t.end)>>)
          /\ offset' = t.end /\ UNCHANGED <<code, stack, phase>>
    BY DEF DocumentLiteral
  <1>2. /\ t.start = offset /\ t.start <= t.end /\ t.start \in Nat /\ t.end \in Nat
        /\ t.start \in Int /\ t.end \in Int
    BY <1>1, Tokens, Order DEF Tokenize
  <1>3. "literal" \in Kinds /\ nodes \in Seq(Pieces)
    BY Types DEF Kinds, Typed
  <1>4. Grown /\ \A d \in t.start..(t.end - 1) : Covered(d)'
    BY <1>1, <1>2, <1>3, AddedOne
  <1>5. \A d \in offset..(offset' - 1) : IsWord(d) => Kept(d)'
    BY <1>1, <1>2, <1>4 DEF Kept
  <1> QED BY <1>1, <1>4, <1>5, DocumentKeeps DEF Tokenize

LEMMA DocumentEscapeKeeps ==
  ASSUME Running, DocumentEscape
  PROVE  KeepsWords
  <1>1. PICK t \in HtmlAt(offset) : \E o \in Least(Pairs(t)) :
          /\ Tokenize(t) /\ Add(Lead(t, o) \o <<Node("escape", o, o + 2)>>)
          /\ offset' = o + 2 /\ UNCHANGED <<code, stack, phase>>
    BY DEF DocumentEscape
  <1>2. PICK o \in Symbols(t) :
          /\ Tokenize(t) /\ Add(Lead(t, o) \o <<Node("escape", o, o + 2)>>)
          /\ offset' = o + 2 /\ UNCHANGED <<code, stack, phase>>
    BY <1>1 DEF Least, Pairs
  <1>3. /\ t.start = offset /\ t.start \in Nat /\ offset \in Nat
        /\ o \in Nat /\ offset <= o /\ o + 2 \in Nat
    BY <1>2, Tokens DEF Tokenize
  <1>4. /\ o \in Int /\ o + 2 \in Int /\ offset \in Int /\ o <= o + 2
        /\ \A d \in offset..((o + 2) - 1) : d \in offset..(o - 1) \/ d \in o..((o + 2) - 1)
    BY <1>3
  <1>5. "literal" \in Kinds /\ "escape" \in Kinds /\ nodes \in Seq(Pieces)
    BY Types DEF Kinds, Typed
  <1>6. /\ Grown
        /\ \A d \in offset..((o + 2) - 1) : Covered(d)'
    <2>1. CASE o > t.start
      <3>1. Lead(t, o) \o <<Node("escape", o, o + 2)>>
              = <<Node("literal", offset, o), Node("escape", o, o + 2)>>
        BY <1>3, <2>1, Concats DEF Lead
      <3>2. Add(<<Node("literal", offset, o), Node("escape", o, o + 2)>>)
        BY <1>2, <3>1
      <3>3. /\ Grown
            /\ \A d \in offset..(o - 1) : Covered(d)'
            /\ \A d \in o..((o + 2) - 1) : Covered(d)'
        BY <1>3, <1>4, <1>5, <3>2, AddedTwo
      <3> QED BY <1>4, <3>3
    <2>2. CASE ~(o > t.start)
      <3>1. Lead(t, o) \o <<Node("escape", o, o + 2)>> = <<Node("escape", o, o + 2)>>
        BY <2>2, Concats DEF Lead
      <3>2. Add(<<Node("escape", o, o + 2)>>)
        BY <1>2, <3>1
      <3>4. o = offset BY <1>3, <2>2
      <3>3. Grown /\ \A d \in o..((o + 2) - 1) : Covered(d)'
        BY <1>3, <1>4, <1>5, <3>2, AddedOne
      <3> QED BY <3>3, <3>4
    <2> QED BY <2>1, <2>2
  <1>7. \A d \in offset..(offset' - 1) : IsWord(d) => Kept(d)'
    BY <1>2, <1>6 DEF Kept
  <1> QED BY <1>2, <1>6, <1>7, DocumentKeeps DEF Tokenize

\* What precedes ^layout is left out.
LEMMA DocumentLayoutKeeps ==
  ASSUME Running, DocumentLayout, phase' = "run"
  PROVE  KeepsWords
  <1>1. PICK t, o : /\ t \in HtmlAt(offset) /\ o \in Symbols(t) /\ \A d \in Symbols(t) : o <= d
                    /\ In("document") /\ src' = src
                    /\ Fail \/ LayoutRead(t, o)
    BY LayoutIs
  <1>2. LayoutRead(t, o) BY <1>1, FailStops
  <1>3. PICK e \in LayoutEnd(o + 3) : Add(<<Node("layout", o + 1, e)>>) /\ offset' = e
    BY <1>2 DEF LayoutRead
  <1>4. /\ o \in Nat /\ o + 1 \in Nat /\ offset \in Nat /\ offset <= o
    BY <1>1, Tokens
  <1>5. e \in Nat BY <1>4, LayoutEnds
  <1>6. "layout" \in Kinds /\ "layout" \notin Literals /\ nodes \in Seq(Pieces)
        /\ e \in Int /\ o + 1 \in Int /\ src \in Seq(Lexemes)
    BY <1>4, <1>5, Types, Order DEF Kinds, Literals, Typed
  <1>7. /\ Grown /\ \A d \in (o + 1)..(e - 1) : Covered(d)'
        /\ \E j \in DOMAIN nodes' : nodes'[j] = Node("layout", o + 1, e)
    BY <1>3, <1>4, <1>6, AddedOne
  <1>8. /\ At(o) = "^" /\ ~IsWord(o) /\ o <= t.end - 1 /\ t.end \in Nat /\ t.start = offset
        /\ \A d \in offset..(t.end - 1) : At(d) \notin Markup
    BY <1>1, <1>4, <1>6, TextOf
  <1>9. ASSUME NEW d \in offset..(e - 1), IsWord(d) PROVE Kept(d)'
    <2>1. d \in (o + 1)..(e - 1) \/ d = o \/ d < o
      BY <1>4, <1>5
    <2>2. CASE d < o
      <3>1. \A x \in d..((o + 1) - 2) : x \in offset..(t.end - 1) /\ x \in offset..(o - 1)
        BY <1>4, <1>8
      <3>2. \A x \in d..((o + 1) - 2) : At(x) \notin Markup \cup {"^"}
        BY <1>1, <1>4, <1>6, <1>8, <2>2, <3>1, BeforeFirst
      <3>3. PICK j \in DOMAIN nodes' : nodes'[j] = Node("layout", o + 1, e)
        BY <1>7
      <3>4. nodes'[j].kind = "layout" /\ nodes'[j].from = o + 1 /\ d < nodes'[j].from
        BY <1>4, <2>2, <3>3 DEF Node
      <3>5. \A x : At(x)' = At(x) BY <1>1 DEF At
      <3>6. BeforeLayout(d)'
        BY <3>2, <3>4, <3>5 DEF BeforeLayout
      <3> QED BY <3>6 DEF Kept
    <2> QED BY <1>7, <1>8, <1>9, <2>1, <2>2 DEF Kept
  <1> QED BY <1>1, <1>2, <1>3, <1>7, <1>9, DocumentKeeps DEF LayoutRead

\* The text before a symbol.
LEMMA LeadKeeps ==
  ASSUME Running, NEW a \in Nat, NEW t \in HtmlAt(a), NEW o \in Symbols(t), Add(Lead(t, o))
  PROVE  /\ Grown
         /\ \A d \in a..((o + 1) - 1) : IsWord(d) => Kept(d)'
         /\ o \in Nat
  <1>1. src \in Seq(Lexemes) /\ nodes \in Seq(Pieces) /\ "literal" \in Kinds
    BY Types DEF Typed, Kinds
  <1>2. t.start = a /\ o \in Nat /\ a <= o /\ ~IsWord(o)
    BY <1>1, TextOf
  <1>3. a \in Int /\ o \in Int /\ \A d \in a..((o + 1) - 1) : d \in a..(o - 1) \/ d = o
    BY <1>2
  <1>4. CASE o > a
    <2>1. Add(<<Node("literal", a, o)>>)
      BY <1>2, <1>4 DEF Lead
    <2>2. Grown /\ \A d \in a..(o - 1) : Covered(d)'
      BY <1>1, <1>2, <1>3, <2>1, AddedOne
    <2> QED BY <1>2, <1>3, <2>2 DEF Kept
  <1>5. CASE ~(o > a)
    <2>1. Add(<<>>) BY <1>2, <1>5 DEF Lead
    <2>2. Grown BY <1>1, <2>1, AddedNone
    <2>3. \A d \in a..(o - 1) : FALSE BY <1>2, <1>5
    <2> QED BY <1>2, <1>3, <2>2, <2>3
  <1> QED BY <1>4, <1>5

\* A frame for Go code is called.
LEMMA KeywordCalled ==
  ASSUME Running, NEW back \in Frames, back.pc \in {"document", "resume"},
         Call(Frame("keyword"), back), Replaces(back)
  PROVE  WFloor' = offset' /\ Top'.pc \notin {"children", "element", "member"} \cup Expressing
  <1>1. /\ Frame("keyword") \in Frames /\ Frame("keyword").pc = "keyword"
        /\ "keyword" \in CodePcs
    BY FrameType, PcNames DEF CodePcList
  <1>2. back.pc \in Below(Frame("keyword").pc)
    BY <1>1, BelowCode DEF Callables
  <1>3. Top' = Frame("keyword") BY <1>1, <1>2, Calls
  <1>4. Quiet(Top'.pc)
    BY <1>1, <1>3, PcNames DEF Quiet, Expressing
  <1> QED BY <1>4, Quieter

LEMMA DocumentTransitionKeeps ==
  ASSUME Running, DocumentTransition
  PROVE  KeepsWords
  <1>0. PICK t \in HtmlAt(offset) : \E o \in Symbols(t) :
          /\ Tokenize(t) /\ Add(Lead(t, o)) /\ offset' = o + 1
          /\ Call(Frame("keyword"), Top)
    BY DEF DocumentTransition, Least
  <1>1. PICK o \in Symbols(t) :
          /\ Tokenize(t) /\ Add(Lead(t, o)) /\ offset' = o + 1
          /\ Call(Frame("keyword"), Top)
    BY <1>0
  <1>2. Top.pc = "document" /\ Top \in Frames /\ Replaces(Top) /\ src' = src /\ offset \in Nat
    BY <1>1, Stack, Types DEF Replaces, Tokenize, In, Typed
  <1>3. WFloor' = o + 1 /\ Top'.pc \notin {"children", "element", "member"} \cup Expressing
    BY <1>1, <1>2, KeywordCalled
  <1>4. WFloor = offset
    BY <1>2, PcNames, WFloorRules DEF WFloorRule, Expressing
  <1>5. Grown /\ \A d \in offset..((o + 1) - 1) : IsWord(d) => Kept(d)'
    BY <1>1, <1>2, LeadKeeps
  <1> QED BY <1>2, <1>3, <1>4, <1>5 DEF KeepsWords

\* The children go on.
LEMMA ChildrenKeep ==
  ASSUME Running, Top.pc = "children", src' = src, Grown, HtmlAdvance(offset),
         Top'.pc = "children",
         \A d \in html.start..(html.end - 1) : IsWord(d) => (Kept(d) \/ LeftForGood(d))'
  PROVE  KeepsWords
  <1>1. offset = html.end /\ offset \in Nat /\ src \in Seq(Lexemes)
    BY AtChild
  <1>2. html'.start = offset /\ (html \in HtmlAt(html.start))'
    BY <1>1, Advanced
  <1>3. WFloor = html.start
    BY WFloorRules DEF WFloorRule
  <1>4. WFloor' = html.end
    BY <1>1, <1>2, NextWFloorRules DEF WFloorRule
  <1>5. Top'.pc \notin Expressing \cup {"member"}
    BY DEF Expressing
  <1> QED BY <1>2, <1>3, <1>4, <1>5 DEF KeepsWords

\* A node for the whole token.
LEMMA ChildAdded ==
  ASSUME Running, Top.pc \in {"children", "element"}, NEW kind \in {"element", "end", "literal"},
         Add(<<Node(kind, html.start, html.end)>>)
  PROVE  Grown /\ \A d \in html.start..(html.end - 1) : IsWord(d) => Kept(d)'
  <1>1. /\ html.start \in Nat /\ html.end \in Nat /\ html.start <= html.end
        /\ html.start \in Int /\ html.end \in Int
    BY AtChild, Order
  <1>2. kind \in Kinds /\ nodes \in Seq(Pieces)
    BY Types DEF Kinds, Typed
  <1> QED BY <1>1, <1>2, AddedOne DEF Kept

LEMMA ChildElementKeeps ==
  ASSUME Running, ChildElement
  PROVE  KeepsWords
  <1>1. Top.pc = "children" BY DEF ChildElement, In
  <1>2. /\ Child \in DOMAIN Open /\ Add(<<Node("element", html.start, html.end)>>)
        /\ HtmlAdvance(offset) /\ src' = src
    BY DEF ChildElement
  <1>3. Top \in Frames /\ Top.open \in Seq(STRING) /\ Len(stack) # 1
    BY <1>1, AtChild
  <1>4. Top'.pc = "children"
    <2>1. CASE UNCHANGED stack
      BY <1>1, <2>1, ChildStays
    <2>2. CASE Call(Frame("children"), [Top EXCEPT !.open = Append(@, Open[Child])])
      <3> DEFINE f == [Top EXCEPT !.open = Append(@, Open[Child])]
      <3>1. Open[Child] \in STRING
        BY <1>2, TagNames DEF Child
      <3>2. /\ Append(Top.open, Open[Child]) \in Seq(STRING)
            /\ Append(Top.open, Open[Child]) # <<>>
        BY <1>3, <3>1, AppendProperties
      <3>3. f \in Frames /\ f.pc = "children" /\ f.open # <<>>
        BY <1>1, <1>3, <3>2 DEF Frames
      <3>4. Call(Frame("children"), f) BY <2>2
      <3> HIDE DEF f
      <3>5. Frame("children") \in Frames /\ Frame("children").pc = "children"
        BY FrameType, PcNames
      <3>6. Replaces(f) /\ f.pc \in Below(Frame("children").pc)
        BY <1>1, <1>3, <3>3, <3>5, BelowCode DEF Replaces
      <3> QED BY <3>3, <3>4, <3>5, <3>6, Calls
    <2> QED BY <2>1, <2>2 DEF ChildElement, Stay
  <1> QED BY <1>1, <1>2, <1>4, ChildAdded, ChildrenKeep

LEMMA ChildrenReturnKeeps ==
  ASSUME Running, WInv, ChildrenReturn
  PROVE  KeepsWords
  <1>1. Top.pc = "children" /\ Return /\ UNCHANGED <<src, offset, html, code, nodes, phase>>
    BY DEF ChildrenReturn, In
  <1>2. Top'.pc \in {"children", "element"}
    BY <1>1, Returns, BelowCode
  <1>3. WFloor = html.start /\ WFloor' = html.start /\ html.start \in Nat
    BY <1>1, <1>2, AtChild, WFloorRules, NextWFloorRules DEF WFloorRule
  <1>4. \A n \in Nat : ~\E o \in n..(n - 1) : TRUE
    OBVIOUS
  <1>5. \A d \in WFloor..(WFloor' - 1) : IsWord(d) => Kept(d)'
    BY <1>3, <1>4
  <1>6. html \in HtmlAt(html.start)
    BY <1>1 DEF WInv, Running
  <1>7. (html \in HtmlAt(html.start))'
    BY <1>1, <1>6 DEF HtmlAt, Least, At
  <1>8. Grown BY <1>1, Types, AddedNone DEF Typed
  <1>9. Top'.pc \notin Expressing \cup {"member"}
    BY <1>2 DEF Expressing
  <1> QED BY <1>1, <1>5, <1>7, <1>8, <1>9 DEF KeepsWords

LEMMA ChildEndKeeps ==
  ASSUME Running, ChildEnd, phase' = "run"
  PROVE  KeepsWords
  <1>1. Top.pc = "children" /\ Top.open # <<>> /\ src' = src /\ Child \in DOMAIN Close
    BY DEF ChildEnd, In
  <1>2. Top.open[Len(Top.open)] = Close[Child]
    BY <1>1, FailStops DEF ChildEnd
  <1> DEFINE f == [Top EXCEPT !.open = SubSeq(@, 1, Len(@) - 1)]
  <1>3. /\ HtmlAdvance(offset) /\ Add(<<Node("end", html.start, html.end)>>) /\ Become(f)
    BY <1>2 DEF ChildEnd
  <1>4. Top \in Frames /\ Top.open \in Seq(STRING) /\ Len(stack) # 1
    BY <1>1, AtChild
  <1>5. f \in Frames /\ f.pc = "children"
    <2>1. SubSeq(Top.open, 1, Len(Top.open) - 1) \in Seq(STRING)
      <3> DEFINE o == Top.open
      <3>1. o \in Seq(STRING) /\ Len(o) \in Nat
        BY <1>4, LenProperties
      <3>2. \A k \in 1..Len(o) : o[k] \in STRING
        BY <3>1, ElementOfSeq
      <3> HIDE DEF o
      <3>3. Len(o) - 1 \in Int /\ \A k \in 1..(Len(o) - 1) : o[k] \in STRING
        BY <3>1, <3>2
      <3>4. SubSeq(o, 1, Len(o) - 1) \in Seq(STRING)
        BY <3>1, <3>3, SubSeqProperties
      <3> QED BY <3>4 DEF o
    <2> QED BY <1>1, <1>4, <2>1 DEF Frames
  <1> HIDE DEF f
  <1>6. Replaces(f) BY <1>1, <1>4, <1>5 DEF Replaces
  <1>7. Top'.pc = "children"
    BY <1>3, <1>5, <1>6, Remains
  <1> QED BY <1>1, <1>3, <1>7, ChildAdded, ChildrenKeep

\* What leaves no node is no word, or is left out.
LEMMA ChildDroppedKeeps ==
  ASSUME Running, WInv, Done(Floor), Opened, ChildDropped
  PROVE  KeepsWords
  <1>1. /\ Top.pc = "children" /\ HtmlAdvance(offset) /\ UNCHANGED <<src, code, stack, nodes>>
        /\ \/ Child = "<!-- -->"
           \/ IsText(html) /\ \E o \in Least(Symbols(html)) : o \in Pairs(html)
    BY DEF ChildDropped, In
  <1>2. Top'.pc = "children" BY <1>1, ChildStays
  <1>3. Grown BY <1>1, Types, AddedNone DEF Typed
  <1>4. html \in HtmlAt(html.start) /\ html.start \in Nat /\ src \in Seq(Lexemes)
        /\ nodes \in Seq(Pieces)
    BY <1>1, Types DEF WInv, Running, Typed
  <1>5. CASE Child = "<!-- -->"
    <2>1. At(html.start) = "<!-- -->" /\ At(html.start) \in Markup
      BY <1>5 DEF Child, Markup
    <2>2. html.end = html.start + 1
      BY <1>4, <2>1, HtmlFinds
    <2>3. \A d \in html.start..(html.end - 1) : d = html.start
      <3>1. \A n \in Nat : \A d \in n..((n + 1) - 1) : d = n
        OBVIOUS
      <3> QED BY <1>4, <2>2, <3>1
    <2>4. \A d \in html.start..(html.end - 1) : ~IsWord(d)
      BY <2>1, <2>3, NoWords
    <2> QED BY <1>1, <1>2, <1>3, <2>4, ChildrenKeep
  <1>6. CASE IsText(html) /\ \E o \in Least(Symbols(html)) : o \in Pairs(html)
    <2>1. PICK o \in Symbols(html) : o + 1 \in Symbols(html) /\ \A x \in Symbols(html) : o <= x
      BY <1>6 DEF Least, Pairs
    <2>2. /\ Doubled(o) /\ o \in Nat /\ html.start <= o /\ o <= html.end - 1 /\ html.end \in Nat
          /\ \A d \in html.start..(html.end - 1) : o \in Run(d)
      BY <1>4, <2>1, TextOf DEF Symbols, Doubled
    <2>3. \A d \in html.start..(o - 1) : At(d) # "^"
      BY <1>4, <2>1, BeforeFirst
    <2>4. Balance(1, Len(nodes)) > 0
      BY <1>1, <1>6 DEF Opened, Child, IsText, Running
    <2>5. Len(nodes) \in DOMAIN nodes /\ nodes[Len(nodes)] \in Pieces /\ nodes # <<>>
      <3>1. Len(nodes) # 0
        BY <1>4, <2>4, BalanceNone
      <3> QED BY <1>4, <3>1, LenProperties, ElementOfSeq, EmptySeq
    <2>6. \A x \in html.start..(html.end - 1) : Between(Len(nodes), x)
      <3>1. \/ nodes[Len(nodes)].to <= html.start
            \/ nodes[Len(nodes)].kind = "import" /\ nodes[Len(nodes)].from <= html.start
        BY <1>1, <2>5, AtChild DEF Done, Last
      <3>2. nodes[Len(nodes)].to \in Int /\ nodes[Len(nodes)].from \in Int
        BY <2>5, Order DEF Pieces
      <3>3. ~(Len(nodes) < Len(nodes))
        BY <1>4, LenProperties
      <3> QED BY <1>4, <3>1, <3>2, <3>3 DEF Between
    <2>7. html'.start = html.end /\ Floor' = html.end
      BY <1>1, <1>2, AtChild, Advanced, NextFloorRules DEF FloorRule
    <2>8. ASSUME NEW d \in html.start..(html.end - 1) PROVE LeftForGood(d)'
      <3>1. /\ o \in html.start..(html.end - 1) /\ d < html.end /\ o < html.end
            /\ \A x \in d..(o - 1) : x \in html.start..(o - 1)
        BY <1>4, <2>2
      <3>2. Skips(Len(nodes), o, d) /\ o \in Run(d)
        BY <2>2, <2>3, <2>4, <2>6, <3>1 DEF Skips
      <3>3. Skips(Len(nodes), o, d)' /\ o \in Run(d)'
        BY <1>1, <1>4, <2>5, <3>2, SameTree
      <3> QED BY <1>1, <2>5, <2>7, <3>1, <3>3 DEF LeftForGood
    <2> QED BY <1>1, <1>2, <1>3, <2>8, ChildrenKeep
  <1> QED BY <1>1, <1>5, <1>6

LEMMA ChildLiteralKeeps ==
  ASSUME Running, ChildLiteral
  PROVE  KeepsWords
  <1>1. /\ Top.pc = "children" /\ HtmlAdvance(offset) /\ UNCHANGED <<src, code, stack>>
        /\ Add(<<Node("literal", html.start, html.end)>>)
    BY DEF ChildLiteral, In
  <1>2. Top'.pc = "children" BY <1>1, ChildStays
  <1> QED BY <1>1, <1>2, ChildAdded, ChildrenKeep

LEMMA ChildTransitionKeeps ==
  ASSUME Running, WInv, ChildTransition
  PROVE  KeepsWords
  <1> DEFINE f == [Top EXCEPT !.pc = "resume"]
  <1>1. Top.pc = "children" /\ src' = src /\ Call(Frame("keyword"), f)
    BY DEF ChildTransition, In
  <1>2. PICK o \in Symbols(html) : Add(Lead(html, o)) /\ offset' = o + 1
    BY DEF ChildTransition, Least
  <1>3. Top \in Frames /\ Len(stack) # 1 /\ html.start \in Nat
    BY <1>1, AtChild
  <1>4. f \in Frames /\ f.pc = "resume"
    <2>1. "resume" \in Pcs BY PcNames
    <2> QED BY <1>3, <2>1, FrameChanges DEF Frames
  <1> HIDE DEF f
  <1>5. Replaces(f)
    BY <1>1, <1>3, <1>4, BelowCode DEF Replaces
  <1>6. WFloor' = o + 1 /\ Top'.pc \notin {"children", "element", "member"} \cup Expressing
    BY <1>1, <1>2, <1>4, <1>5, KeywordCalled
  <1>7. WFloor = html.start
    BY <1>1, WFloorRules DEF WFloorRule
  <1>8. html \in HtmlAt(html.start)
    BY <1>1 DEF WInv, Running
  <1>9. Grown /\ \A d \in html.start..((o + 1) - 1) : IsWord(d) => Kept(d)'
    BY <1>2, <1>3, <1>8, LeadKeeps
  <1> QED BY <1>1, <1>6, <1>7, <1>9 DEF KeepsWords

LEMMA ChildResumeKeeps ==
  ASSUME Running, ChildResume
  PROVE  KeepsWords
  <1> DEFINE f == [Top EXCEPT !.pc = "children"]
  <1>1. /\ Top.pc = "resume" /\ HtmlAdvance(offset) /\ Become(f) /\ UNCHANGED <<src, nodes>>
    BY DEF ChildResume, In
  <1>2. Top \in Frames /\ offset \in Nat /\ src \in Seq(Lexemes)
    BY Stack, Types DEF Typed
  <1>3. f \in Frames /\ f.pc = "children"
    <2>1. "children" \in Pcs BY PcNames
    <2> QED BY <1>2, <2>1, FrameChanges DEF Frames
  <1> HIDE DEF f
  <1>4. Replaces(f)
    <2>1. Len(stack) # 1
      BY <1>1 DEF Running, TInv, Linked, Top
    <2> QED BY <1>1, <1>3, <2>1, BelowCode DEF Replaces
  <1>5. Top'.pc = "children"
    BY <1>1, <1>3, <1>4, Remains
  <1>6. html'.start = offset /\ (html \in HtmlAt(html.start))'
    BY <1>1, <1>2, Advanced
  <1>7. WFloor = offset /\ WFloor' = offset
    BY <1>1, <1>5, <1>6, PcNames, WFloorRules, NextWFloorRules DEF WFloorRule, Expressing
  <1>8. \A n \in Nat : ~\E o \in n..(n - 1) : TRUE
    OBVIOUS
  <1>9. \A d \in WFloor..(WFloor' - 1) : IsWord(d) => Kept(d)'
    BY <1>2, <1>7, <1>8
  <1>10. Grown BY <1>1, Types, AddedNone DEF Typed
  <1>11. Top'.pc \notin Expressing \cup {"member"}
    BY <1>5 DEF Expressing
  <1> QED BY <1>1, <1>6, <1>9, <1>10, <1>11 DEF KeepsWords

LEMMA ElementEndKeeps ==
  ASSUME Running, ElementEnd, phase' = "run"
  PROVE  KeepsWords
  <1>1. Top.pc = "element" /\ src' = src
    BY DEF ElementEnd, In
  <1>2. Child \in DOMAIN Close /\ Top.open = <<Close[Child]>>
    BY <1>1, FailStops DEF ElementEnd
  <1>3. Add(<<Node("end", html.start, html.end)>>) /\ Return /\ offset' = offset
    BY <1>2 DEF ElementEnd
  <1>4. Top'.pc = "close"
    BY <1>1, <1>3, Returns, BelowCode
  <1>5. Quiet(Top'.pc) BY <1>4, QuietPcs
  <1>6. WFloor = html.start /\ WFloor' = html.end
    BY <1>1, <1>3, <1>5, AtChild, Quieter, WFloorRules DEF WFloorRule
  <1>7. Grown /\ \A d \in html.start..(html.end - 1) : IsWord(d) => Kept(d)'
    BY <1>1, <1>3, ChildAdded
  <1> QED BY <1>1, <1>5, <1>6, <1>7, Quieter DEF KeepsWords

LEMMA BlockMarkupKeeps ==
  ASSUME Running, BlockMarkup, phase' = "run"
  PROVE  KeepsWords
  <1>1. Top.pc = "body" /\ Top.pc \in CodePcs /\ src' = src
    BY BlockMarkupReads
  <1>2. PICK t, u : MarkupRead(t, u)
    BY <1>1, FailStops, BlockMarkupReads
  <1>3. t \in HtmlAt(offset) /\ u \in MarkupIn(t) /\ At(u.start) \in DOMAIN Open
    BY <1>2 DEF MarkupRead
  <1>4. src \in Seq(Lexemes) /\ offset \in Nat /\ nodes \in Seq(Pieces)
    BY Types DEF Typed
  <1>5. /\ t.start = offset /\ t.start <= t.end /\ t.start \in Nat /\ t.end \in Nat
        /\ u.start \in Nat /\ u.end \in Nat
        /\ u # t => u.start = t.end
        /\ t.start \in Int /\ t.end \in Int /\ u.start \in Int /\ u.end \in Int
        /\ "element" \in Kinds /\ "literal" \in Kinds /\ "element" \notin Literals
    BY <1>3, MarkupTokens
  <1>11. Grown /\ \A d \in offset..(u.end - 1) : IsWord(d) => Kept(d)'
    <2>1. CASE u = t
      <3>1. Add(<<Node("element", u.start, u.end)>>)
        BY <1>2, <1>3, <2>1, MarkupTokens DEF MarkupRead
      <3>2. Grown /\ \A d \in u.start..(u.end - 1) : Covered(d)'
        BY <1>4, <1>5, <3>1, AddedOne
      <3> QED BY <1>5, <2>1, <3>2 DEF Kept
    <2>2. CASE u # t
      <3>1. Add(<<Node("literal", t.start, t.end), Node("element", u.start, u.end)>>)
        BY <1>2, <1>3, <2>2, MarkupTokens DEF MarkupRead
      <3>2. /\ Grown
            /\ \A d \in t.start..(t.end - 1) : Covered(d)'
            /\ \A d \in u.start..(u.end - 1) : Covered(d)'
        BY <1>4, <1>5, <3>1, AddedTwo
      <3>3. \A d \in offset..(u.end - 1) : d \in t.start..(t.end - 1) \/ d \in u.start..(u.end - 1)
        <4>1. \A a, b, c \in Int : \A d \in a..(c - 1) : d \in a..(b - 1) \/ d \in b..(c - 1)
          BY Parts
        <4> QED BY <1>5, <2>2, <4>1
      <3> QED BY <3>2, <3>3 DEF Kept
    <2> QED BY <2>1, <2>2
  <1>12. WFloor = offset
    BY <1>1, PcNames, WFloorRules DEF WFloorRule, Expressing
  <1>13. Frame("close") \in Frames /\ Frame("close").pc = "close" /\ "close" \in CodePcs
    BY FrameType, PcNames DEF CodePcList
  <1>14. CASE Open[At(u.start)] \in Void
    <2>1. offset' = u.end /\ Top' = Frame("close")
      BY <1>1, <1>2, <1>13, <1>14, Becomes DEF MarkupRead
    <2>2. Quiet(Top'.pc) BY <1>13, <2>1, QuietPcs
    <2> QED BY <1>1, <1>11, <1>12, <2>1, <2>2, Quieter DEF KeepsWords
  <1>15. CASE Open[At(u.start)] \notin Void
    <2>1. HtmlAdvance(u.end) /\ stack' = Callers \o ElementFrames(u)
      BY <1>2, <1>15 DEF MarkupRead
    <2>6. Top'.pc = "children"
      BY <1>1, <1>3, <2>1, ElementCalled
    <2>7. html'.start = u.end /\ (html \in HtmlAt(html.start))'
      BY <1>1, <1>4, <1>5, <2>1, Advanced
    <2>8. WFloor' = u.end
      BY <2>6, <2>7, NextWFloorRules DEF WFloorRule
    <2>9. Top'.pc \notin Expressing \cup {"member"}
      BY <2>6 DEF Expressing
    <2> QED BY <1>1, <1>11, <1>12, <2>7, <2>8, <2>9 DEF KeepsWords
  <1> QED BY <1>14, <1>15

-----------------------------------------------------------------------------
(* The end, and the optimizer.                                             *)

LEMMA Phases ==
  ASSUME phase = "run", HtmlStep \/ CodeStep, ~DocumentEnd, ~AttributeEnd
  PROVE  phase' \in {"run", "error", "crashed"}
  <1>1. Fail => phase' \in {"run", "error", "crashed"}
    BY DEF Fail, Stop
  <1>2. DocumentLiteral \/ DocumentEscape \/ DocumentLayout \/ DocumentTransition
        => phase' \in {"run", "error", "crashed"}
    BY <1>1 DEF DocumentLiteral, DocumentEscape, DocumentLayout, DocumentTransition
  <1>3. \/ ChildElement \/ ChildrenReturn \/ ChildEnd \/ ChildDropped
        \/ ChildLiteral \/ ChildTransition \/ ChildResume \/ ChildDoctype \/ ElementEnd
        => phase' \in {"run", "error", "crashed"}
    BY <1>1 DEF ChildElement, ChildrenReturn, ChildEnd, ChildDropped, ChildLiteral,
                ChildTransition, ChildResume, ChildDoctype, ElementEnd
  <1>4. \A pc, S : Step(pc, S) \/ Fails(pc, S) \/ FailsBut(pc, S)
                   => phase' \in {"run", "error", "crashed"}
    BY <1>1 DEF Step, Fails, FailsBut
  <1>5. \A kind, a, b : Found(kind, a, b) => phase' \in {"run", "error", "crashed"}
    BY DEF Found
  <1>6. Keyword \/ Handler \/ Block \/ BlockEnd => phase' \in {"run", "error", "crashed"}
    BY <1>4 DEF Keyword, Handler, Block, BlockEnd
  <1>7. BlockCode \/ Else => phase' \in {"run", "error", "crashed"}
    BY <1>4 DEF BlockCode, Else
  <1>8. (\E pc \in Scans : ScanToken(pc)) => phase' \in {"run", "error", "crashed"}
    BY <1>4 DEF ScanToken
  <1>9. CondDone \/ ClauseDone \/ CodeDone("code") \/ CodeDone("handling") \/ ExprDone
        => phase' \in {"run", "error", "crashed"}
    BY <1>1, <1>5 DEF CondDone, ClauseDone, CodeDone, ExprDone, Stop
  <1>10. Import \/ NamedBlock("section") \/ NamedBlock("partial") \/ BlockMarkup
         => phase' \in {"run", "error", "crashed"}
    BY <1>1, <1>4, <1>5 DEF Import, NamedBlock, BlockMarkup
  <1>11. Arguments("call") \/ Arguments("index") \/ Period \/ NameDone
         => phase' \in {"run", "error", "crashed"}
    BY <1>1, <1>4, <1>5 DEF Arguments, Period, NameDone
  <1> QED BY <1>2, <1>3, <1>6, <1>7, <1>8, <1>9, <1>10, <1>11 DEF HtmlStep, CodeStep

LEMMA StepKeepsWords ==
  ASSUME Running, WInv, Done(Floor), Opened, HtmlStep \/ CodeStep, phase' = "run"
  PROVE  KeepsWords
  <1>1. ~DocumentEnd /\ ~AttributeEnd
    BY DEF DocumentEnd, AttributeEnd
  <1>2. ~ChildDoctype
    BY DEF ChildDoctype, Fail, Stop
  <1>3. \/ DocumentLiteral \/ DocumentEscape \/ DocumentLayout \/ DocumentTransition
        => KeepsWords
    BY DocumentLiteralKeeps, DocumentEscapeKeeps, DocumentLayoutKeeps, DocumentTransitionKeeps
  <1>4. \/ ChildElement \/ ChildrenReturn \/ ChildEnd \/ ChildDropped
        \/ ChildLiteral \/ ChildTransition \/ ChildResume \/ ElementEnd
        => KeepsWords
    BY ChildElementKeeps, ChildrenReturnKeeps, ChildEndKeeps, ChildDroppedKeeps,
       ChildLiteralKeeps, ChildTransitionKeeps, ChildResumeKeeps, ElementEndKeeps
  <1>5. Keyword \/ (\E pc \in Scans : ScanToken(pc)) \/ CondDone \/ ClauseDone \/ ExprDone
        => KeepsWords
    BY KeywordKeeps, ScanTokenKeeps, CondDoneKeeps, ClauseDoneKeeps, ExprDoneKeeps
  <1>6. CodeDone("code") \/ CodeDone("handling") => KeepsWords
    BY CodeDoneKeeps
  <1>7. NamedBlock("section") \/ NamedBlock("partial") => KeepsWords
    BY NamedBlockKeeps
  <1>8. Import \/ Handler \/ Block \/ BlockCode \/ BlockMarkup \/ BlockEnd \/ Else => KeepsWords
    BY ImportKeeps, HandlerKeeps, BlockKeeps, BlockCodeKeeps, BlockMarkupKeeps, BlockEndKeeps,
       ElseKeeps
  <1>9. Arguments("call") \/ Arguments("index") \/ Period \/ NameDone => KeepsWords
    BY ArgumentsKeep, PeriodKeeps, NameDoneKeeps
  <1> QED BY <1>1, <1>2, <1>3, <1>4, <1>5, <1>6, <1>7, <1>8, <1>9 DEF HtmlStep, CodeStep

\* At the end of the source all of it has been read.
LEMMA DocumentEndKeeps ==
  ASSUME Running, WInv, DocumentEnd
  PROVE  WInv'
  <1>1. PICK t \in HtmlAt(offset) : Tokenize(t) /\ At(t.start) = ""
    BY DEF DocumentEnd
  <1>2. phase' = "parsed" /\ nodes' = nodes /\ src' = src
    BY <1>1 DEF DocumentEnd, Tokenize
  <1>3. In("document") BY <1>1 DEF Tokenize
  <1>4. t.start = offset /\ offset \in Nat /\ Top.pc = "document"
    BY <1>1, <1>3, Tokens
  <1>5. Len(src) \in Nat /\ src \in Seq(Lexemes) /\ nodes \in Seq(Pieces)
    BY Types DEF Typed
  <1>6. offset >= Len(src)
    <2>1. offset \in Int BY <1>4
    <2>2. At(offset) = "" BY <1>1, <1>4
    <2>3. offset \notin 0..(Len(src) - 1)
      BY <1>5, <2>1, <2>2, SourceLexemes
    <2>4. \A a, b \in Nat : a \notin 0..(b - 1) => a >= b
      OBVIOUS
    <2> QED BY <1>4, <1>5, <2>3, <2>4
  <1>7. WFloor = offset
    BY <1>4, WFloorRules, PcNames DEF WFloorRule, Expressing
  <1>8. \A o \in 0..(Len(src) - 1) : o \in 0..(offset - 1)
    BY <1>4, <1>5, <1>6
  <1>9. KeptTo(Len(src)) /\ Forward
    BY <1>7, <1>8 DEF WInv, KeptTo, Running
  <1>10. \A o \in 0..(Len(src) - 1) : IsWord(o) => Kept(o) \/ Escaped(o)
    BY <1>9 DEF KeptTo, LeftForGood, Escaped
  <1>11. WordsKept'
    BY <1>2, <1>5, <1>10, SameTree DEF WordsKept, LeftOut, Kept
  <1> QED BY <1>2, <1>9, <1>11 DEF WInv, Forward

\* Nothing of a node is lost that a literal is joined to.
Holds(m, n) == m.from <= n.from /\ n.to <= m.to

LEMMA HoldsSelf == ASSUME NEW n \in Pieces PROVE Holds(n, n)
  <1>1. n.from \in Int /\ n.to \in Int
    BY Order DEF Pieces
  <1>2. \A a \in Int : a <= a OBVIOUS
  <1> QED BY <1>1, <1>2 DEF Holds

JoinedAll(s, n) ==
  /\ s \in Seq(Pieces)
  /\ \A k \in 1..n : \E j \in 1..Len(s) : Holds(s[j], nodes[k])
  /\ n = 0 => s = <<>>
  /\ n # 0 => /\ Len(s) >= 1 /\ s[Len(s)].to = nodes[n].to
              /\ s[Len(s)].from <= nodes[n].from
              /\ nodes[n].kind \in Literals => s[Len(s)].kind \in Literals

LEMMA JoinKeeps ==
  ASSUME nodes \in Seq(Pieces), InOrder, Forward, NEW begins, NEW s,
         NEW n \in 1..Len(nodes), JoinedAll(s, n - 1)
  PROVE  JoinedAll(Join(begins, s, n), n)
  <1>1. /\ Len(nodes) \in Nat /\ n \in Nat /\ n # 0 /\ nodes[n] \in Pieces
        /\ n # 1 => /\ n - 1 \in 1..Len(nodes) /\ n \in 2..Len(nodes) /\ n - 1 # 0
                    /\ nodes[n - 1] \in Pieces
    <2>1. Len(nodes) \in Nat /\ nodes[n] \in Pieces
      BY LenProperties, ElementOfSeq
    <2>2. n # 1 => n - 1 \in 1..Len(nodes) /\ n \in 2..Len(nodes) /\ n - 1 # 0
      BY <2>1
    <2> QED BY <2>1, <2>2, ElementOfSeq
  <1>2. /\ s \in Seq(Pieces) /\ Len(s) \in Nat
        /\ \A k \in 1..(n - 1) : \E j \in 1..Len(s) : Holds(s[j], nodes[k])
        /\ n # 1 => /\ Len(s) >= 1 /\ s[Len(s)].to = nodes[n - 1].to
                    /\ s[Len(s)].from <= nodes[n - 1].from
                    /\ nodes[n - 1].kind \in Literals => s[Len(s)].kind \in Literals
    BY <1>1, LenProperties DEF JoinedAll
  <1>3. /\ nodes[n].from \in Int /\ nodes[n].to \in Int
        /\ n # 1 => nodes[n - 1].from \in Int /\ nodes[n - 1].to \in Int
    BY <1>1, Order DEF Pieces
  <1>4. \A k \in 1..n : k \in 1..(n - 1) \/ k = n
    BY <1>1
  <1>5. CASE n > 1 /\ IsLiteral(n - 1) /\ IsLiteral(n) /\ n \notin begins
    <2> DEFINE l == Len(s)
               e == [s[l] EXCEPT !.to = nodes[n].to]
               r == [s EXCEPT ![l] = e]
    <2>1. n # 1 /\ l \in 1..l /\ l \in 1..Len(s) /\ l \in Nat
      BY <1>1, <1>2, <1>5
    <2>2. s[l] \in Pieces
      BY <1>2, <2>1, ElementOfSeq
    <2>3. e \in Pieces /\ e.from = s[l].from /\ e.kind = s[l].kind /\ e.to = nodes[n].to
      BY <1>1, <2>2 DEF Pieces
    <2>4. Join(begins, s, n) = r BY <1>5 DEF Join
    <2>5. r \in Seq(Pieces) /\ Len(r) = l /\ \A j \in 1..l : r[j] = IF j = l THEN e ELSE s[j]
      <3> HIDE DEF e
      <3> QED BY <1>2, <2>1, <2>3, ExceptSeq
    <2>6. nodes[n].kind \in Literals /\ nodes[n - 1].kind \in Literals
      BY <1>5 DEF IsLiteral, Literals
    <2>7. s[l].kind \in Literals /\ s[l].to = nodes[n - 1].to /\ s[l].from <= nodes[n - 1].from
      BY <1>2, <2>1, <2>6
    <2>8. /\ nodes[n - 1].from <= nodes[n - 1].to /\ nodes[n].from <= nodes[n].to
          /\ nodes[n - 1].to <= nodes[n].from
      <3>1. n \in DOMAIN nodes /\ n - 1 \in DOMAIN nodes
        BY <1>1, <2>1, LenProperties
      <3>2. nodes[n - 1].kind # "import"
        BY <2>6 DEF Literals
      <3> QED BY <1>1, <2>1, <2>6, <3>1, <3>2 DEF Forward, InOrder
    <2>9. /\ s[l].from <= nodes[n].from /\ s[l].to <= nodes[n].to
      <3>1. s[l].from \in Int /\ s[l].to \in Int
        BY <2>2, Order DEF Pieces
      <3>2. \A a, b, c, d, f \in Int : a <= b /\ b <= c /\ c <= d /\ d <= f => a <= d /\ c <= f
        OBVIOUS
      <3> HIDE DEF l
      <3> QED BY <1>3, <2>1, <2>7, <2>8, <3>1, <3>2, SMTT(60)
    <2> HIDE DEF e, r
    <2>10. Holds(e, nodes[n])
      <3>1. nodes[n].to <= nodes[n].to BY <1>3
      <3> QED BY <2>3, <2>9, <3>1 DEF Holds
    <2>11. \A m \in Pieces : Holds(s[l], m) => Holds(e, m)
      <3>1. s[l].to \in Int
        BY <2>2, Order DEF Pieces
      <3>2. \A m \in Pieces : m.to \in Int
        BY Order DEF Pieces
      <3>3. \A a \in Int : a <= s[l].to => a <= nodes[n].to
        BY <1>3, <2>9, <3>1
      <3> QED BY <2>3, <3>2, <3>3 DEF Holds
    <2>12. ASSUME NEW k \in 1..n PROVE \E j \in 1..Len(r) : Holds(r[j], nodes[k])
      <3>1. l \in 1..Len(r) /\ r[l] = e
        BY <2>1, <2>5
      <3>2. CASE k = n
        BY <2>10, <3>1, <3>2
      <3>3. CASE k # n
        <4>1. k \in 1..(n - 1) /\ k \in 1..Len(nodes)
          BY <1>1, <3>3
        <4>2. nodes[k] \in Pieces
          BY <4>1, ElementOfSeq
        <4>3. PICK j \in 1..Len(s) : Holds(s[j], nodes[k])
          BY <1>2, <4>1
        <4>4. CASE j = l
          BY <2>11, <3>1, <4>2, <4>3, <4>4
        <4>5. CASE j # l
          <5>1. j \in 1..Len(r) /\ r[j] = s[j]
            BY <2>5, <4>5
          <5> QED BY <4>3, <5>1
        <4> QED BY <4>4, <4>5
      <3> QED BY <3>2, <3>3
    <2>13. r[l] = e /\ l >= 1 BY <2>1, <2>5
    <2> HIDE DEF l
    <2> QED BY <1>1, <2>3, <2>4, <2>5, <2>7, <2>9, <2>12, <2>13 DEF JoinedAll
  <1>6. CASE ~(n > 1 /\ IsLiteral(n - 1) /\ IsLiteral(n) /\ n \notin begins)
    <2> DEFINE r == Append(s, nodes[n])
    <2>1. Join(begins, s, n) = r BY <1>6 DEF Join
    <2>2. /\ r \in Seq(Pieces) /\ Len(r) = Len(s) + 1 /\ r[Len(s) + 1] = nodes[n]
          /\ \A j \in 1..Len(s) : r[j] = s[j]
      BY <1>1, <1>2, AppendProperties
    <2> HIDE DEF r
    <2>3. Len(s) + 1 \in 1..Len(r) /\ Len(r) >= 1 /\ \A j \in 1..Len(s) : j \in 1..Len(r)
      BY <1>2, <2>2
    <2>4. ASSUME NEW k \in 1..n PROVE \E j \in 1..Len(r) : Holds(r[j], nodes[k])
      <3>1. CASE k = n
        BY <1>1, <2>2, <2>3, <3>1, HoldsSelf
      <3>2. CASE k # n
        <4>1. PICK j \in 1..Len(s) : Holds(s[j], nodes[k])
          BY <1>2, <1>4, <3>2
        <4> QED BY <2>2, <2>3, <4>1
      <3> QED BY <3>1, <3>2
    <2>5. nodes[n].from <= nodes[n].from BY <1>3
    <2> QED BY <1>1, <2>1, <2>2, <2>3, <2>4, <2>5 DEF JoinedAll
  <1> QED BY <1>5, <1>6

LEMMA CoalesceKeeps ==
  ASSUME nodes \in Seq(Pieces), InOrder, Forward, NEW begins
  PROVE  JoinedAll(CoalesceLiterals(begins), Len(nodes))
  <1>1. Len(nodes) \in Nat BY LenProperties
  <1>2. PICK r : /\ r[0] = <<>>
                 /\ \A n \in 1..Len(nodes) : r[n] = Join(begins, r[n - 1], n)
                 /\ CoalesceLiterals(begins) = r[Len(nodes)]
    BY <1>1, JoinSteps
  <1> DEFINE T == {n \in 0..Len(nodes) : JoinedAll(r[n], n)}
  <1>3. 0 \in T
    <2>1. JoinedAll(<<>>, 0)
      <3>1. <<>> \in Seq(Pieces) /\ ~\E k \in 1..0 : TRUE
        OBVIOUS
      <3> QED BY <3>1 DEF JoinedAll
    <2>2. 0 \in 0..Len(nodes) BY <1>1
    <2> QED BY <1>2, <2>1, <2>2
  <1>4. ASSUME NEW n \in 1..Len(nodes), n - 1 \in T PROVE n \in T
    <2>1. JoinedAll(r[n - 1], n - 1) BY <1>4
    <2>2. JoinedAll(Join(begins, r[n - 1], n), n)
      BY <2>1, JoinKeeps
    <2>3. n \in 0..Len(nodes) OBVIOUS
    <2> QED BY <1>2, <2>2, <2>3
  <1>5. T \in SUBSET (0..Len(nodes)) OBVIOUS
  <1>6. Len(nodes) \in T
    <2> HIDE DEF T
    <2> QED BY <1>1, <1>3, <1>4, <1>5, UpToInduction
  <1> QED BY <1>2, <1>6

\* All that is in the tree stays in it.
LEMMA CompileHolds ==
  ASSUME nodes \in Seq(Pieces), InOrder, Forward, Compile
  PROVE  \A o \in Int : Covered(o) => Covered(o)'
  <1>1. \A k \in DOMAIN nodes : \E j \in DOMAIN nodes' : Holds(nodes'[j], nodes[k])
    <2>1. CASE UNCHANGED nodes
      <3>1. \A k \in DOMAIN nodes : nodes[k] \in Pieces
        BY LenProperties, ElementOfSeq
      <3> QED BY <2>1, <3>1, HoldsSelf
    <2>2. CASE \E begins : nodes' = CoalesceLiterals(begins)
      <3>1. JoinedAll(nodes', Len(nodes))
        BY <2>2, CoalesceKeeps
      <3>2. DOMAIN nodes = 1..Len(nodes) /\ DOMAIN nodes' = 1..Len(nodes')
        BY <3>1, LenProperties DEF JoinedAll
      <3> QED BY <3>1, <3>2 DEF JoinedAll
    <2> QED BY <2>1, <2>2 DEF Compile
  <1>2. nodes' \in Seq(Pieces)
    <2>1. CASE UNCHANGED nodes
      BY <2>1
    <2>2. CASE \E begins : nodes' = CoalesceLiterals(begins)
      BY <2>2, CoalesceKeeps DEF JoinedAll
    <2> QED BY <2>1, <2>2 DEF Compile
  <1>3. ASSUME NEW o \in Int, Covered(o) PROVE Covered(o)'
    <2>1. PICK k \in DOMAIN nodes : nodes[k].from <= o /\ o < nodes[k].to
      BY <1>3 DEF Covered
    <2>2. PICK j \in DOMAIN nodes' : Holds(nodes'[j], nodes[k])
      BY <1>1
    <2>3. nodes[k] \in Pieces /\ nodes'[j] \in Pieces
      BY <1>2, LenProperties, ElementOfSeq
    <2>4. /\ nodes[k].from \in Int /\ nodes[k].to \in Int
          /\ nodes'[j].from \in Int /\ nodes'[j].to \in Int
      BY <2>3, Order DEF Pieces
    <2>5. \A a, b, c, d, e \in Int : a <= b /\ b <= e /\ e < c /\ c <= d => a <= e /\ e < d
      OBVIOUS
    <2>6. nodes'[j].from <= o /\ o < nodes'[j].to
      BY <2>1, <2>2, <2>4, <2>5 DEF Holds
    <2> QED BY <2>6 DEF Covered
  <1> QED BY <1>3

LEMMA InitWords == Init => WInv
  <1> SUFFICES ASSUME Init PROVE WInv
    OBVIOUS
  <1>1. offset = 0 /\ nodes = <<>> /\ phase = "run"
    BY DEF Init
  <1>2. Top.pc \in {"document", "keyword"}
    <2>1. Frame("document").pc = "document" /\ Frame("keyword").pc = "keyword"
      BY DEF Frame
    <2>2. CASE stack = <<Frame("document")>>
      BY <2>1, <2>2 DEF Top
    <2>3. CASE stack = <<Frame("attribute"), Frame("keyword")>>
      BY <2>1, <2>3 DEF Top
    <2> QED BY <2>2, <2>3 DEF Init
  <1>3. Top.pc \notin {"children", "element", "member", "path"} \cup Scans \cup Expressing
    BY <1>2, PcNames DEF Expressing
  <1>4. WFloor = 0
    BY <1>1, <1>3, WFloorRules DEF WFloorRule
  <1>5. KeptTo(WFloor)
    <2>1. ~\E o \in 0..(0 - 1) : TRUE OBVIOUS
    <2> QED BY <1>4, <2>1 DEF KeptTo
  <1>6. Forward
    <2>1. ~\E k \in DOMAIN nodes : TRUE BY <1>1
    <2> QED BY <2>1 DEF Forward
  <1> QED BY <1>1, <1>3, <1>5, <1>6 DEF WInv, WordsKept

LEMMA NextWords == IInv /\ WInv /\ Opened /\ [Next]_vars => WInv'
  <1> SUFFICES ASSUME IInv, WInv, Opened, [Next]_vars PROVE WInv'
    OBVIOUS
  <1>1. CASE HtmlStep \/ CodeStep
    <2>1. Running /\ Done(Floor)
      BY <1>1, Runs DEF IInv, OInv, Running
    <2>2. CASE DocumentEnd
      BY <2>1, <2>2, DocumentEndKeeps
    <2>3. CASE phase' = "run"
      <3>1. KeepsWords
        BY <1>1, <2>1, <2>3, StepKeepsWords
      <3>2. Orderly
        BY <1>1, <2>1, <2>3, StepSound DEF Sound
      <3>3. Running'
        BY <2>3, NextInv DEF IInv, Running
      <3> QED BY <2>1, <3>1, <3>2, <3>3, KeepsOn
    <2>4. CASE ~DocumentEnd /\ phase' # "run"
      <3>1. phase' \in {"error", "crashed", "done"}
        BY <1>1, <2>1, <2>4, Phases DEF Running, AttributeEnd
      <3> QED BY <3>1 DEF WInv, WordsKept
    <2> QED BY <2>2, <2>3, <2>4
  <1>2. CASE Compile
    BY <1>2 DEF Compile, WInv, WordsKept
  <1>3. CASE UNCHANGED vars
    <2>1. UNCHANGED <<src, offset, html, code, stack, nodes, phase>> /\ nodes \in Seq(Pieces)
      BY <1>3 DEF vars, IInv, TInv, TypeOK, Pieces
    <2>2. /\ \A d : At(d)' = At(d)
          /\ \A d : Skipped(d)' = Skipped(d)
      BY <2>1, SameSource
    <2>3. Top' = Top /\ LookAt' = LookAt /\ WFloor' = WFloor /\ Floor' = Floor
      BY <2>1 DEF Top, LookAt, TokenOffset, WFloor, Floor
    <2>4. \A o : LeftForGood(o) => LeftForGood(o)'
      BY <2>1, <2>3, SameTree DEF LeftForGood
    <2>5. \A n : KeptTo(n) => KeptTo(n)'
      BY <2>1, <2>4, SameTree DEF KeptTo
    <2>6. \A a, o : Trails(a, o)' = Trails(a, o)
      BY <2>2 DEF Trails
    <2>7. Behind' = Behind
      BY <2>1, <2>2, <2>3, <2>6 DEF Behind, Cuts
    <2>8. \A o : HtmlAt(o)' = HtmlAt(o)
      BY <2>1, <2>2 DEF HtmlAt
    <2>9. WordsKept'
      <3>1. WordsKept BY DEF WInv
      <3> QED BY <2>1, <3>1, SameTree DEF WordsKept, LeftOut, Kept
    <2>10. Forward' = Forward BY <2>1 DEF Forward
    <2> QED BY <2>1, <2>3, <2>5, <2>7, <2>8, <2>9, <2>10 DEF WInv
  <1> QED BY <1>1, <1>2, <1>3 DEF Next, Over

-----------------------------------------------------------------------------
(* Elements are closed in the order in which they were opened.             *)

LEMMA Rises == \A n : Rise(n) \in {-1, 0, 1} /\ Rise(n) \in Int
  BY DEF Rise

\* The numbers of the pieces.
LEMMA HeightTypes ==
  ASSUME NEW s \in Seq(Pieces), NEW B, Heights(s, B)
  PROVE  /\ Len(s) \in Nat
         /\ \A k \in 0..Len(s) : B[k] \in Int
         /\ \A k \in 1..Len(s) : k - 1 \in 0..Len(s) /\ k \in 0..Len(s)
                                 /\ B[k] = B[k - 1] + Rise(s[k])
  BY LenProperties, SMTT(60) DEF Heights

LEMMA MovesLength ==
  ASSUME NEW e, Tagging(e), NEW w \in Seq(STRING), NEW v, Moves(e, w, v)
  PROVE  /\ Len(w) \in Nat /\ Len(v) \in Nat /\ Len(v) = Len(w) + Rise(e)
         /\ Rise(e) # 1 => \A h \in 1..Len(v) : h \in 1..Len(w) /\ v[h] = w[h]
         /\ Rise(e) = 1 => /\ \A h \in 1..Len(w) : v[h] = w[h]
                           /\ v[Len(w) + 1] = Open[At(e.from)]
         /\ Rise(e) = -1 => w[Len(v) + 1] = Close[At(e.from)] /\ Len(w) = Len(v) + 1
  <1>1. Len(w) \in Nat /\ Len(v) \in Nat /\ v \in Seq(STRING)
    BY LenProperties DEF Moves
  <1>2. CASE Rise(e) = 0
    BY <1>1, <1>2 DEF Moves
  <1>3. CASE Rise(e) = 1
    <2>1. e.kind = "element" BY <1>3 DEF Rise
    <2>2. Open[At(e.from)] \in STRING
      BY <2>1, TagNames DEF Tagging
    <2>3. v = Append(w, Open[At(e.from)])
      BY <1>3 DEF Moves
    <2> QED BY <1>1, <1>3, <2>2, <2>3, AppendProperties
  <1>4. CASE Rise(e) = -1
    <2> DEFINE c == Close[At(e.from)]
    <2>1. w = Append(v, c) BY <1>4 DEF Moves
    <2>2. Len(w) = Len(v) + 1 /\ w[Len(v) + 1] = c /\ \A h \in 1..Len(v) : w[h] = v[h]
      <3> HIDE DEF c
      <3>1. v \in Seq(STRING \cup {c}) /\ c \in STRING \cup {c}
        BY <1>1, SeqMonotonic
      <3> QED BY <2>1, <3>1, AppendProperties
    <2>3. Rise(e) # 1 /\ Len(v) = Len(w) + Rise(e)
      BY <1>1, <1>4, <2>2
    <2>4. \A h \in 1..Len(v) : h \in 1..Len(w)
      BY <1>1, <2>2
    <2> QED BY <1>1, <1>4, <2>2, <2>3, <2>4
  <1> QED BY <1>2, <1>3, <1>4, Rises

\* Up to the n-th piece, from up to the one before it.
LEMMA StackStep ==
  ASSUME NEW s \in Seq(Pieces), NEW B, Heights(s, B), NEW n \in 1..Len(s), Tagging(s[n]),
         NEW w, Stacked(s, B, n - 1, w), NEW v, Moves(s[n], w, v)
  PROVE  Stacked(s, B, n, v)
  <1>1. /\ Len(s) \in Nat /\ n \in Nat /\ B[n] \in Int /\ B[n - 1] \in Int
        /\ B[n] = B[n - 1] + Rise(s[n])
    BY HeightTypes
  <1>2. w \in Seq(STRING) /\ Len(w) = B[n - 1] /\ v \in Seq(STRING)
    BY DEF Stacked, Moves
  <1>3. /\ Len(w) \in Nat /\ Len(v) \in Nat /\ Len(v) = Len(w) + Rise(s[n])
        /\ Rise(s[n]) # 1 => \A h \in 1..Len(v) : h \in 1..Len(w) /\ v[h] = w[h]
        /\ Rise(s[n]) = 1 => /\ \A h \in 1..Len(w) : v[h] = w[h]
                             /\ v[Len(w) + 1] = Open[At(s[n].from)]
    BY <1>2, MovesLength
  <1>4. Len(v) = B[n] BY <1>1, <1>2, <1>3
  <1>5. \A j \in 1..(n - 1) : /\ j \in 1..n
                              /\ \A m \in j..n : m \in j..(n - 1) \/ m = n
    BY <1>1
  <1>6. ASSUME NEW h \in 1..Len(w), h <= B[n] PROVE OpenAt(s, B, n, h, w[h])
    <2>1. PICK j \in 1..(n - 1) : /\ Rise(s[j]) = 1 /\ B[j] = h /\ Open[At(s[j].from)] = w[h]
                                  /\ \A m \in j..(n - 1) : h <= B[m]
      BY DEF Stacked, OpenAt
    <2> QED BY <1>5, <1>6, <2>1 DEF OpenAt
  <1>7. ASSUME NEW h \in 1..Len(v) PROVE OpenAt(s, B, n, h, v[h])
    <2>1. h <= B[n] BY <1>4
    <2>2. CASE Rise(s[n]) # 1
      BY <1>3, <1>6, <2>1, <2>2
    <2>3. CASE Rise(s[n]) = 1 /\ h # Len(w) + 1
      <3>1. h \in 1..Len(w) BY <1>3, <2>3
      <3> QED BY <1>3, <1>6, <2>1, <2>3, <3>1
    <2>4. CASE Rise(s[n]) = 1 /\ h = Len(w) + 1
      <3>1. n \in 1..n /\ B[n] = h /\ h <= B[n]
        BY <1>1, <1>3, <1>4, <2>4
      <3>2. \A m \in n..n : m = n BY <1>1
      <3>3. Open[At(s[n].from)] = v[h] BY <1>3, <2>4
      <3> QED BY <2>4, <3>1, <3>2, <3>3 DEF OpenAt
    <2> QED BY <2>2, <2>3, <2>4
  <1> QED BY <1>2, <1>4, <1>7 DEF Stacked

LEMMA LastOpen ==
  ASSUME NEW s \in Seq(Pieces), NEW B, Heights(s, B), NEW n \in 1..Len(s), Rise(s[n]) = -1,
         NEW p, p = n - 1, NEW name, OpenAt(s, B, p, B[p], name)
  PROVE  LastAt(s, B, n, name)
  <1>1. /\ Len(s) \in Nat /\ n \in Nat /\ B[n] \in Int /\ B[p] \in Int
        /\ B[n] = B[p] - 1
    <2>1. B[n] = B[n - 1] + (-1) /\ n \in Nat
      BY HeightTypes
    <2> QED BY <2>1, HeightTypes
  <1>2. PICK q \in 1..p : /\ Rise(s[q]) = 1 /\ B[q] = B[p] /\ Open[At(s[q].from)] = name
                          /\ \A m \in q..p : B[p] <= B[m]
    BY DEF OpenAt
  <1>3. q \in 1..Len(s) /\ q \in Nat BY <1>1
  <1>4. B[q - 1] \in Int /\ B[q] = B[q - 1] + 1
    BY <1>2, <1>3, HeightTypes
  <1>5. B[q - 1] = B[n] BY <1>1, <1>2, <1>4
  <1>6. \A m \in q..(n - 1) : m \in 0..Len(s)
    BY <1>1, <1>3
  <1>7. \A m \in q..(n - 1) : B[m] \in Int
    BY <1>6, HeightTypes
  <1>8. \A m \in q..(n - 1) : B[q - 1] < B[m]
    BY <1>1, <1>2, <1>4, <1>7, SMTT(60)
  <1> QED BY <1>2, <1>5, <1>8 DEF LastAt

\* The element that is ended is the last one that is open.
LEMMA EndsLast ==
  ASSUME NEW s \in Seq(Pieces), NEW B, Heights(s, B), NEW n \in 1..Len(s), Rise(s[n]) = -1,
         NEW p, p = n - 1, OpenAt(s, B, p, B[p], Close[At(s[n].from)])
  PROVE  EndsOwn(s, B, n)
  <1>0. LastAt(s, B, n, Close[At(s[n].from)])
    <2>1. \A name : OpenAt(s, B, p, B[p], name) => LastAt(s, B, n, name)
      BY LastOpen
    <2> QED BY <2>1
  <1>1. PICK q \in 1..(n - 1) :
           /\ Rise(s[q]) = 1 /\ Open[At(s[q].from)] = Close[At(s[n].from)]
           /\ B[q - 1] = B[n] /\ \A m \in q..(n - 1) : B[q - 1] < B[m]
    BY <1>0 DEF LastAt
  <1>2. Len(s) \in Nat /\ n \in Nat /\ q \in Nat /\ B[n] \in Int
    BY HeightTypes
  <1>3. ASSUME NEW j \in 1..(n - 1), Rise(s[j]) = 1, B[j - 1] = B[n],
               \A i \in j..(n - 1) : B[j - 1] < B[i]
        PROVE  j = q
    <2>1. CASE j < q
      <3>1. q - 1 \in j..(n - 1) BY <1>2, <2>1
      <3> QED BY <1>1, <1>2, <1>3, <3>1
    <2>2. CASE q < j
      <3>1. j - 1 \in q..(n - 1) BY <1>2, <2>2
      <3> QED BY <1>1, <1>2, <1>3, <3>1
    <2> QED BY <1>2, <2>1, <2>2
  <1> QED BY <1>1, <1>3 DEF EndsOwn

LEMMA OwnEnds ==
  ASSUME NEW s \in Seq(Pieces), NEW B, Heights(s, B), NEW n \in 1..Len(s), Rise(s[n]) = -1,
         NEW p, p = n - 1, NEW name, OpenAt(s, B, p, B[p], name), EndsOwn(s, B, n)
  PROVE  Close[At(s[n].from)] = name
  <1>1. LastAt(s, B, n, name) BY LastOpen
  <1> QED BY <1>1 DEF LastAt, EndsOwn

LEMMA NestedAppend ==
  ASSUME NEW s \in Seq(Pieces), NEW w, Nested(s, w), NEW e \in Pieces, Tagging(e),
         NEW v, Moves(e, w, v)
  PROVE  Nested(Append(s, e), v)
  <1> DEFINE l == Len(s)
             r == Append(s, e)
  <1>1. PICK B : NestedBy(s, B, w)
    BY DEF Nested
  <1> DEFINE C == [k \in 0..(l + 1) |-> IF k = l + 1 THEN B[l] + Rise(e) ELSE B[k]]
  <1>2. l \in Nat /\ r \in Seq(Pieces) /\ Len(r) = l + 1 /\ r[l + 1] = e
        /\ \A k \in 1..l : r[k] = s[k]
    BY LenProperties, AppendProperties
  <1>3. Heights(s, B) /\ \A k \in 0..l : B[k] \in Int
    BY <1>1, HeightTypes DEF NestedBy
  <1>4. /\ \A k \in 0..l : k \in 0..(l + 1) /\ k # l + 1
        /\ l + 1 \in 0..(l + 1) /\ l + 1 \in 1..(l + 1) /\ l \in 0..l /\ (l + 1) - 1 = l
        /\ \A k \in 1..(l + 1) : k = l + 1 \/ (k \in 1..l /\ k - 1 \in 0..l)
    BY <1>2
  <1>5. C[l + 1] = B[l] + Rise(e) /\ \A k \in 0..l : C[k] = B[k]
    BY <1>4
  <1>6. C \in [0..(l + 1) -> Int]
    <2>1. B[l] + Rise(e) \in Int
      BY <1>3, <1>4, Rises
    <2> QED BY <1>3, <2>1
  <1> HIDE DEF C, r
  <1>7. Heights(r, C)
    <2>1. C[0] = 0 BY <1>2, <1>3, <1>5 DEF Heights
    <2>2. ASSUME NEW k \in 1..(l + 1) PROVE C[k] = C[k - 1] + Rise(r[k])
      <3>1. CASE k = l + 1
        BY <1>2, <1>4, <1>5, <3>1
      <3>2. CASE k # l + 1
        <4>1. k \in 1..l /\ k - 1 \in 0..l /\ k \in 0..l
          BY <1>2, <1>4, <3>2
        <4> QED BY <1>2, <1>3, <1>5, <4>1 DEF Heights
      <3> QED BY <3>1, <3>2
    <2> QED BY <1>2, <1>6, <2>1, <2>2 DEF Heights
  <1>8. Stacked(r, C, l, w)
    <2>1. Stacked(s, B, l, w) BY <1>1 DEF NestedBy
    <2>2. \A j \in 1..l : j \in 0..l /\ \A m \in j..l : m \in 0..l
      BY <1>2
    <2>3. ASSUME NEW h, NEW name, OpenAt(s, B, l, h, name) PROVE OpenAt(r, C, l, h, name)
      <3>1. PICK j \in 1..l : /\ Rise(s[j]) = 1 /\ B[j] = h /\ Open[At(s[j].from)] = name
                              /\ \A m \in j..l : h <= B[m]
        BY <2>3 DEF OpenAt
      <3>2. r[j] = s[j] /\ C[j] = h /\ \A m \in j..l : h <= C[m]
        BY <1>2, <1>5, <2>2, <3>1
      <3> QED BY <3>1, <3>2 DEF OpenAt
    <2> QED BY <1>4, <1>5, <2>1, <2>3 DEF Stacked
  <1>9. Stacked(r, C, l + 1, v)
    <2>1. l + 1 \in 1..Len(r) /\ Tagging(r[l + 1]) /\ Moves(r[l + 1], w, v)
      BY <1>2, <1>4
    <2> HIDE DEF l
    <2> QED BY <1>2, <1>4, <1>7, <1>8, <2>1, StackStep
  <1>10. ASSUME NEW k \in 1..(l + 1)
         PROVE  0 <= C[k] /\ EndsOwn(r, C, k) /\ Tagging(r[k])
    <2>1. CASE k # l + 1
      <3>1. k \in 1..l /\ k \in 0..l
        BY <1>2, <1>4, <2>1
      <3>2. 0 <= B[k] /\ EndsOwn(s, B, k) /\ Tagging(s[k])
        BY <1>1, <3>1 DEF NestedBy
      <3>3. \A j \in 1..(k - 1) : /\ j \in 1..l /\ j - 1 \in 0..l
                                  /\ \A i \in j..(k - 1) : i \in 0..l
        BY <1>2, <3>1
      <3>4. \A j \in 1..(k - 1) : /\ r[j] = s[j] /\ C[j - 1] = B[j - 1]
                                  /\ \A i \in j..(k - 1) : C[i] = B[i]
        BY <1>2, <1>5, <3>3
      <3>5. r[k] = s[k] /\ C[k] = B[k]
        BY <1>2, <1>5, <3>1
      <3> QED BY <3>2, <3>4, <3>5 DEF EndsOwn
    <2>2. CASE k = l + 1
      <3>1. Tagging(r[k]) BY <1>2, <2>2
      <3>2. 0 <= C[k]
        <4>1. Len(v) = C[l + 1] /\ Len(v) \in Nat
          BY <1>9, LenProperties DEF Stacked
        <4> QED BY <2>2, <4>1
      <3>3. EndsOwn(r, C, k)
        <4>1. SUFFICES ASSUME Rise(e) = -1 PROVE EndsOwn(r, C, l + 1)
          BY <1>2, <2>2 DEF EndsOwn
        <4>2. w \in Seq(STRING) /\ Len(w) = C[l]
          BY <1>8 DEF Stacked
        <4>3. Len(w) \in Nat /\ Len(v) \in Nat /\ w[Len(v) + 1] = Close[At(e.from)] /\ Len(w) = Len(v) + 1
          BY <4>1, <4>2, MovesLength
        <4>4. Len(w) \in 1..Len(w) /\ w[Len(w)] = Close[At(e.from)]
          BY <4>3
        <4>5. OpenAt(r, C, l, Len(w), w[Len(w)])
          BY <1>8, <4>4 DEF Stacked
        <4>6. l + 1 \in 1..Len(r) /\ Rise(r[l + 1]) = -1
          BY <1>2, <1>4, <4>1
        <4>7. OpenAt(r, C, l, C[l], Close[At(r[l + 1].from)]) /\ l = (l + 1) - 1
          BY <1>2, <1>4, <4>2, <4>4, <4>5
        <4> HIDE DEF l
        <4> QED BY <1>2, <1>7, <4>6, <4>7, EndsLast
      <3> QED BY <3>1, <3>2, <3>3
    <2> QED BY <2>1, <2>2
  <1> QED BY <1>2, <1>7, <1>9, <1>10 DEF Nested, NestedBy, r

\* What a node is joined to matters as little as where it ends.
LEMMA NestedAlike ==
  ASSUME NEW s \in Seq(Pieces), NEW w, Nested(s, w), NEW r \in Seq(Pieces), Len(r) = Len(s),
         \A k \in 1..Len(s) : r[k].kind = s[k].kind /\ r[k].from = s[k].from
  PROVE  Nested(r, w)
  <1>1. PICK B : NestedBy(s, B, w)
    BY DEF Nested
  <1>2. Len(s) \in Nat BY LenProperties
  <1>3. \A k \in 1..Len(s) : Rise(r[k]) = Rise(s[k]) /\ Tagging(r[k]) = Tagging(s[k])
    BY DEF Rise, Tagging
  <1>4. Heights(r, B)
    BY <1>1, <1>3 DEF NestedBy, Heights
  <1>5. \A k \in 1..Len(s) : EndsOwn(s, B, k) => EndsOwn(r, B, k)
    <2>1. \A k \in 1..Len(s) : \A j \in 1..(k - 1) : j \in 1..Len(s)
      BY <1>2
    <2> QED BY <1>3, <2>1 DEF EndsOwn
  <1>6. \A h, name : OpenAt(s, B, Len(s), h, name) => OpenAt(r, B, Len(s), h, name)
    BY <1>3 DEF OpenAt
  <1> QED BY <1>1, <1>3, <1>4, <1>5, <1>6 DEF Nested, NestedBy, Stacked

\* What follows in a tree that is nested opens an element, or ends the last one.
LEMMA SomeMove ==
  ASSUME NEW s \in Seq(Pieces), NEW B, NEW n \in 1..Len(s),
         Heights(s, B), \A k \in 1..Len(s) : 0 <= B[k] /\ EndsOwn(s, B, k) /\ Tagging(s[k]),
         NEW w, Stacked(s, B, n - 1, w)
  PROVE  \E v : Moves(s[n], w, v) /\ (Rise(s[n]) = 0 => v = w)
  <1>1. /\ Len(s) \in Nat /\ B[n] \in Int /\ B[n - 1] \in Int
        /\ B[n] = B[n - 1] + Rise(s[n])
    BY HeightTypes
  <1>2. w \in Seq(STRING) /\ Len(w) = B[n - 1] /\ Len(w) \in Nat
    BY LenProperties DEF Stacked
  <1>3. CASE Rise(s[n]) = 0
    BY <1>2, <1>3 DEF Moves
  <1>4. CASE Rise(s[n]) = 1
    <2>1. s[n].kind = "element" BY <1>4 DEF Rise
    <2>2. Open[At(s[n].from)] \in STRING
      BY <2>1, TagNames DEF Tagging
    <2> DEFINE v == Append(w, Open[At(s[n].from)])
    <2>3. v \in Seq(STRING)
      BY <1>2, <2>2, AppendProperties
    <2>4. Moves(s[n], w, v) BY <1>4, <2>3 DEF Moves
    <2> HIDE DEF v
    <2> QED BY <1>4, <2>4
  <1>5. CASE Rise(s[n]) = -1
    <2> DEFINE m == Len(w) - 1
               v == SubSeq(w, 1, m)
    <2>1. m \in Nat /\ Len(w) = m + 1 /\ Len(w) \in 1..Len(w)
      BY <1>1, <1>2, <1>5
    <2>2. w[Len(w)] = Close[At(s[n].from)]
      <3>1. OpenAt(s, B, n - 1, Len(w), w[Len(w)])
        BY <2>1 DEF Stacked
      <3>2. EndsOwn(s, B, n) OBVIOUS
      <3>3. Len(w) = B[n - 1] BY <1>2
      <3>4. PICK p : p = n - 1
        OBVIOUS
      <3>5. OpenAt(s, B, p, B[p], w[Len(w)])
        BY <3>1, <3>3, <3>4
      <3> HIDE DEF m, v
      <3> QED BY <1>5, <3>2, <3>4, <3>5, OwnEnds
    <2>3. v \in Seq(STRING) /\ Len(v) = m /\ \A i \in 1..m : v[i] = w[i]
      <3>1. \A i \in 1..m : w[i] \in STRING
        BY <1>2, <2>1, ElementOfSeq
      <3>2. /\ v \in Seq(STRING) /\ Len(v) = IF 1 <= m THEN m - 1 + 1 ELSE 0
            /\ \A i \in 1..(m - 1 + 1) : v[i] = w[1 + i - 1]
        <4> HIDE DEF m
        <4> QED BY <2>1, <3>1, SubSeqProperties
      <3>3. (IF 1 <= m THEN m - 1 + 1 ELSE 0) = m /\ m - 1 + 1 = m
            /\ \A i \in 1..m : 1 + i - 1 = i
        BY <2>1
      <3> HIDE DEF m, v
      <3> QED BY <3>2, <3>3
    <2>4. w = Append(v, w[Len(w)])
      <3>1. w[Len(w)] \in STRING
        BY <1>2, <2>1, ElementOfSeq
      <3> HIDE DEF m, v
      <3>2. /\ Append(v, w[Len(w)]) \in Seq(STRING) /\ Len(Append(v, w[Len(w)])) = m + 1
            /\ Append(v, w[Len(w)])[m + 1] = w[Len(w)]
            /\ \A i \in 1..m : Append(v, w[Len(w)])[i] = v[i]
        BY <2>1, <2>3, <3>1, AppendProperties
      <3>3. \A i \in 1..Len(w) : i = m + 1 \/ i \in 1..m
        BY <2>1
      <3>4. \A i \in 1..Len(w) : w[i] = Append(v, w[Len(w)])[i]
        BY <2>1, <2>3, <3>2, <3>3
      <3> QED BY <1>2, <2>1, <3>2, <3>4, SeqEqual
    <2> HIDE DEF m, v
    <2>5. Rise(s[n]) # 0 /\ Rise(s[n]) # 1 BY <1>5
    <2> QED BY <2>2, <2>3, <2>4, <2>5 DEF Moves
  <1> QED BY <1>3, <1>4, <1>5, Rises

LEMMA StackEmpty ==
  ASSUME NEW s \in Seq(Pieces), NEW B, Heights(s, B)
  PROVE  Stacked(s, B, 0, <<>>)
  <1>1. <<>> \in Seq(STRING) /\ Len(<<>>) = 0 /\ ~\E h \in 1..0 : TRUE
    OBVIOUS
  <1> QED BY <1>1 DEF Stacked, Heights

LEMMA NestedEmpty == Nested(<<>>, <<>>)
  <1> DEFINE B == [k \in 0..0 |-> 0]
  <1>1. <<>> \in Seq(Pieces) /\ Len(<<>>) = 0 /\ ~\E h \in 1..0 : TRUE
    OBVIOUS
  <1>2. Heights(<<>>, B) BY <1>1 DEF Heights
  <1>3. Stacked(<<>>, B, 0, <<>>)
    BY <1>1, <1>2, StackEmpty
  <1> HIDE DEF B
  <1> QED BY <1>1, <1>2, <1>3 DEF Nested, NestedBy

\* The optimizer, which does not touch tags.
LEMMA JoinNested ==
  ASSUME nodes \in Seq(Pieces), NEW begins, NEW s \in Seq(Pieces), NEW n \in 1..Len(nodes),
         NEW w, Nested(s, w), NEW v, Moves(nodes[n], w, v), Tagging(nodes[n]),
         n # 1 => Len(s) >= 1
  PROVE  /\ Join(begins, s, n) \in Seq(Pieces) /\ Len(Join(begins, s, n)) >= 1
         /\ Nested(Join(begins, s, n), v)
  <1>1. Len(nodes) \in Nat /\ n \in Nat /\ nodes[n] \in Pieces /\ Len(s) \in Nat
    BY LenProperties, ElementOfSeq
  <1>2. CASE n > 1 /\ IsLiteral(n - 1) /\ IsLiteral(n) /\ n \notin begins
    <2> DEFINE l == Len(s)
               e == [s[l] EXCEPT !.to = nodes[n].to]
               r == [s EXCEPT ![l] = e]
    <2>1. l \in 1..l /\ l \in 1..Len(s)
      BY <1>1, <1>2
    <2>2. s[l] \in Pieces BY <2>1, ElementOfSeq
    <2>3. e \in Pieces /\ e.from = s[l].from /\ e.kind = s[l].kind
      BY <1>1, <2>2 DEF Pieces
    <2>4. Join(begins, s, n) = r BY <1>2 DEF Join
    <2>5. r \in Seq(Pieces) /\ Len(r) = l /\ \A j \in 1..l : r[j] = IF j = l THEN e ELSE s[j]
      <3> HIDE DEF e
      <3> QED BY <2>1, <2>3, ExceptSeq
    <2>6. \A k \in 1..l : r[k].kind = s[k].kind /\ r[k].from = s[k].from
      <3> HIDE DEF e, r, l
      <3> QED BY <2>3, <2>5
    <2>7. v = w BY <1>2 DEF IsLiteral, Rise, Moves
    <2>8. l >= 1 BY <2>1
    <2>9. Nested(r, w)
      <3> HIDE DEF e, r
      <3> QED BY <2>5, <2>6, NestedAlike
    <2> HIDE DEF e, r, l
    <2> QED BY <2>4, <2>5, <2>7, <2>8, <2>9
  <1>3. CASE ~(n > 1 /\ IsLiteral(n - 1) /\ IsLiteral(n) /\ n \notin begins)
    <2>1. Join(begins, s, n) = Append(s, nodes[n])
      BY <1>3 DEF Join
    <2>2. Append(s, nodes[n]) \in Seq(Pieces) /\ Len(Append(s, nodes[n])) = Len(s) + 1
      BY <1>1, AppendProperties
    <2>3. Nested(Append(s, nodes[n]), v)
      BY <1>1, NestedAppend
    <2>4. Len(s) + 1 >= 1 BY <1>1
    <2> QED BY <2>1, <2>2, <2>3, <2>4
  <1> QED BY <1>2, <1>3

LEMMA CoalesceNested ==
  ASSUME nodes \in Seq(Pieces), Nested(nodes, <<>>), NEW begins
  PROVE  CoalesceLiterals(begins) \in Seq(Pieces) /\ Nested(CoalesceLiterals(begins), <<>>)
  <1>1. Len(nodes) \in Nat BY LenProperties
  <1>2. PICK r : /\ r[0] = <<>>
                 /\ \A n \in 1..Len(nodes) : r[n] = Join(begins, r[n - 1], n)
                 /\ CoalesceLiterals(begins) = r[Len(nodes)]
    BY <1>1, JoinSteps
  <1>3. PICK B : NestedBy(nodes, B, <<>>)
    BY DEF Nested
  <1>4. /\ Heights(nodes, B) /\ Stacked(nodes, B, Len(nodes), <<>>)
        /\ \A k \in 1..Len(nodes) : 0 <= B[k] /\ EndsOwn(nodes, B, k) /\ Tagging(nodes[k])
    BY <1>3 DEF NestedBy
  <1> DEFINE Follows(n) == /\ r[n] \in Seq(Pieces) /\ (n # 0 => Len(r[n]) >= 1)
                           /\ \E w : Stacked(nodes, B, n, w) /\ Nested(r[n], w)
             T == {n \in 0..Len(nodes) : Follows(n)}
  <1>5. 0 \in T
    <2>1. Stacked(nodes, B, 0, <<>>) /\ Nested(<<>>, <<>>) /\ <<>> \in Seq(Pieces)
      BY <1>4, StackEmpty, NestedEmpty
    <2>2. Follows(0) BY <1>2, <2>1
    <2>3. 0 \in 0..Len(nodes) BY <1>1
    <2> HIDE DEF Follows
    <2> QED BY <2>2, <2>3
  <1>6. ASSUME NEW n \in 1..Len(nodes), n - 1 \in T PROVE n \in T
    <2>1. Follows(n - 1)
      <3> HIDE DEF Follows
      <3> QED BY <1>6
    <2>2. PICK w : Stacked(nodes, B, n - 1, w) /\ Nested(r[n - 1], w)
      BY <2>1
    <2>3. PICK v : Moves(nodes[n], w, v)
      BY <1>4, <2>2, SomeMove
    <2>4. Stacked(nodes, B, n, v)
      BY <1>4, <2>2, <2>3, StackStep
    <2>5. n # 1 => Len(r[n - 1]) >= 1 BY <2>1
    <2>6. r[n - 1] \in Seq(Pieces) BY <2>1
    <2>7. r[n] = Join(begins, r[n - 1], n) BY <1>2
    <2>8. r[n] \in Seq(Pieces) /\ Len(r[n]) >= 1 /\ Nested(r[n], v)
      BY <1>4, <2>2, <2>3, <2>5, <2>6, <2>7, JoinNested
    <2>9. Follows(n) BY <2>4, <2>8
    <2>10. n \in 0..Len(nodes) OBVIOUS
    <2> HIDE DEF Follows
    <2> QED BY <2>9, <2>10
  <1>7. T \in SUBSET (0..Len(nodes)) OBVIOUS
  <1>8. Len(nodes) \in T
    <2> HIDE DEF T
    <2> QED BY <1>1, <1>5, <1>6, <1>7, UpToInduction
  <1>9. PICK w : Stacked(nodes, B, Len(nodes), w) /\ Nested(r[Len(nodes)], w)
    BY <1>8
  <1>10. w = <<>>
    <2>1. w \in Seq(STRING) /\ Len(w) = 0
      BY <1>4, <1>9 DEF Stacked
    <2> QED BY <2>1, EmptySeq
  <1> QED BY <1>2, <1>8, <1>9, <1>10

\* The heights are what Balance counts.
LEMMA BalanceIs ==
  ASSUME nodes \in Seq(Pieces), NEW B, Heights(nodes, B), NEW a \in 1..(Len(nodes) + 1)
  PROVE  \A b \in (a - 1)..Len(nodes) : Balance(a, b) = B[b] - B[a - 1]
  <1> DEFINE N == Len(nodes)
             E(b) == {k \in Tags(a, b) : nodes[k].kind = "element"}
             F(b) == {k \in Tags(a, b) : nodes[k].kind = "end"}
             Good(b) == /\ IsFiniteSet(E(b)) /\ IsFiniteSet(F(b))
                        /\ Cardinality(E(b)) - Cardinality(F(b)) = B[b] - B[a - 1]
             T == {b \in 0..N : a - 1 <= b => Good(b)}
  <1>1. N \in Nat /\ a \in Nat /\ a >= 1 /\ a - 1 \in 0..N
    <2>1. N \in Nat BY LenProperties
    <2> QED BY <2>1
  <1>2. \A k \in 0..N : B[k] \in Int BY HeightTypes
  <1>3. ASSUME NEW b \in 0..N, b = a - 1 PROVE Good(b)
    <2>1. Tags(a, b) = {} BY <1>1, <1>3 DEF Tags
    <2>2. E(b) = {} /\ F(b) = {} BY <2>1
    <2>3. B[b] - B[a - 1] = 0 BY <1>2, <1>3
    <2>4. IsFiniteSet({}) /\ Cardinality({}) - Cardinality({}) = 0
      BY FS_EmptySet
    <2> HIDE DEF E, F
    <2> QED BY <2>2, <2>3, <2>4
  <1>4. 0 \in T
    <2>1. 0 \in 0..N /\ (a - 1 <= 0 => 0 = a - 1)
      BY <1>1
    <2> HIDE DEF Good
    <2> QED BY <1>3, <2>1
  <1>5. ASSUME NEW b \in 1..N, b - 1 \in T PROVE b \in T
    <2>1. b \in 0..N /\ b - 1 \in 0..N BY <1>1
    <2>2. CASE b < a - 1
      BY <1>1, <2>1, <2>2
    <2>3. CASE b = a - 1
      BY <1>3, <2>1, <2>3
    <2>4. CASE b > a - 1
      <3>1. Good(b - 1)
        <4>1. a - 1 <= b - 1 BY <1>1, <2>4
        <4> HIDE DEF Good
        <4> QED BY <1>5, <4>1
      <3>2. \A k : k \in a..b <=> k \in a..(b - 1) \/ k = b
        BY <1>1, <2>4
      <3>3. b \notin a..(b - 1) BY <1>1
      <3>4. B[b] = B[b - 1] + Rise(nodes[b]) /\ B[b] \in Int /\ B[b - 1] \in Int /\ B[a - 1] \in Int
        BY <1>1, <1>2, <2>1 DEF Heights
      <3>5. \A k : k \in Tags(a, b) <=> k \in Tags(a, b - 1) \/ (k = b /\ Rise(nodes[b]) # 0)
        <4>1. Rise(nodes[b]) # 0 <=> /\ nodes[b].kind \in {"element", "end"}
                                    /\ \/ nodes[b].kind = "end"
                                       \/ Open[At(nodes[b].from)] \notin Void
          BY DEF Rise
        <4> QED BY <3>2, <4>1 DEF Tags
      <3>6. b \notin E(b - 1) /\ b \notin F(b - 1)
        BY <3>3 DEF Tags
      <3>7. Cardinality(E(b - 1)) \in Nat /\ Cardinality(F(b - 1)) \in Nat
        BY <3>1, FS_CardinalityType
      <3>8. CASE Rise(nodes[b]) = 0
        <4>1. E(b) = E(b - 1) /\ F(b) = F(b - 1)
          BY <3>5, <3>8
        <4>2. B[b] = B[b - 1] BY <3>4, <3>8
        <4>3. Good(b) BY <3>1, <4>1, <4>2
        <4> HIDE DEF Good
        <4> QED BY <2>1, <4>3
      <3>9. CASE Rise(nodes[b]) = 1
        <4>1. nodes[b].kind = "element" /\ Rise(nodes[b]) # 0
          BY <3>9 DEF Rise
        <4>2. E(b) = E(b - 1) \cup {b} /\ F(b) = F(b - 1)
          BY <3>5, <4>1
        <4>3. IsFiniteSet(E(b)) /\ Cardinality(E(b)) = Cardinality(E(b - 1)) + 1
          <5>1. IsFiniteSet(E(b - 1)) BY <3>1
          <5> HIDE DEF E, F
          <5> QED BY <3>6, <4>2, <5>1, FS_AddElement
        <4>4. B[b] = B[b - 1] + 1 BY <3>4, <3>9
        <4>5. Good(b)
          <5>1. \A c, d \in Nat, x, y, z \in Int :
                  c - d = x - z /\ y = x + 1 => (c + 1) - d = y - z
            OBVIOUS
          <5> HIDE DEF E, F
          <5>2. Cardinality(E(b - 1)) - Cardinality(F(b - 1)) = B[b - 1] - B[a - 1]
            BY <3>1
          <5>4. (Cardinality(E(b - 1)) + 1) - Cardinality(F(b - 1)) = B[b] - B[a - 1]
            <6> DEFINE c == Cardinality(E(b - 1))
                       d == Cardinality(F(b - 1))
                       x == B[b - 1]
                       y == B[b]
                       z == B[a - 1]
            <6>1. c \in Nat /\ d \in Nat /\ x \in Int /\ y \in Int /\ z \in Int
              BY <3>4, <3>7
            <6>2. c - d = x - z /\ y = x + 1
              BY <4>4, <5>2
            <6> HIDE DEF c, d, x, y, z
            <6>3. (c + 1) - d = y - z
              BY <5>1, <6>1, <6>2
            <6> QED BY <6>3 DEF c, d, x, y, z
          <5>5. Cardinality(E(b)) - Cardinality(F(b)) = B[b] - B[a - 1]
            BY <4>2, <4>3, <5>4
          <5>3. IsFiniteSet(E(b)) /\ IsFiniteSet(F(b))
            BY <3>1, <4>2, <4>3
          <5> QED BY <5>3, <5>5
        <4> HIDE DEF Good
        <4> QED BY <2>1, <4>5
      <3>10. CASE Rise(nodes[b]) = -1
        <4>1. nodes[b].kind = "end" /\ Rise(nodes[b]) # 0
          BY <3>10 DEF Rise
        <4>2. F(b) = F(b - 1) \cup {b} /\ E(b) = E(b - 1)
          BY <3>5, <4>1
        <4>3. IsFiniteSet(F(b)) /\ Cardinality(F(b)) = Cardinality(F(b - 1)) + 1
          <5>1. IsFiniteSet(F(b - 1)) BY <3>1
          <5> HIDE DEF E, F
          <5> QED BY <3>6, <4>2, <5>1, FS_AddElement
        <4>4. B[b] = B[b - 1] - 1 BY <3>4, <3>10
        <4>5. Good(b)
          <5>1. \A c, d \in Nat, x, y, z \in Int :
                  c - d = x - z /\ y = x - 1 => c - (d + 1) = y - z
            OBVIOUS
          <5> HIDE DEF E, F
          <5>2. Cardinality(E(b - 1)) - Cardinality(F(b - 1)) = B[b - 1] - B[a - 1]
            BY <3>1
          <5>4. Cardinality(E(b - 1)) - (Cardinality(F(b - 1)) + 1) = B[b] - B[a - 1]
            <6> DEFINE c == Cardinality(E(b - 1))
                       d == Cardinality(F(b - 1))
                       x == B[b - 1]
                       y == B[b]
                       z == B[a - 1]
            <6>1. c \in Nat /\ d \in Nat /\ x \in Int /\ y \in Int /\ z \in Int
              BY <3>4, <3>7
            <6>2. c - d = x - z /\ y = x - 1
              BY <4>4, <5>2
            <6> HIDE DEF c, d, x, y, z
            <6>3. c - (d + 1) = y - z
              BY <5>1, <6>1, <6>2
            <6> QED BY <6>3 DEF c, d, x, y, z
          <5>5. Cardinality(E(b)) - Cardinality(F(b)) = B[b] - B[a - 1]
            BY <4>2, <4>3, <5>4
          <5>3. IsFiniteSet(E(b)) /\ IsFiniteSet(F(b))
            BY <3>1, <4>2, <4>3
          <5> QED BY <5>3, <5>5
        <4> HIDE DEF Good
        <4> QED BY <2>1, <4>5
      <3> QED BY <3>8, <3>9, <3>10, Rises
    <2> QED BY <1>1, <2>2, <2>3, <2>4
  <1>6. ASSUME NEW b \in (a - 1)..N PROVE b \in T
    <2> DEFINE U == T \cap (0..b)
    <2>1. b \in 0..N /\ b \in Nat /\ a - 1 <= b
      BY <1>1
    <2>2. 0 \in U
      <3>1. 0 \in 0..b BY <2>1
      <3> HIDE DEF T
      <3> QED BY <1>4, <3>1
    <2>3. ASSUME NEW m \in 1..b, m - 1 \in U PROVE m \in U
      <3>1. m \in 1..N /\ m \in 0..b BY <1>1, <2>1
      <3>2. m - 1 \in T
        <4> HIDE DEF T
        <4> QED BY <2>3
      <3> HIDE DEF T
      <3> QED BY <1>5, <3>1, <3>2
    <2>4. U \in SUBSET (0..b) OBVIOUS
    <2>5. b \in U
      <3> HIDE DEF U, T
      <3> QED BY <2>1, <2>2, <2>3, <2>4, UpToInduction
    <2> HIDE DEF T
    <2> QED BY <2>5
  <1>7. ASSUME NEW b \in (a - 1)..N PROVE Balance(a, b) = B[b] - B[a - 1]
    <2>1. b \in T /\ a - 1 <= b
      <3> HIDE DEF T
      <3> QED BY <1>1, <1>6
    <2>2. Good(b)
      <3> HIDE DEF Good
      <3> QED BY <2>1
    <2> QED BY <2>2 DEF Balance
  <1> QED BY <1>7

\* A tree that is nested and in which nothing is open is balanced.
LEMMA NestedBalances ==
  ASSUME nodes \in Seq(Pieces), Nested(nodes, <<>>)
  PROVE  Balanced
  <1> DEFINE N == Len(nodes)
  <1>1. PICK B : NestedBy(nodes, B, <<>>)
    BY DEF Nested
  <1>2. /\ Heights(nodes, B) /\ Stacked(nodes, B, N, <<>>) /\ N \in Nat /\ B[0] = 0
        /\ \A k \in 1..N : 0 <= B[k] /\ EndsOwn(nodes, B, k)
        /\ \A k \in 0..N : B[k] \in Int
    BY <1>1, HeightTypes DEF NestedBy, Heights
  <1>3. \A a \in 1..N, b \in 0..N : a - 1 <= b => Balance(a, b) = B[b] - B[a - 1]
    <2>1. ASSUME NEW a \in 1..N, NEW b \in 0..N, a - 1 <= b
          PROVE  Balance(a, b) = B[b] - B[a - 1]
      <3>1. a \in 1..(Len(nodes) + 1) /\ b \in (a - 1)..Len(nodes)
        BY <1>2, <2>1
      <3> QED BY <1>2, <3>1, BalanceIs
    <2> QED BY <2>1
  <1>4. \A b \in 0..N : Balance(1, b) = B[b]
    <2>1. ASSUME NEW b \in 0..N PROVE Balance(1, b) = B[b]
      <3>1. 1 \in 1..(Len(nodes) + 1) /\ b \in (1 - 1)..Len(nodes) /\ 1 - 1 = 0
        BY <1>2
      <3>2. Balance(1, b) = B[b] - B[1 - 1]
        BY <1>2, <3>1, BalanceIs
      <3> QED BY <1>2, <3>1, <3>2
    <2> QED BY <2>1
  <1>5. Balance(1, N) = 0
    <2>1. B[N] = 0 BY <1>2 DEF Stacked
    <2>2. N \in 0..N BY <1>2
    <2> QED BY <1>4, <2>1, <2>2
  <1>6. \A k \in 1..N : Balance(1, k) >= 0
    <2>1. \A k \in 1..N : k \in 0..N BY <1>2
    <2> QED BY <1>2, <1>4, <2>1
  <1>7. ASSUME NEW j \in Tags(1, N), NEW k \in Tags(1, N),
               j < k, nodes[j].kind = "element", Balance(j, k) = 0,
               \A i \in j..(k - 1) : Balance(j, i) > 0
        PROVE  Open[At(nodes[j].from)] = Close[At(nodes[k].from)]
    <2>1. /\ j \in 1..N /\ k \in 1..N /\ k \in 0..N /\ j - 1 \in 0..N /\ k - 1 \in j..(k - 1)
          /\ k - 1 \in 0..N /\ j \in 1..(k - 1) /\ j - 1 <= k
          /\ \A i \in j..(k - 1) : i \in 0..N /\ j - 1 <= i
      BY <1>2, <1>7 DEF Tags
    <2>2. Rise(nodes[j]) = 1 /\ Rise(nodes[k]) # 0
      BY <1>7 DEF Rise, Tags
    <2>3. B[j - 1] = B[k]
      <3>1. Balance(j, k) = B[k] - B[j - 1]
        BY <1>3, <2>1
      <3> QED BY <1>2, <1>7, <2>1, <3>1
    <2>4. \A i \in j..(k - 1) : B[j - 1] < B[i]
      <3>1. \A i \in j..(k - 1) : Balance(j, i) = B[i] - B[j - 1]
        BY <1>3, <2>1
      <3> QED BY <1>2, <1>7, <2>1, <3>1
    <2>5. Rise(nodes[k]) = -1
      <3>1. B[k] = B[k - 1] + Rise(nodes[k])
        BY <1>2, <2>1 DEF Heights
      <3>2. B[j - 1] < B[k - 1] BY <2>1, <2>4
      <3> QED BY <1>2, <2>1, <2>2, <2>3, <3>1, <3>2, Rises
    <2> QED BY <1>2, <2>1, <2>2, <2>3, <2>4, <2>5 DEF EndsOwn
  <1> HIDE DEF N
  <1> QED BY <1>5, <1>6, <1>7 DEF Balanced, N

\* The tree is nested after a step if it is by the source, which does not change.
LEMMA NextNested ==
  ASSUME src' = src, NEW w
  PROVE  Nested(nodes', w) => Nested(nodes, w)'
  <1>1. \A d : At(d)' = At(d) BY SameSource
  <1>2. \A n : Rise(n)' = Rise(n) /\ Tagging(n)' = Tagging(n)
    BY <1>1 DEF Rise, Tagging
  <1>3. \A s, B : Heights(s, B)' = Heights(s, B)
    BY <1>2 DEF Heights
  <1>4. \A s, B, k : EndsOwn(s, B, k)' = EndsOwn(s, B, k)
    BY <1>1, <1>2 DEF EndsOwn
  <1>5. \A s, B, n, h, name : OpenAt(s, B, n, h, name)' = OpenAt(s, B, n, h, name)
    BY <1>1, <1>2 DEF OpenAt
  <1>6. \A s, B, n : Stacked(s, B, n, w)' = Stacked(s, B, n, w)
    BY <1>5 DEF Stacked
  <1>7. \A s, B : NestedBy(s, B, w)' = NestedBy(s, B, w)
    BY <1>2, <1>3, <1>4, <1>6 DEF NestedBy
  <1>8. \A s : Nested(s, w)' = Nested(s, w)
    BY <1>7 DEF Nested
  <1> QED BY <1>8

\* One frame more holds its names after those of the others.
LEMMA HeldPush ==
  ASSUME NEW f \in Seq(Frames), NEW w, Held(f, w), NEW g \in Frames, Bears(g)
  PROVE  Held(Append(f, g), w \o g.open)
  <1> DEFINE n == Len(f)
             o == g.open
             m == Len(o)
             r == Append(f, g)
             v == w \o o
  <1>1. PICK held : HeldBy(f, held, w)
    BY DEF Held
  <1>2. /\ o \in Seq(STRING) /\ m \in Nat /\ n \in Nat
    BY LenProperties DEF Frames
  <1>3. /\ r \in Seq(Frames) /\ Len(r) = n + 1 /\ r[n + 1] = g /\ \A k \in 1..n : r[k] = f[k]
    BY AppendProperties
  <1>4. /\ held \in [0..n -> Nat] /\ held[0] = 0 /\ w \in Seq(STRING) /\ Len(w) = held[n]
        /\ \A k \in 1..n : /\ held[k] = held[k - 1] + Len(f[k].open)
                           /\ \A i \in 1..Len(f[k].open) : w[held[k - 1] + i] = f[k].open[i]
                           /\ f[k].pc \in Holding \/ f[k].open = <<>>
    BY <1>1 DEF HeldBy
  <1>5. /\ v \in Seq(STRING) /\ Len(v) = Len(w) + m
        /\ \A i \in 1..(Len(w) + m) : v[i] = IF i <= Len(w) THEN w[i] ELSE o[i - Len(w)]
    <2> HIDE DEF o
    <2> QED BY <1>2, <1>4, ConcatProperties, SMTT(60)
  <1> DEFINE H == [k \in 0..(n + 1) |-> IF k <= n THEN held[k] ELSE held[n] + m]
  <1> HIDE DEF n, o, m, r, v
  <1>6. /\ H \in [0..(n + 1) -> Nat] /\ H[0] = 0 /\ H[n + 1] = held[n] + m
        /\ \A k \in 0..n : H[k] = held[k]
    <2>1. \A k \in 0..n : k \in 0..(n + 1) /\ k <= n
      BY <1>2
    <2>2. n + 1 \in 0..(n + 1) /\ ~(n + 1 <= n) /\ 0 \in 0..n /\ n \in 0..n
      BY <1>2
    <2>3. \A k \in 0..n : held[k] \in Nat BY <1>4
    <2>4. \A k \in 0..(n + 1) : k <= n => k \in 0..n
      BY <1>2
    <2>5. held[n] + m \in Nat BY <1>2, <2>2, <2>3
    <2> QED BY <1>4, <2>1, <2>2, <2>3, <2>4, <2>5
  <1> HIDE DEF H
  <1>7. \A k \in 0..n : held[k] \in Nat BY <1>4
  <1>8. \A k \in 1..n : k - 1 \in 0..n /\ k \in 0..n
    BY <1>2
  <1>9. \A k \in 0..n : held[k] <= held[n]
    <2> DEFINE T == {k \in 0..n : \A i \in 0..k : held[i] <= held[k]}
    <2>1. 0 \in T
      <3>1. 0 \in 0..n /\ \A i \in 0..0 : i = 0
        BY <1>2
      <3> QED BY <1>4, <3>1
    <2>2. ASSUME NEW k \in 1..n, k - 1 \in T PROVE k \in T
      <3>1. /\ k \in 0..n /\ k - 1 \in 0..n
            /\ \A i \in 0..k : i \in 0..n /\ (i \in 0..(k - 1) \/ i = k)
        BY <1>2
      <3>2. held[k] = held[k - 1] + Len(f[k].open)
        BY <1>4
      <3>3. Len(f[k].open) \in Nat
        <4>1. f[k] \in Frames BY ElementOfSeq DEF n
        <4> QED BY <4>1, LenProperties DEF Frames
      <3>5. \A a, b, c, d \in Nat : a = b + c /\ d <= b => d <= a
        OBVIOUS
      <3>6. \A a \in Nat : a <= a OBVIOUS
      <3>7. \A i \in 0..(k - 1) : held[i] <= held[k - 1]
        BY <2>2
      <3>8. \A i \in 0..k : held[i] <= held[k]
        BY <1>7, <3>1, <3>2, <3>3, <3>5, <3>6, <3>7, SMTT(60)
      <3> QED BY <3>1, <3>8
    <2>3. n \in T
      <3>1. T \in SUBSET (0..n) OBVIOUS
      <3> HIDE DEF T
      <3> QED BY <1>2, <2>1, <2>2, <3>1, UpToInduction
    <2> QED BY <2>3
  <1>10. ASSUME NEW k \in 1..(n + 1)
         PROVE  /\ H[k] = H[k - 1] + Len(r[k].open)
                /\ \A i \in 1..Len(r[k].open) : v[H[k - 1] + i] = r[k].open[i]
                /\ r[k].pc \in Holding \/ r[k].open = <<>>
    <2>1. CASE k \in 1..n
      <3>1. H[k] = held[k] /\ H[k - 1] = held[k - 1] /\ r[k] = f[k]
        BY <1>3, <1>6, <1>8, <2>1
      <3>2. ASSUME NEW i \in 1..Len(f[k].open) PROVE v[held[k - 1] + i] = f[k].open[i]
        <4>1. held[k] = held[k - 1] + Len(f[k].open) /\ held[k] <= held[n]
          BY <1>4, <1>8, <1>9, <2>1
        <4>2. Len(f[k].open) \in Nat
          <5>1. f[k] \in Frames
            BY <2>1, ElementOfSeq DEF n
          <5> QED BY <5>1, LenProperties DEF Frames
        <4>3. held[k - 1] \in Nat /\ held[n] \in Nat /\ n \in 0..n
          BY <1>2, <1>7, <1>8, <2>1
        <4>4. \A a, b, c, d, e \in Nat : \A j \in 1..b :
                c = a + b /\ c <= d => a + j \in 1..(d + e) /\ a + j <= d
          OBVIOUS
        <4>5. held[k] \in Nat BY <1>7, <1>8, <2>1
        <4>6. held[k - 1] + i \in 1..(held[n] + m) /\ held[k - 1] + i <= held[n]
          <5> DEFINE a == held[k - 1]
                     b == Len(f[k].open)
                     c == held[k]
                     d == held[n]
          <5>1. a \in Nat /\ b \in Nat /\ c \in Nat /\ d \in Nat /\ c = a + b /\ c <= d
            BY <4>1, <4>2, <4>3, <4>5
          <5>2. i \in 1..b OBVIOUS
          <5> HIDE DEF a, b, c, d
          <5>3. a + i \in 1..(d + m) /\ a + i <= d
            BY <1>2, <4>4, <5>1, <5>2
          <5> QED BY <5>3 DEF a, d
        <4>7. v[held[k - 1] + i] = w[held[k - 1] + i]
          BY <1>4, <1>5, <4>6
        <4> QED BY <1>4, <2>1, <4>7
      <3> QED BY <1>4, <2>1, <3>1, <3>2
    <2>2. CASE k = n + 1
      <3>1. r[k] = g /\ H[k] = held[n] + m /\ H[k - 1] = held[n]
        <4>1. k - 1 = n /\ n \in 0..n BY <1>2, <2>2
        <4> QED BY <1>3, <1>6, <2>2, <4>1
      <3>2. ASSUME NEW i \in 1..m PROVE v[held[n] + i] = o[i]
        <4>1. \A a \in Nat : \A j \in 1..m : a + j \in 1..(a + m) /\ ~(a + j <= a) /\ (a + j) - a = j
          BY <1>2
        <4>2. held[n] \in Nat BY <1>2, <1>7
        <4> QED BY <1>4, <1>5, <4>1, <4>2, ZenonT(60)
      <3> QED BY <3>1, <3>2 DEF o, m, Bears
    <2> QED BY <1>2, <2>1, <2>2
  <1>11. Len(v) = H[Len(r)]
    BY <1>3, <1>4, <1>5, <1>6
  <1>12. HeldBy(r, H, v)
    BY <1>3, <1>5, <1>6, <1>10, <1>11 DEF HeldBy
  <1> QED BY <1>12 DEF Held, r, v, o

LEMMA HeldPop ==
  ASSUME Running, NEW w, Held(stack, w)
  PROVE  HeldBelow(w) /\ Bears(Top)
  <1> DEFINE n == Len(stack)
             m == Len(stack) - 1
             o == Top.open
             c == Callers
  <1>1. PICK held : HeldBy(stack, held, w)
    BY DEF Held
  <1>2. /\ stack \in Seq(Frames) /\ n \in Nat /\ n >= 1 /\ Top \in Frames /\ m \in Nat
        /\ c \in Seq(Frames) /\ Len(c) = m /\ \A k \in 1..m : c[k] = stack[k]
        /\ \A k \in 1..n : stack[k] \in Frames
    <2>1. \A i \in Nat : i >= 1 => i - 1 \in Nat
      OBVIOUS
    <2> QED BY <2>1, Stack
  <1>3. o \in Seq(STRING) /\ Len(o) \in Nat
    BY <1>2, LenProperties DEF Frames
  <1>4. /\ held \in [0..n -> Nat] /\ held[0] = 0 /\ w \in Seq(STRING) /\ Len(w) = held[n]
        /\ \A k \in 1..n : /\ held[k] = held[k - 1] + Len(stack[k].open)
                           /\ \A i \in 1..Len(stack[k].open) : w[held[k - 1] + i] = stack[k].open[i]
                           /\ stack[k].pc \in Holding \/ stack[k].open = <<>>
    BY <1>1 DEF HeldBy
  <1>5. /\ n \in 1..n /\ n - 1 = m /\ m \in 0..n /\ n \in 0..n
        /\ \A k \in 1..m : k \in 1..n /\ k - 1 \in 0..n
        /\ \A k \in 0..m : k \in 0..n
    <2> HIDE DEF m, n
    <2>1. m = n - 1 BY DEF m, n
    <2> QED BY <1>2, <2>1
  <1>6. Top = stack[n] BY DEF Top
  <1> HIDE DEF n, m, o, c
  <1>7. /\ held[n] = held[m] + Len(o) /\ \A i \in 1..Len(o) : w[held[m] + i] = o[i]
        /\ Bears(Top)
    BY <1>4, <1>5, <1>6 DEF o, Bears
  <1>8. held[m] \in Nat /\ \A k \in 0..m : held[k] \in Nat
    BY <1>4, <1>5
  <1> DEFINE v == SubSeq(w, 1, held[m])
  <1>9. /\ v \in Seq(STRING) /\ Len(v) = held[m] /\ \A i \in 1..held[m] : v[i] = w[i]
    <2> DEFINE h == held[m]
    <2>1. h \in Nat /\ \A i \in 1..h : i \in 1..Len(w) /\ 1 + i - 1 = i
      <3>1. \A a, b, d \in Nat : d = a + b => \A i \in 1..a : i \in 1..d /\ 1 + i - 1 = i
        OBVIOUS
      <3>2. held[n] \in Nat BY <1>4, <1>5
      <3> QED BY <1>3, <1>4, <1>7, <1>8, <3>1, <3>2
    <2>2. \A i \in 1..h : w[i] \in STRING
      BY <1>4, <2>1, ElementOfSeq
    <2>3. h - 1 + 1 = h /\ (IF 1 <= h THEN h - 1 + 1 ELSE 0) = h /\ 1 \in Int /\ h \in Int
      <3> HIDE DEF h
      <3> QED BY <2>1
    <2>4. /\ SubSeq(w, 1, h) \in Seq(STRING)
          /\ Len(SubSeq(w, 1, h)) = IF 1 <= h THEN h - 1 + 1 ELSE 0
          /\ \A i \in 1..(h - 1 + 1) : SubSeq(w, 1, h)[i] = w[1 + i - 1]
      <3> HIDE DEF h
      <3> QED BY <2>2, <2>3, SubSeqProperties
    <2>5. /\ Len(SubSeq(w, 1, h)) = h
          /\ \A i \in 1..h : SubSeq(w, 1, h)[i] = w[i]
      BY <2>1, <2>3, <2>4
    <2> QED BY <2>4, <2>5
  <1> HIDE DEF v
  <1>10. w = v \o o
    <2>1. /\ v \o o \in Seq(STRING) /\ Len(v \o o) = Len(v) + Len(o)
          /\ \A i \in 1..(Len(v) + Len(o)) : (v \o o)[i] = IF i <= Len(v) THEN v[i] ELSE o[i - Len(v)]
      BY <1>3, <1>9, ConcatProperties
    <2>2. Len(w) = Len(v \o o)
      BY <1>4, <1>7, <1>9, <2>1
    <2>3. ASSUME NEW i \in 1..Len(w) PROVE w[i] = (v \o o)[i]
      <3>1. i \in 1..(Len(v) + Len(o)) BY <2>1, <2>2
      <3>2. \A a, b \in Nat : \A j \in 1..(a + b) :
              IF j <= a THEN j \in 1..a ELSE j - a \in 1..b /\ a + (j - a) = j
        OBVIOUS
      <3>3. IF i <= held[m] THEN i \in 1..held[m]
            ELSE i - held[m] \in 1..Len(o) /\ held[m] + (i - held[m]) = i
        BY <1>3, <1>8, <1>9, <3>1, <3>2
      <3>4. CASE i <= held[m]
        BY <1>9, <2>1, <3>1, <3>3, <3>4
      <3>5. CASE ~(i <= held[m])
        BY <1>7, <1>9, <2>1, <3>1, <3>3, <3>5
      <3> QED BY <3>4, <3>5
    <2> QED BY <1>4, <2>1, <2>2, <2>3, SeqEqual
  <1>11. Held(c, v)
    <2> DEFINE H == [k \in 0..m |-> held[k]]
    <2>1. H \in [0..m -> Nat] /\ H[0] = 0 /\ H[m] = held[m] /\ \A k \in 0..m : H[k] = held[k]
      <3>1. 0 \in 0..m /\ m \in 0..m BY <1>2
      <3> QED BY <1>4, <1>8, <3>1
    <2> HIDE DEF H
    <2>2. ASSUME NEW k \in 1..m
          PROVE  /\ H[k] = H[k - 1] + Len(c[k].open)
                 /\ \A i \in 1..Len(c[k].open) : v[H[k - 1] + i] = c[k].open[i]
                 /\ c[k].pc \in Holding \/ c[k].open = <<>>
      <3>1. k \in 0..m /\ k - 1 \in 0..m /\ k \in 1..n
        BY <1>2, <1>5
      <3>2. H[k] = held[k] /\ H[k - 1] = held[k - 1] /\ c[k] = stack[k]
        BY <1>2, <2>1, <3>1
      <3>3. \A i \in 1..Len(c[k].open) : held[k - 1] + i \in 1..held[m]
        <4> DEFINE T == {j \in 0..m : k <= j => held[k] <= held[j]}
        <4>1. m \in T
          <5>1. 0 \in T /\ T \in SUBSET (0..m)
            BY <1>2
          <5>2. ASSUME NEW j \in 1..m, j - 1 \in T PROVE j \in T
            <6>1. j \in 0..m /\ j - 1 \in 0..m /\ (k <= j => k = j \/ k <= j - 1) /\ j \in 1..n
              BY <1>2, <1>5
            <6>2. held[j] = held[j - 1] + Len(stack[j].open)
              BY <1>4, <6>1
            <6>3. Len(stack[j].open) \in Nat
              <7>1. stack[j] \in Frames
                BY <1>2, <6>1
              <7> QED BY <7>1, LenProperties DEF Frames
            <6>4. \A a, b, d, e \in Nat : a = b + d /\ e <= b => e <= a
              OBVIOUS
            <6>5. \A a \in Nat : a <= a OBVIOUS
            <6>6. k <= j - 1 => held[k] <= held[j - 1]
              BY <5>2
            <6>7. held[j] \in Nat /\ held[j - 1] \in Nat /\ held[k] \in Nat
              BY <1>8, <3>1, <6>1
            <6>8. CASE k = j
              BY <6>1, <6>5, <6>7, <6>8
            <6>9. CASE k # j
              BY <6>1, <6>2, <6>3, <6>4, <6>6, <6>7, <6>9, SMTT(60)
            <6> QED BY <6>8, <6>9
          <5> HIDE DEF T
          <5> QED BY <1>2, <5>1, <5>2, UpToInduction
        <4>2. held[k] <= held[m]
          <5>1. k <= m OBVIOUS
          <5> QED BY <4>1, <5>1
        <4>3. held[k] = held[k - 1] + Len(c[k].open) /\ Len(c[k].open) \in Nat
          <5>1. c[k] \in Frames BY <1>2, <3>1, <3>2
          <5> QED BY <1>4, <3>1, <3>2, <5>1, LenProperties DEF Frames
        <4>4. \A a, b, d, e \in Nat : a = b + d /\ a <= e => \A i \in 1..d : b + i \in 1..e
          OBVIOUS
        <4>5. held[k] \in Nat /\ held[k - 1] \in Nat /\ held[m] \in Nat
          BY <1>8, <3>1
        <4> DEFINE a == held[k]
                   b == held[k - 1]
                   d == Len(c[k].open)
                   e == held[m]
        <4>6. a \in Nat /\ b \in Nat /\ d \in Nat /\ e \in Nat /\ a = b + d /\ a <= e
          BY <4>2, <4>3, <4>5
        <4>7. \A i \in 1..d : b + i \in 1..e
          <5> HIDE DEF a, b, d, e
          <5> QED BY <4>4, <4>6
        <4> QED BY <4>7
      <3> QED BY <1>4, <1>9, <3>1, <3>2, <3>3, ZenonT(60)
    <2>3. HeldBy(c, H, v)
      BY <1>2, <1>9, <2>1, <2>2 DEF HeldBy
    <2> QED BY <2>3 DEF Held
  <1> QED BY <1>7, <1>9, <1>10, <1>11 DEF HeldBelow, c, o

-----------------------------------------------------------------------------
(* Steps that leave what is open as it is.                                 *)

LEMMA LastAdded ==
  ASSUME NEW S, NEW s \in Seq(S), NEW m,
         s \o <<m>> \in Seq(S) \/ Append(s, m) \in Seq(S)
  PROVE  m \in S /\ s \o <<m>> = Append(s, m)
  <1> DEFINE T == S \cup {m}
             l == Len(s)
  <1>1. s \in Seq(T) /\ m \in T /\ l \in Nat
    BY SeqMonotonic, LenProperties
  <1>2. s \o <<m>> = Append(s, m) /\ Len(Append(s, m)) = l + 1 /\ Append(s, m)[l + 1] = m
    <2> HIDE DEF T
    <2> QED BY <1>1, AppendIsConcat, AppendProperties
  <1>3. l + 1 \in 1..(l + 1) BY <1>1
  <1>4. Append(s, m) \in Seq(S) BY <1>2
  <1>5. m \in S
    <2> HIDE DEF l
    <2>1. l + 1 \in 1..Len(Append(s, m))
      BY <1>2, <1>3
    <2> QED BY <1>2, <1>4, <2>1, ElementOfSeq
  <1> QED BY <1>2, <1>5

LEMMA TwoAdded ==
  ASSUME NEW S, NEW s \in Seq(S), NEW m, NEW n, s \o <<m, n>> \in Seq(S)
  PROVE  m \in S /\ n \in S /\ s \o <<m, n>> = Append(Append(s, m), n)
  <1> DEFINE T == S \cup {m, n}
             l == Len(s)
  <1>1. s \in Seq(T) /\ m \in T /\ n \in T /\ l \in Nat
    BY SeqMonotonic, LenProperties
  <1>2. s \o <<m, n>> = Append(Append(s, m), n)
    <2> HIDE DEF T
    <2>1. Append(s, m) = s \o <<m>> /\ Append(s, m) \in Seq(T)
      BY <1>1, AppendIsConcat, AppendProperties
    <2>2. Append(Append(s, m), n) = (s \o <<m>>) \o <<n>>
      BY <1>1, <2>1, AppendIsConcat
    <2>3. (s \o <<m>>) \o <<n>> = s \o (<<m>> \o <<n>>)
      <3>1. <<m>> \in Seq(T) /\ <<n>> \in Seq(T)
        BY <1>1
      <3> QED BY <1>1, <3>1, ConcatAssociative
    <2> QED BY <2>2, <2>3, Concats
  <1>3. /\ Append(s, m) \in Seq(T) /\ Len(Append(s, m)) = l + 1 /\ Append(s, m)[l + 1] = m
    <2> HIDE DEF T
    <2> QED BY <1>1, AppendProperties
  <1> DEFINE r == s \o <<m, n>>
             q == Append(s, m)
  <1>4. Len(r) = l + 1 + 1 /\ r[l + 1] = m /\ r[l + 1 + 1] = n
    <2>1. r = Append(q, n) /\ q \in Seq(T) /\ Len(q) = l + 1 /\ q[l + 1] = m
      BY <1>2, <1>3
    <2>2. l + 1 \in 1..(l + 1) BY <1>1
    <2> HIDE DEF T, r, q, l
    <2> QED BY <1>1, <2>1, <2>2, AppendProperties
  <1>5. l + 1 \in 1..(l + 1 + 1) /\ l + 1 + 1 \in 1..(l + 1 + 1)
    BY <1>1
  <1>6. r \in Seq(S) OBVIOUS
  <1>7. m \in S /\ n \in S
    <2> HIDE DEF l, r
    <2> QED BY <1>4, <1>5, <1>6, ElementOfSeq
  <1> QED BY <1>2, <1>7

LEMMA TaglessMoves ==
  ASSUME NEW n, Tagless(n), NEW w \in Seq(STRING)
  PROVE  Tagging(n) /\ Moves(n, w, w)
  <1>1. Rise(n) = 0 BY DEF Tagless, Rise
  <1> QED BY <1>1 DEF Tagless, Tagging, Moves

LEMMA UntaggedNested ==
  ASSUME Running, nodes' \in Seq(Pieces), NEW w \in Seq(STRING), Nested(nodes, w), Untagged
  PROVE  Nested(nodes', w)
  <1>1. nodes \in Seq(Pieces) BY Types DEF Typed
  <1>2. CASE UNCHANGED nodes \/ Add(<<>>)
    BY <1>2, AddsNone
  <1>3. ASSUME NEW n, Tagless(n), Add(<<n>>) PROVE Nested(nodes', w)
    <2>1. n \in Pieces /\ nodes' = Append(nodes, n)
      BY <1>1, <1>3, LastAdded DEF Add
    <2> QED BY <1>1, <1>3, <2>1, TaglessMoves, NestedAppend
  <1>4. ASSUME NEW m, NEW n, Tagless(m), Tagless(n), Add(<<m, n>>) PROVE Nested(nodes', w)
    <2>1. m \in Pieces /\ n \in Pieces /\ nodes' = Append(Append(nodes, m), n)
      BY <1>1, <1>4, TwoAdded DEF Add
    <2>2. Nested(Append(nodes, m), w) /\ Append(nodes, m) \in Seq(Pieces)
      BY <1>1, <1>4, <2>1, TaglessMoves, NestedAppend, AppendProperties
    <2> QED BY <1>4, <2>1, <2>2, TaglessMoves, NestedAppend
  <1> QED BY <1>2, <1>3, <1>4 DEF Untagged

LEMMA HeldShift ==
  ASSUME Running, NEW w, Held(stack, w), Top.open = <<>>, stack' \in Seq(Frames), Shifted
  PROVE  Held(stack', w)
  <1>1. PICK v \in Seq(STRING) : Held(Callers, v) /\ w = v \o Top.open
    BY HeldPop DEF HeldBelow
  <1>2. Held(Callers, w) /\ w \in Seq(STRING) /\ w \o <<>> = w
    BY <1>1, ConcatEmptySeq
  <1>3. Callers \in Seq(Frames) BY Stack
  <1>4. CASE Stay
    BY <1>4 DEF Stay
  <1>5. CASE Return
    BY <1>2, <1>5 DEF Return
  <1>6. ASSUME NEW f, f.open = <<>>, Become(f) PROVE Held(stack', w)
    <2>1. stack' = Append(Callers, f)
      BY <1>6 DEF Become
    <2>2. f \in Frames BY <1>3, <2>1, LastAdded
    <2>3. Held(Append(Callers, f), w \o f.open)
      BY <1>2, <1>3, <1>6, <2>2, HeldPush DEF Bears
    <2> QED BY <1>2, <1>6, <2>1, <2>3
  <1>7. ASSUME NEW f, NEW b, f.open = <<>>, b.open = <<>>, Call(f, b) PROVE Held(stack', w)
    <2>1. stack' = Callers \o <<b, f>>
      BY <1>7 DEF Call
    <2>2. b \in Frames /\ f \in Frames /\ stack' = Append(Append(Callers, b), f)
      BY <1>3, <2>1, TwoAdded
    <2>3. Held(Append(Callers, b), w \o b.open)
      BY <1>2, <1>3, <1>7, <2>2, HeldPush DEF Bears
    <2>4. Held(Append(Callers, b), w) /\ Append(Callers, b) \in Seq(Frames)
      BY <1>2, <1>3, <1>7, <2>2, <2>3, AppendProperties
    <2>5. Held(Append(Append(Callers, b), f), w \o f.open)
      BY <1>7, <2>2, <2>4, HeldPush DEF Bears
    <2> QED BY <1>2, <1>7, <2>2, <2>5
  <1> QED BY <1>4, <1>5, <1>6, <1>7 DEF Shifted

LEMMA FrameKeepsOpen ==
  ASSUME NEW g \in Frames
  PROVE  /\ \A d : [g EXCEPT !.depth = d].open = g.open
         /\ \A pc, n : [g EXCEPT !.pc = pc, !.end = n].open = g.open
  <1>1. ASSUME NEW P, NEW S, NEW h \in [pc : P, open : S, from : Nat, end : Nat, depth : Int]
        PROVE  /\ \A d : [h EXCEPT !.depth = d].open = h.open
               /\ \A pc, n : [h EXCEPT !.pc = pc, !.end = n].open = h.open
    OBVIOUS
  <1> QED BY <1>1 DEF Frames

\* What Go code is made of.
LEMMA CodeParts ==
  ASSUME Running, Top.open = <<>>, phase' = "run"
  PROVE  /\ ~Fail /\ ~Stop("crashed")
         /\ \A pc, S : ~Fails(pc, S) /\ ~FailsBut(pc, S)
         /\ \A pc, S : Step(pc, S) => Untagged
         /\ \A a, b : Found("expr", a, b) \/ Found("code", a, b) \/ Found("import", a, b)
                      \/ Found("name", a, b) => Untagged
         /\ UNCHANGED nodes => Untagged
         /\ Return => Shifted
         /\ \A pc : Become(Frame(pc)) => Shifted
         /\ \A pc, q : Call(Frame(pc), Frame(q)) => Shifted
         /\ \A pc : Scanning(pc) => Shifted
         /\ \A pc, n : Become([Frame(pc) EXCEPT !.from = n]) => Shifted
         /\ \A pc, n, m : Become([Frame(pc) EXCEPT !.from = n, !.end = m]) => Shifted
         /\ \A d : Become([Top EXCEPT !.depth = d]) => Shifted
         /\ \A pc, n : Grows(pc, n) => Shifted
  <1>1. ~Fail /\ ~Stop("crashed") BY DEF Fail, Stop
  <1>2. \A pc, S : ~Fails(pc, S) /\ ~FailsBut(pc, S)
    BY <1>1 DEF Fails, FailsBut
  <1>3. UNCHANGED nodes => Untagged BY DEF Untagged
  <1>4. \A pc, S : Step(pc, S) => Untagged
    BY <1>3 DEF Step
  <1>5. \A a, b : Found("expr", a, b) \/ Found("code", a, b) \/ Found("import", a, b)
                  \/ Found("name", a, b) => Untagged
    <2>1. \A kind, a, b : Found(kind, a, b) /\ kind \notin {"element", "end"} => Untagged
      <3> SUFFICES ASSUME NEW kind, NEW a, NEW b, Found(kind, a, b), kind \notin {"element", "end"}
                   PROVE  Untagged
        OBVIOUS
      <3>1. Tagless(Node(kind, a, b))
        BY DEF Tagless, Node
      <3>2. Add(<<Node(kind, a, b)>>) BY DEF Found
      <3> QED BY <3>1, <3>2 DEF Untagged
    <2> QED BY <2>1
  <1>6. Return => Shifted BY DEF Shifted
  <1>7. \A f : f.open = <<>> /\ Become(f) => Shifted
    BY DEF Shifted
  <1>8. \A pc : Frame(pc).open = <<>> BY DEF Frame
  <1>9. \A pc, q : Call(Frame(pc), Frame(q)) => Shifted
    BY <1>8 DEF Shifted
  <1>10. /\ \A pc, n, d : [Frame(pc) EXCEPT !.from = n, !.depth = d].open = <<>>
         /\ \A pc, n : [Frame(pc) EXCEPT !.from = n].open = <<>>
         /\ \A pc, n, m : [Frame(pc) EXCEPT !.from = n, !.end = m].open = <<>>
    BY DEF Frame
  <1>11. Top \in Frames BY Stack
  <1>12. /\ \A d : [Top EXCEPT !.depth = d].open = <<>>
         /\ \A pc, n : [Top EXCEPT !.pc = pc, !.end = n].open = <<>>
    BY <1>11, FrameKeepsOpen
  <1>13. \A pc : Scanning(pc) => Shifted
    <2> TAKE pc
    <2> DEFINE g == [Frame(pc) EXCEPT !.from = code'.base + code'.look.at, !.depth = 1]
    <2>1. g.open = <<>> BY DEF Frame
    <2>2. Scanning(pc) => Become(g) BY DEF Scanning
    <2> HIDE DEF g
    <2> QED BY <1>7, <2>1, <2>2
  <1>14. \A pc, n : Grows(pc, n) => Shifted
    BY <1>7, <1>12 DEF Grows
  <1>15. \A d : Become([Top EXCEPT !.depth = d]) => Shifted
    BY <1>7, <1>12
  <1>16. /\ \A pc, n : Become([Frame(pc) EXCEPT !.from = n]) => Shifted
         /\ \A pc, n, m : Become([Frame(pc) EXCEPT !.from = n, !.end = m]) => Shifted
         /\ \A pc : Become(Frame(pc)) => Shifted
    BY <1>7, <1>8, <1>10, ZenonT(60)
  <1> QED BY <1>1, <1>2, <1>3, <1>4, <1>5, <1>6, <1>9, <1>13, <1>14, <1>15, <1>16

LEMMA CodeShifts ==
  ASSUME Running, Top.open = <<>>, phase' = "run", CodeStep, ~BlockMarkup
  PROVE  Untagged /\ Shifted
  <1>1. Keyword => Untagged /\ Shifted
    BY CodeParts DEF Keyword
  <1>2. \A pc \in Scans : ScanToken(pc) => Untagged /\ Shifted
    BY CodeParts DEF ScanToken
  <1>3. CondDone \/ ClauseDone \/ ExprDone => Untagged /\ Shifted
    BY CodeParts DEF CondDone, ClauseDone, ExprDone
  <1>4. CodeDone("code") \/ CodeDone("handling") => Untagged /\ Shifted
    BY CodeParts DEF CodeDone
  <1>5. Import => Untagged /\ Shifted
    BY CodeParts DEF Import
  <1>6. Handler \/ Block \/ BlockEnd \/ BlockCode => Untagged /\ Shifted
    BY CodeParts DEF Handler, Block, BlockEnd, BlockCode
  <1>7. NamedBlock("section") \/ NamedBlock("partial") => Untagged /\ Shifted
    BY CodeParts DEF NamedBlock
  <1>8. Else => Untagged /\ Shifted
    BY CodeParts DEF Else
  <1>9. Arguments("call") \/ Arguments("index") => Untagged /\ Shifted
    BY CodeParts DEF Arguments
  <1>10. Period => Untagged /\ Shifted
    BY CodeParts DEF Period
  <1>11. NameDone => Untagged /\ Shifted
    BY CodeParts DEF NameDone
  <1> QED BY <1>1, <1>2, <1>3, <1>4, <1>5, <1>6, <1>7, <1>8, <1>9, <1>10, <1>11 DEF CodeStep

LEMMA CodeAt == CodeStep => Top.pc \notin Holding \cup {"document", "attribute"}
  <1> DEFINE C == Top.pc \in CodePcList
  <1>1. Keyword => C
    BY DEF Keyword, Step, FailsBut, In, CodePcList
  <1>2. \A pc \in Scans : ScanToken(pc) => C
    BY PcNames DEF ScanToken, Fails, In, CodePcList
  <1>3. CondDone \/ ClauseDone \/ CodeDone("code") \/ CodeDone("handling") \/ ExprDone => C
    BY DEF CondDone, ClauseDone, CodeDone, ExprDone, Closed, In, CodePcList
  <1>4. Import => C
    BY DEF Import, Step, FailsBut, In, CodePcList
  <1>5. Handler \/ Block \/ BlockCode \/ BlockMarkup \/ BlockEnd => C
    BY DEF Handler, Block, BlockCode, BlockMarkup, BlockEnd, Step, Fails, FailsBut, In, CodePcList
  <1>6. NamedBlock("section") \/ NamedBlock("partial") => C
    BY DEF NamedBlock, FailsBut, In, CodePcList
  <1>7. Else => C
    BY DEF Else, Step, FailsBut, In, CodePcList
  <1>8. Arguments("call") \/ Arguments("index") => C
    BY DEF Arguments, Step, Fails, In, CodePcList
  <1>9. Period \/ NameDone => C
    BY DEF Period, NameDone, Step, In, CodePcList
  <1>10. C => Top.pc \notin Holding \cup {"document", "attribute"}
    BY DEF CodePcList, Holding
  <1> QED BY <1>1, <1>2, <1>3, <1>4, <1>5, <1>6, <1>7, <1>8, <1>9, <1>10 DEF CodeStep

\* A step that makes no tag, between frames that hold nothing.
LEMMA ShiftNests ==
  ASSUME Running, TInv', NEW w, Nesting(w), Top.open = <<>>, Untagged, Shifted
  PROVE  KeepsNested
  <1>1. stack' \in Seq(Frames) /\ nodes' \in Seq(Pieces)
    BY NextTypes
  <1> QED BY <1>1, HeldShift, UntaggedNested DEF Nesting, KeepsNested

LEMMA CodeNests ==
  ASSUME Running, TInv', phase' = "run", NEW w, Nesting(w), CodeStep, ~BlockMarkup
  PROVE  KeepsNested
  <1>1. Top.open = <<>>
    BY CodeAt, HeldPop DEF Nesting, Bears
  <1> QED BY <1>1, CodeShifts, ShiftNests

\* A frame that takes the place of the one that runs with the same names.
LEMMA HeldAgain ==
  ASSUME Running, NEW w, Held(stack, w), NEW f \in Frames, f.open = Top.open, Bears(f)
  PROVE  Held(Append(Callers, f), w) /\ Append(Callers, f) \in Seq(Frames)
  <1>1. PICK v \in Seq(STRING) : Held(Callers, v) /\ w = v \o Top.open
    BY HeldPop DEF HeldBelow
  <1>2. Callers \in Seq(Frames) BY Stack
  <1> QED BY <1>1, <1>2, HeldPush, AppendProperties

LEMMA HeldEmpty ==
  ASSUME NEW f \in Seq(Frames), NEW w \in Seq(STRING), Held(f, w), NEW g \in Frames, g.open = <<>>
  PROVE  Held(Append(f, g), w) /\ Append(f, g) \in Seq(Frames)
  <1>1. w \o g.open = w BY ConcatEmptySeq
  <1>2. Bears(g) BY DEF Bears
  <1>3. Held(Append(f, g), w \o g.open)
    BY <1>2, HeldPush
  <1> QED BY <1>1, <1>3, AppendProperties

LEMMA LeadTagless ==
  ASSUME NEW t, NEW o
  PROVE  /\ Add(Lead(t, o)) => Untagged
         /\ Add(Lead(t, o) \o <<Node("escape", o, o + 2)>>) => Untagged
         /\ \A a, b : Tagless(Node("literal", a, b)) /\ Tagless(Node("layout", a, b))
                      /\ Tagless(Node("escape", a, b))
  <1>1. \A a, b : Tagless(Node("literal", a, b)) /\ Tagless(Node("layout", a, b))
                  /\ Tagless(Node("escape", a, b))
    BY DEF Tagless, Node
  <1>2. Lead(t, o) = <<>> \/ Lead(t, o) = <<Node("literal", t.start, o)>>
    BY DEF Lead
  <1>3. \A x, y : <<x>> \o <<y>> = <<x, y>> /\ <<>> \o <<y>> = <<y>>
    BY Concats
  <1>4. CASE Lead(t, o) = <<>>
    BY <1>1, <1>3, <1>4 DEF Untagged
  <1>5. CASE Lead(t, o) = <<Node("literal", t.start, o)>>
    BY <1>1, <1>3, <1>5, ZenonT(60) DEF Untagged
  <1> QED BY <1>1, <1>2, <1>4, <1>5

LEMMA DocumentNests ==
  ASSUME Running, TInv', phase' = "run", NEW w, Nesting(w),
         DocumentLiteral \/ DocumentEscape \/ DocumentLayout \/ DocumentTransition
  PROVE  KeepsNested
  <1>1. Top.pc = "document"
    BY DEF DocumentLiteral, DocumentEscape, DocumentLayout, DocumentTransition, Tokenize, In
  <1>2. Top.open = <<>>
    BY <1>1, HeldPop DEF Nesting, Bears, Holding
  <1>3. ~Fail BY DEF Fail, Stop
  <1>4. UNCHANGED stack => Shifted
    BY DEF Shifted, Stay
  <1>5. DocumentLiteral => Untagged /\ Shifted
    BY <1>4, LeadTagless DEF DocumentLiteral, Untagged
  <1>6. DocumentEscape => Untagged /\ Shifted
    BY <1>4, LeadTagless DEF DocumentEscape
  <1>7. DocumentLayout => Untagged /\ Shifted
    BY <1>3, <1>4, LeadTagless DEF DocumentLayout, Untagged
  <1>8. DocumentTransition => Untagged /\ Shifted
    <2>1. Frame("keyword").open = <<>> BY DEF Frame
    <2> QED BY <1>2, <2>1, LeadTagless DEF DocumentTransition, Shifted
  <1> QED BY <1>2, <1>5, <1>6, <1>7, <1>8, ShiftNests

LEMMA BlockMarkupNests ==
  ASSUME Running, TInv', phase' = "run", NEW w, Nesting(w), BlockMarkup
  PROVE  KeepsNested
  <1>1. Top.pc = "body" BY DEF BlockMarkup, In
  <1>2. Top.open = <<>>
    BY <1>1, HeldPop DEF Nesting, Bears, Holding
  <1>4. PICK t, u : MarkupRead(t, u)
    BY BlockMarkupReads DEF Fail, Stop
  <1>3. At(u.start) \in DOMAIN Open /\ Add(MarkupNodes(t, u))
    BY <1>4 DEF MarkupRead
  <1> DEFINE name == Open[At(u.start)]
             e == Node("element", u.start, u.end)
             l == Node("literal", t.start, t.end)
  <1>5. name \in STRING /\ Tagging(e)
    BY <1>3, TagNames DEF Tagging, Node
  <1>6. stack' \in Seq(Frames) /\ nodes' \in Seq(Pieces) /\ nodes \in Seq(Pieces)
        /\ Callers \in Seq(Frames) /\ w \in Seq(STRING) /\ Held(stack, w) /\ Nested(nodes, w)
    BY NextTypes, Types, Stack DEF Typed, Nesting
  <1>7. ASSUME NEW v, Moves(e, w, v) PROVE Nested(nodes', v)
    <2> HIDE DEF e, l
    <2>1. CASE u = t
      <3>1. nodes' = nodes \o <<e>>
        BY <1>3, <2>1, Concats DEF Add, MarkupNodes, e
      <3>2. e \in Pieces /\ nodes' = Append(nodes, e)
        BY <1>6, <3>1, LastAdded
      <3> QED BY <1>5, <1>6, <1>7, <3>2, NestedAppend
    <2>2. CASE u # t
      <3>1. nodes' = nodes \o <<l, e>>
        BY <1>3, <2>2, Concats DEF Add, MarkupNodes, e, l
      <3>2. l \in Pieces /\ e \in Pieces /\ nodes' = Append(Append(nodes, l), e)
        BY <1>6, <3>1, TwoAdded
      <3>3. Tagging(l) /\ Moves(l, w, w)
        BY <1>6, LeadTagless, TaglessMoves DEF l
      <3>4. Nested(Append(nodes, l), w) /\ Append(nodes, l) \in Seq(Pieces)
        BY <1>6, <3>2, <3>3, NestedAppend, AppendProperties
      <3> QED BY <1>5, <1>7, <3>2, <3>4, NestedAppend
    <2> QED BY <2>1, <2>2
  <1>8. CASE name \in Void
    <2>1. Moves(e, w, w)
      BY <1>6, <1>8 DEF Moves, Rise, Node
    <2>2. Shifted
      BY <1>4, <1>8 DEF MarkupRead, Shifted, Frame
    <2>3. Held(stack', w)
      BY <1>2, <1>6, <2>2, HeldShift
    <2> QED BY <1>7, <2>1, <2>3 DEF KeepsNested
  <1>9. CASE name \notin Void
    <2> DEFINE a == Frame("close")
               b == [Frame("element") EXCEPT !.open = <<name>>]
               c == Frame("children")
               v == Append(w, name)
    <2>1. stack' = Callers \o <<a, b, c>>
      BY <1>4, <1>9 DEF MarkupRead, ElementFrames
    <2>2. /\ a \in Frames /\ a.open = <<>> /\ c \in Frames /\ c.open = <<>>
          /\ b \in Frames /\ b.open = <<name>> /\ Bears(b)
      <3>1. \A pc \in {"close", "element", "children"} :
              Frame(pc) \in Frames /\ Frame(pc).open = <<>> /\ Frame(pc).pc = pc
        BY FrameType, PcNames DEF CodePcList
      <3>2. <<name>> \in Seq(STRING) BY <1>5
      <3>3. b \in Frames /\ b.open = <<name>> /\ b.pc = "element"
        BY <3>1, <3>2 DEF Frames, Frame
      <3> QED BY <3>1, <3>3 DEF Bears, Holding
    <2>3. v \in Seq(STRING) /\ Moves(e, w, v)
      <3>1. v \in Seq(STRING)
        BY <1>5, <1>6, AppendProperties
      <3>2. Rise(e) = 1 /\ Open[At(e.from)] = name
        BY <1>9 DEF Rise, Node
      <3> QED BY <3>1, <3>2 DEF Moves
    <2>4. Held(Callers, w)
      <3>1. PICK x \in Seq(STRING) : Held(Callers, x) /\ w = x \o Top.open
        BY <1>6, HeldPop DEF HeldBelow
      <3> QED BY <1>2, <3>1, ConcatEmptySeq
    <2> HIDE DEF a, b, c
    <2>5. Held(Append(Callers, a), w) /\ Append(Callers, a) \in Seq(Frames)
      BY <1>6, <2>2, <2>4, HeldEmpty
    <2>6. Held(Append(Append(Callers, a), b), v) /\ Append(Append(Callers, a), b) \in Seq(Frames)
      <3>1. w \o b.open = v
        BY <1>5, <1>6, <2>2, AppendIsConcat
      <3>2. Held(Append(Append(Callers, a), b), w \o b.open)
        BY <2>2, <2>5, HeldPush
      <3> QED BY <2>2, <2>5, <3>1, <3>2, AppendProperties
    <2>7. Held(Append(Append(Append(Callers, a), b), c), v)
      BY <2>2, <2>3, <2>6, HeldEmpty
    <2>8. stack' = Append(Append(Append(Callers, a), b), c)
      <3>1. <<a, b, c>> = <<a, b>> \o <<c>>
        <4> QED OBVIOUS
      <3>2. Append(Append(Callers, a), b) = Callers \o <<a, b>>
        <4>1. Append(Callers, a) = Callers \o <<a>>
          BY <1>6, <2>2, AppendIsConcat
        <4>2. Append(Append(Callers, a), b) = (Callers \o <<a>>) \o <<b>>
          BY <2>2, <2>5, <4>1, AppendIsConcat
        <4>3. <<a>> \in Seq(Frames) /\ <<b>> \in Seq(Frames)
          BY <2>2
        <4>4. (Callers \o <<a>>) \o <<b>> = Callers \o (<<a>> \o <<b>>)
          BY <1>6, <4>3, ConcatAssociative
        <4> QED BY <4>2, <4>4, Concats
      <3>3. Append(Append(Append(Callers, a), b), c) = (Callers \o <<a, b>>) \o <<c>>
        BY <2>2, <2>6, <3>2, AppendIsConcat
      <3>4. <<a, b>> \in Seq(Frames) /\ <<c>> \in Seq(Frames)
        BY <2>2
      <3>5. (Callers \o <<a, b>>) \o <<c>> = Callers \o (<<a, b>> \o <<c>>)
        BY <1>6, <3>4, ConcatAssociative
      <3> QED BY <2>1, <3>1, <3>3, <3>5
    <2> QED BY <1>7, <2>3, <2>7, <2>8 DEF KeepsNested
  <1> QED BY <1>8, <1>9

\* Within an element.
LEMMA InElement ==
  ASSUME Running, TInv', NEW w, Nesting(w), Top.pc \in Holding
  PROVE  /\ Callers \in Seq(Frames) /\ stack' \in Seq(Frames)
         /\ nodes \in Seq(Pieces) /\ nodes' \in Seq(Pieces)
         /\ Held(stack, w) /\ Nested(nodes, w) /\ w \in Seq(STRING)
         /\ Top \in Frames /\ Top.open \in Seq(STRING) /\ HeldBelow(w)
         /\ Len(stack) >= 2
  <1>1. Top \in Frames /\ Len(stack) >= 1 /\ Len(stack) \in Nat /\ Callers \in Seq(Frames)
    BY Stack
  <1>2. Len(stack) # 1
    BY DEF Running, TInv, Linked, Top, Holding
  <1>3. \A n \in Nat : n >= 1 /\ n # 1 => n >= 2
    OBVIOUS
  <1>4. Top.open \in Seq(STRING) BY <1>1 DEF Frames
  <1> QED BY <1>1, <1>2, <1>3, <1>4, NextTypes, Types, HeldPop DEF Typed, Nesting

LEMMA ChildElementNests ==
  ASSUME Running, TInv', NEW w, Nesting(w), ChildElement
  PROVE  KeepsNested
  <1> DEFINE name == Open[Child]
             e == Node("element", html.start, html.end)
             f == [Top EXCEPT !.open = Append(@, name)]
             v == Append(w, name)
  <1>1. /\ Top.pc = "children" /\ Child \in DOMAIN Open
        /\ Add(<<e>>)
        /\ IF name \in Void THEN UNCHANGED stack ELSE Call(Frame("children"), f)
    BY DEF ChildElement, In, Stay
  <1>2. /\ Callers \in Seq(Frames) /\ stack' \in Seq(Frames)
        /\ nodes \in Seq(Pieces) /\ nodes' \in Seq(Pieces)
        /\ Held(stack, w) /\ Nested(nodes, w) /\ w \in Seq(STRING)
        /\ Top \in Frames /\ Top.open \in Seq(STRING) /\ HeldBelow(w)
    BY <1>1, InElement DEF Holding
  <1>3. name \in STRING /\ Tagging(e) /\ At(e.from) = Child /\ e.kind = "element"
    BY <1>1, TagNames DEF Tagging, Node, Child
  <1>4. e \in Pieces /\ nodes' = Append(nodes, e)
    <2> HIDE DEF e
    <2> QED BY <1>1, <1>2, LastAdded DEF Add
  <1>5. ASSUME NEW x, Moves(e, w, x) PROVE Nested(nodes', x)
    <2> HIDE DEF e
    <2> QED BY <1>2, <1>3, <1>4, <1>5, NestedAppend
  <1>6. CASE name \in Void
    <2>1. Moves(e, w, w)
      BY <1>2, <1>3, <1>6 DEF Moves, Rise
    <2> QED BY <1>1, <1>2, <1>5, <1>6, <2>1 DEF KeepsNested
  <1>7. CASE name \notin Void
    <2>1. v \in Seq(STRING) /\ Append(Top.open, name) \in Seq(STRING)
      BY <1>2, <1>3, AppendProperties
    <2>2. Moves(e, w, v)
      <3>1. Rise(e) = 1 BY <1>3, <1>7 DEF Rise
      <3> QED BY <1>3, <2>1, <3>1 DEF Moves
    <2>3. f \in Frames /\ f.open = Append(Top.open, name) /\ f.pc = "children"
      BY <1>1, <1>2, <2>1 DEF Frames
    <2>4. Call(Frame("children"), f) BY <1>1, <1>7
    <2> HIDE DEF f
    <2>5. PICK x \in Seq(STRING) : Held(Callers, x) /\ w = x \o Top.open
      BY <1>2 DEF HeldBelow
    <2>6. x \o f.open = v
      <3>1. /\ w = x \o Top.open /\ v = w \o <<name>>
            /\ f.open = Top.open \o <<name>>
        BY <1>2, <1>3, <2>3, <2>5, AppendIsConcat
      <3>2. <<name>> \in Seq(STRING) BY <1>3
      <3>3. (x \o Top.open) \o <<name>> = x \o (Top.open \o <<name>>)
        <4> DEFINE o == Top.open
        <4>1. o \in Seq(STRING) /\ x \in Seq(STRING) /\ <<name>> \in Seq(STRING)
          BY <1>2, <2>5, <3>2
        <4> HIDE DEF o, name
        <4>2. (x \o o) \o <<name>> = x \o (o \o <<name>>)
          BY <4>1, ConcatAssociative, SMTT(60)
        <4> QED BY <4>2 DEF o
      <3> QED BY <3>1, <3>3
    <2>7. Held(Append(Callers, f), x \o f.open)
      BY <1>2, <2>3, <2>5, HeldPush DEF Bears, Holding
    <2>8. Held(Append(Callers, f), v) /\ Append(Callers, f) \in Seq(Frames)
      BY <1>2, <2>3, <2>6, <2>7, AppendProperties
    <2>9. Frame("children") \in Frames /\ Frame("children").open = <<>>
      BY FrameType, PcNames
    <2>10. Held(Append(Append(Callers, f), Frame("children")), v)
      BY <2>1, <2>8, <2>9, HeldEmpty
    <2>11. stack' = Append(Append(Callers, f), Frame("children"))
      BY <1>2, <2>4, TwoAdded DEF Call
    <2> QED BY <1>5, <2>2, <2>10, <2>11 DEF KeepsNested
  <1> QED BY <1>6, <1>7

\* At the end of the source all the children return.
LEMMA EndReturns ==
  ASSUME Running, ChildrenReturn, Child = ""
  PROVE  Unended'
  <1>1. Top.pc = "children" /\ Return /\ html' = html /\ src' = src
    BY DEF ChildrenReturn, In
  <1>2. Top'.pc \in Below("children")
    BY <1>1, Returns
  <1>3. Top'.pc \in {"children", "element"}
    BY <1>2, BelowCode
  <1>4. Child' = Child BY <1>1 DEF Child, At
  <1> QED BY <1>3, <1>4 DEF Unended

LEMMA ChildrenReturnNests ==
  ASSUME Running, TInv', NEW w, Nesting(w), ChildrenReturn
  PROVE  KeepsNested
  <1>1. CASE Child = ""
    BY <1>1, EndReturns DEF KeepsNested
  <1>2. CASE Child # ""
    <2>1. Top.open = <<>> /\ Return /\ UNCHANGED nodes
      BY <1>2 DEF ChildrenReturn
    <2> QED BY <2>1, ShiftNests DEF Untagged, Shifted
  <1> QED BY <1>1, <1>2

\* An end tag takes the last name off.
LEMMA EndMoves ==
  ASSUME NEW n, n.kind = "end", NEW v \in Seq(STRING), NEW c, c = Close[At(n.from)], NEW w,
         w = Append(v, c)
  PROVE  Tagging(n) /\ Moves(n, w, v)
  <1>1. Rise(n) = -1 BY DEF Rise
  <1> QED BY <1>1 DEF Moves, Tagging

LEMMA ChildEndNests ==
  ASSUME Running, TInv', phase' = "run", NEW w, Nesting(w), ChildEnd
  PROVE  KeepsNested
  <1> DEFINE o == Top.open
             m == Len(o) - 1
             c == Close[Child]
             x == SubSeq(o, 1, m)
             f == [Top EXCEPT !.open = x]
             n == Node("end", html.start, html.end)
  <1>1. /\ Top.pc = "children" /\ Child \in DOMAIN Close /\ o # <<>> /\ o[Len(o)] = c
        /\ Add(<<n>>) /\ Become([Top EXCEPT !.open = SubSeq(@, 1, Len(@) - 1)])
    <2>1. ~Fail BY DEF Fail, Stop
    <2> QED BY <2>1 DEF ChildEnd, In
  <1>2. /\ Callers \in Seq(Frames) /\ stack' \in Seq(Frames)
        /\ nodes \in Seq(Pieces) /\ nodes' \in Seq(Pieces)
        /\ Held(stack, w) /\ Nested(nodes, w) /\ w \in Seq(STRING)
        /\ Top \in Frames /\ Top.open \in Seq(STRING) /\ HeldBelow(w)
    BY <1>1, InElement DEF Holding
  <1>3. c \in STRING /\ At(n.from) = Child /\ n.kind = "end"
    BY <1>1, TagNames DEF Child, Node
  <1>4. o \in Seq(STRING) /\ Len(o) \in Nat /\ Len(o) # 0
    <2> HIDE DEF o
    <2>1. o \in Seq(STRING) BY <1>2 DEF o
    <2> QED BY <1>1, <2>1, EmptySeq
  <1>5. x \in Seq(STRING) /\ Append(x, c) = o
    <2>1. /\ m \in Nat /\ Len(o) = m + 1 /\ m - 1 + 1 = m /\ (IF 1 <= m THEN m - 1 + 1 ELSE 0) = m
          /\ \A i \in 1..m : i \in 1..Len(o) /\ 1 + i - 1 = i
      <3> DEFINE a == Len(o)
      <3>1. a \in Nat /\ a # 0 BY <1>4
      <3> HIDE DEF a
      <3>2. \A d \in Nat : d # 0 =>
              /\ d - 1 \in Nat /\ d = (d - 1) + 1 /\ (d - 1) - 1 + 1 = d - 1
              /\ (IF 1 <= d - 1 THEN (d - 1) - 1 + 1 ELSE 0) = d - 1
              /\ \A i \in 1..(d - 1) : i \in 1..d /\ 1 + i - 1 = i
        OBVIOUS
      <3> QED BY <3>1, <3>2 DEF a
    <2> HIDE DEF m, o, c
    <2>2. /\ SubSeq(o, 1, m) \in Seq(STRING)
          /\ Len(SubSeq(o, 1, m)) = IF 1 <= m THEN m - 1 + 1 ELSE 0
          /\ \A i \in 1..(m - 1 + 1) : SubSeq(o, 1, m)[i] = o[1 + i - 1]
      <3>1. \A i \in 1..m : o[i] \in STRING
        BY <1>4, <2>1, ElementOfSeq
      <3> QED BY <2>1, <3>1, SubSeqProperties
    <2>3. x \in Seq(STRING) /\ Len(x) = m /\ \A i \in 1..m : x[i] = o[i]
      BY <2>1, <2>2
    <2> HIDE DEF x
    <2>4. /\ Append(x, c) \in Seq(STRING) /\ Len(Append(x, c)) = m + 1
          /\ \A i \in 1..m : Append(x, c)[i] = x[i]
          /\ Append(x, c)[m + 1] = c
      BY <1>3, <2>3, AppendProperties
    <2>5. \A i \in 1..(m + 1) : i \in 1..m \/ i = m + 1
      BY <2>1
    <2>6. o[m + 1] = c BY <1>1, <2>1 DEF o, c
    <2>7. \A i \in 1..(m + 1) : Append(x, c)[i] = o[i]
      BY <2>3, <2>4, <2>5, <2>6
    <2> QED BY <1>4, <2>1, <2>3, <2>4, <2>7, SeqEqual
  <1>6. f \in Frames /\ f.open = x /\ f.pc = "children"
    BY <1>1, <1>2, <1>5 DEF Frames
  <1>7. Become(f) BY <1>1
  <1>8. n \in Pieces /\ nodes' = Append(nodes, n)
    <2> HIDE DEF n
    <2> QED BY <1>1, <1>2, LastAdded DEF Add
  <1>9. PICK y \in Seq(STRING) : Held(Callers, y) /\ w = y \o Top.open
    BY <1>2 DEF HeldBelow
  <1> DEFINE v == y \o x
  <1> HIDE DEF f, x, c, n, m
  <1>10. v \in Seq(STRING) /\ w = Append(v, c)
    <2>1. v \in Seq(STRING) /\ <<c>> \in Seq(STRING)
      BY <1>3, <1>5, <1>9, ConcatProperties
    <2>2. Append(v, c) = v \o <<c>> /\ o = x \o <<c>>
      BY <1>3, <1>5, <2>1, AppendIsConcat
    <2>3. (y \o x) \o <<c>> = y \o (x \o <<c>>)
      BY <1>5, <1>9, <2>1, ConcatAssociative, SMTT(60)
    <2> QED BY <1>9, <2>1, <2>2, <2>3
  <1>11. Held(stack', v)
    BY <1>2, <1>6, <1>7, <1>9, HeldPush DEF Bears, Holding, Become
  <1>12. Tagging(n) /\ Moves(n, w, v)
    <2>1. c = Close[At(n.from)] BY <1>3 DEF c
    <2> HIDE DEF v
    <2> QED BY <1>3, <1>10, <2>1, EndMoves
  <1>13. Nested(nodes', v)
    BY <1>2, <1>8, <1>12, NestedAppend
  <1> QED BY <1>11, <1>13 DEF KeepsNested

LEMMA ChildTextNests ==
  ASSUME Running, TInv', NEW w, Nesting(w), ChildDropped \/ ChildLiteral
  PROVE  KeepsNested
  <1>1. UNCHANGED stack /\ Untagged
    BY LeadTagless DEF ChildDropped, ChildLiteral, Untagged
  <1> QED BY <1>1, NextTypes, UntaggedNested DEF Nesting, KeepsNested

LEMMA ChildTransitionNests ==
  ASSUME Running, TInv', NEW w, Nesting(w), ChildTransition
  PROVE  KeepsNested
  <1> DEFINE f == [Top EXCEPT !.pc = "resume"]
             k == Frame("keyword")
  <1>1. Top.pc = "children" /\ Untagged /\ Call(k, f)
    BY LeadTagless DEF ChildTransition, In
  <1>2. /\ Callers \in Seq(Frames) /\ stack' \in Seq(Frames) /\ nodes' \in Seq(Pieces)
        /\ Held(stack, w) /\ Nested(nodes, w) /\ w \in Seq(STRING) /\ Top \in Frames
    BY <1>1, InElement DEF Holding
  <1>3. f \in Frames /\ f.open = Top.open /\ f.pc = "resume"
    BY <1>2, PcNames DEF Frames
  <1>4. k \in Frames /\ k.open = <<>>
    BY FrameType, PcNames DEF CodePcList
  <1> HIDE DEF f, k
  <1>5. Held(Append(Callers, f), w) /\ Append(Callers, f) \in Seq(Frames)
    BY <1>2, <1>3, HeldAgain DEF Bears, Holding
  <1>6. Held(Append(Append(Callers, f), k), w)
    BY <1>2, <1>4, <1>5, HeldEmpty
  <1>7. stack' = Append(Append(Callers, f), k)
    BY <1>1, <1>2, TwoAdded DEF Call
  <1> QED BY <1>1, <1>2, <1>6, <1>7, UntaggedNested DEF KeepsNested

LEMMA ChildResumeNests ==
  ASSUME Running, TInv', NEW w, Nesting(w), ChildResume
  PROVE  KeepsNested
  <1> DEFINE f == [Top EXCEPT !.pc = "children"]
  <1>1. Top.pc = "resume" /\ UNCHANGED nodes /\ Become(f)
    BY DEF ChildResume, In
  <1>2. Held(stack, w) /\ Nested(nodes, w) /\ Top \in Frames
    BY <1>1, InElement DEF Holding
  <1>3. f \in Frames /\ f.open = Top.open /\ f.pc = "children"
    BY <1>2, PcNames DEF Frames
  <1> HIDE DEF f
  <1>4. Held(stack', w)
    BY <1>1, <1>2, <1>3, HeldAgain DEF Bears, Holding, Become
  <1> QED BY <1>1, <1>2, <1>4 DEF KeepsNested

LEMMA ElementEndNests ==
  ASSUME Running, TInv', phase' = "run", NEW w, Nesting(w), ElementEnd
  PROVE  KeepsNested
  <1> DEFINE c == Close[Child]
             n == Node("end", html.start, html.end)
  <1>1. /\ Top.pc = "element" /\ Child \in DOMAIN Close /\ Top.open = <<c>>
        /\ Add(<<n>>) /\ Return
    <2>1. ~Fail BY DEF Fail, Stop
    <2> QED BY <2>1 DEF ElementEnd, In
  <1>2. /\ nodes \in Seq(Pieces) /\ nodes' \in Seq(Pieces)
        /\ Held(stack, w) /\ Nested(nodes, w) /\ w \in Seq(STRING) /\ HeldBelow(w)
    BY <1>1, InElement DEF Holding
  <1>3. c \in STRING /\ c = Close[At(n.from)] /\ n.kind = "end"
    BY <1>1, TagNames DEF Child, Node
  <1> HIDE DEF c, n
  <1>4. n \in Pieces /\ nodes' = Append(nodes, n)
    BY <1>1, <1>2, LastAdded DEF Add
  <1>5. PICK v \in Seq(STRING) : Held(Callers, v) /\ w = v \o Top.open
    BY <1>2 DEF HeldBelow
  <1>6. w = Append(v, c)
    BY <1>1, <1>3, <1>5, AppendIsConcat
  <1>7. Nested(nodes', v)
    <2>1. Tagging(n) /\ Moves(n, w, v)
      BY <1>3, <1>5, <1>6, EndMoves
    <2> QED BY <1>2, <1>4, <2>1, NestedAppend
  <1> QED BY <1>1, <1>5, <1>7 DEF KeepsNested, Return

\* At the end of the source nothing happens but that the children return.
LEMMA UnendedStays ==
  ASSUME Running, phase' = "run", Unended, HtmlStep \/ CodeStep
  PROVE  KeepsNested
  <1>1. Top.pc \in {"children", "element"} /\ Child = ""
    BY DEF Unended
  <1>2. ~CodeStep BY <1>1, CodeAt DEF Holding
  <1>3. Child \notin DOMAIN Open /\ Child \notin DOMAIN Close /\ Child # "<!-- -->"
        /\ Child # "<!doctype>" /\ ~IsText(html)
    <2>1. "" \notin Markup BY LexemesAssumption
    <2> QED BY <1>1, <2>1 DEF Markup, IsText, Child
  <1>4. ~Fail BY DEF Fail, Stop
  <1>5. /\ ~ChildElement /\ ~ChildEnd /\ ~ChildDropped /\ ~ChildLiteral /\ ~ChildTransition
        /\ ~ChildDoctype /\ ~ElementEnd
    BY <1>3, <1>4 DEF ChildElement, ChildEnd, ChildDropped, ChildLiteral, ChildTransition,
                      ChildDoctype, ElementEnd
  <1>6. /\ ~DocumentEnd /\ ~AttributeEnd /\ ~DocumentLiteral /\ ~DocumentEscape /\ ~DocumentLayout
        /\ ~DocumentTransition /\ ~ChildResume
    BY <1>1 DEF DocumentEnd, AttributeEnd, DocumentLiteral, DocumentEscape, DocumentLayout,
                DocumentTransition, ChildResume, Tokenize, In
  <1>7. ChildrenReturn
    BY <1>2, <1>5, <1>6 DEF HtmlStep
  <1> QED BY <1>1, <1>7, EndReturns DEF KeepsNested

LEMMA StepNests ==
  ASSUME Running, TInv', phase' = "run", NEW w, Nesting(w), HtmlStep \/ CodeStep
  PROVE  KeepsNested
  <1>1. ~DocumentEnd /\ ~AttributeEnd /\ ~ChildDoctype
    BY DEF DocumentEnd, AttributeEnd, ChildDoctype, Fail, Stop
  <1>2. CASE CodeStep
    BY <1>2, CodeNests, BlockMarkupNests
  <1>3. CASE HtmlStep
    BY <1>1, <1>3, DocumentNests, ChildElementNests, ChildrenReturnNests, ChildEndNests,
       ChildTextNests, ChildTransitionNests, ChildResumeNests, ElementEndNests DEF HtmlStep
  <1> QED BY <1>2, <1>3

-----------------------------------------------------------------------------
(* The end of a parse.                                                     *)

\* The document and the attribute are the first frames.
LEMMA NothingHeld ==
  ASSUME Running, NEW w, Nesting(w), Top.pc \in {"document", "attribute"}
  PROVE  Nested(nodes, <<>>)
  <1>1. /\ stack \in Seq(Frames) /\ Len(stack) \in Nat /\ Len(stack) >= 1
        /\ Len(Callers) = Len(stack) - 1 /\ Callers \in Seq(Frames)
    BY Stack
  <1>2. Len(stack) = 1
    <2>1. SUFFICES ASSUME Len(stack) # 1 PROVE FALSE
      OBVIOUS
    <2>2. Len(stack) \in 2..Len(stack) BY <1>1, <2>1
    <2>3. stack[Len(stack) - 1].pc \in Below(Top.pc)
      BY <2>2 DEF Running, TInv, Linked, Sits, Top
    <2> QED BY <2>3, BelowCode
  <1>3. Top.open = <<>>
    BY HeldPop DEF Nesting, Bears, Holding
  <1>4. PICK v \in Seq(STRING) : Held(Callers, v) /\ w = v \o Top.open
    BY HeldPop DEF Nesting, HeldBelow
  <1>5. w = v BY <1>3, <1>4, ConcatEmptySeq
  <1>6. Len(v) = 0
    <2>1. PICK held : HeldBy(Callers, held, v)
      BY <1>4 DEF Held
    <2>2. Len(Callers) = 0 BY <1>1, <1>2
    <2> QED BY <2>1, <2>2 DEF HeldBy
  <1>7. v = <<>> BY <1>6, EmptySeq
  <1> QED BY <1>5, <1>7 DEF Nesting

LEMMA SettledBalances == Settled => Balanced
  BY NestedBalances DEF Settled

LEMMA NextSettledBalances == Settled' => Balanced'
  BY SettledBalances, PTL

LEMMA NextBalanced ==
  ASSUME src' = src, nodes' \in Seq(Pieces), Nested(nodes', <<>>)
  PROVE  Balanced'
  <1>1. Nested(nodes, <<>>)' BY NextNested
  <1>2. Settled' BY <1>1 DEF Settled
  <1> QED BY <1>2, NextSettledBalances

LEMMA SourceStays == HtmlStep \/ CodeStep => src' = src
  <1>1. HtmlStep => src' = src
    BY DEF HtmlStep, DocumentEnd, AttributeEnd, DocumentLiteral, DocumentEscape, DocumentLayout,
           DocumentTransition, ChildElement, ChildrenReturn, ChildEnd, ChildDropped,
           ChildLiteral, ChildTransition, ChildResume, ChildDoctype, ElementEnd, Tokenize
  <1>2. /\ \A pc, S : Step(pc, S) \/ Fails(pc, S) \/ FailsBut(pc, S) => src' = src
        /\ \A kind, a, b : Found(kind, a, b) => src' = src
        /\ Code => src' = src
    BY DEF Step, Fails, FailsBut, Found, Code
  <1>3. Keyword \/ (\E pc \in Scans : ScanToken(pc)) => src' = src
    BY <1>2 DEF Keyword, ScanToken
  <1>4. CondDone \/ ClauseDone \/ CodeDone("code") \/ CodeDone("handling") \/ ExprDone => src' = src
    BY <1>2 DEF CondDone, ClauseDone, CodeDone, ExprDone
  <1>5. \/ Import \/ Handler \/ NamedBlock("section") \/ NamedBlock("partial")
        \/ Block \/ BlockCode \/ BlockMarkup \/ BlockEnd
        => src' = src
    BY <1>2 DEF Import, Handler, NamedBlock, Block, BlockCode, BlockMarkup, BlockEnd
  <1>6. Else \/ Arguments("call") \/ Arguments("index") \/ Period \/ NameDone => src' = src
    BY <1>2 DEF Else, Arguments, Period, NameDone
  <1> QED BY <1>1, <1>3, <1>4, <1>5, <1>6 DEF CodeStep

LEMMA InitNests == Init => BInv
  <1> SUFFICES ASSUME Init PROVE BInv
    OBVIOUS
  <1>1. nodes = <<>> /\ phase = "run" BY DEF Init
  <1>2. /\ Frame("document") \in Frames /\ Frame("document").open = <<>>
        /\ Frame("attribute") \in Frames /\ Frame("attribute").open = <<>>
        /\ Frame("keyword") \in Frames /\ Frame("keyword").open = <<>>
    BY FrameType, PcNames DEF CodePcList
  <1>3. Held(<<>>, <<>>)
    <2> DEFINE H == [k \in 0..0 |-> 0]
    <2>1. H \in [0..0 -> Nat] /\ H[0] = 0 OBVIOUS
    <2> HIDE DEF H
    <2>2. HeldBy(<<>>, H, <<>>) BY <2>1 DEF HeldBy
    <2> QED BY <2>2 DEF Held
  <1>4. ASSUME NEW f \in Frames, f.open = <<>> PROVE Held(<<f>>, <<>>)
    <2>1. <<>> \in Seq(Frames) /\ <<>> \in Seq(STRING)
      BY EmptySeq
    <2>3. Held(Append(<<>>, f), <<>>)
      BY <1>3, <1>4, <2>1, HeldEmpty
    <2>2. Append(<<>>, f) = <<f>> OBVIOUS
    <2> QED BY <2>2, <2>3
  <1>5. Held(stack, <<>>)
    <2>1. CASE stack = <<Frame("document")>>
      BY <1>2, <1>4, <2>1
    <2>2. CASE stack = <<Frame("attribute"), Frame("keyword")>>
      <3> DEFINE f == Frame("attribute")
                 g == Frame("keyword")
      <3>1. f \in Frames /\ g \in Frames /\ g.open = <<>> /\ Held(<<f>>, <<>>)
        BY <1>2, <1>4
      <3> HIDE DEF f, g
      <3>2. <<f>> \in Seq(Frames) /\ <<>> \in Seq(STRING)
        BY <3>1
      <3>3. Held(Append(<<f>>, g), <<>>)
        BY <3>1, <3>2, HeldEmpty
      <3>4. Append(<<f>>, g) = <<f>> \o <<g>>
        BY <3>1, <3>2, AppendIsConcat
      <3>5. Held(<<f, g>>, <<>>)
        BY <3>3, <3>4, Concats
      <3> QED BY <2>2, <3>5 DEF f, g
    <2> QED BY <2>1, <2>2 DEF Init
  <1> QED BY <1>1, <1>5, NestedEmpty DEF BInv, Balanced

LEMMA StepBalances ==
  ASSUME IInv, IInv', BInv, HtmlStep \/ CodeStep
  PROVE  BInv'
  <1>1. phase = "run" /\ Running /\ TInv' /\ src' = src
    BY Runs, SourceStays DEF IInv, Running
  <1>2. Unended \/ \E w : Nesting(w)
    <2>1. \A w : Held(stack, w) => w \in Seq(STRING)
      BY DEF Held, HeldBy
    <2> QED BY <1>1, <2>1 DEF BInv, Nesting
  <1>3. nodes' \in Seq(Pieces) BY <1>1, NextTypes
  <1>4. CASE DocumentEnd \/ AttributeEnd
    <2>1. /\ Top.pc \in {"document", "attribute"} /\ nodes' = nodes /\ phase' \in {"parsed", "done"}
      BY <1>4 DEF DocumentEnd, AttributeEnd, Tokenize, In
    <2>2. ~Unended BY <2>1 DEF Unended
    <2>3. Nested(nodes, <<>>)
      BY <1>1, <1>2, <2>1, <2>2, NothingHeld
    <2>4. Nested(nodes, <<>>)' /\ Balanced'
      BY <1>1, <1>3, <2>1, <2>3, NextNested, NextBalanced
    <2> QED BY <2>1, <2>4 DEF BInv
  <1>5. CASE ~DocumentEnd /\ ~AttributeEnd /\ phase' = "run"
    <2>1. KeepsNested
      BY <1>1, <1>2, <1>5, StepNests, UnendedStays
    <2>2. Unended' \/ \E w : Held(stack', w) /\ Nested(nodes, w)'
      BY <1>1, <2>1, NextNested DEF KeepsNested
    <2> QED BY <1>5, <2>2 DEF BInv, Balanced
  <1>6. CASE ~DocumentEnd /\ ~AttributeEnd /\ phase' # "run"
    <2>1. phase' \in {"error", "crashed"}
      BY <1>1, <1>6, Phases
    <2> QED BY <2>1 DEF BInv, Balanced
  <1> QED BY <1>4, <1>5, <1>6

LEMMA CompileBalances ==
  ASSUME IInv, BInv, Compile
  PROVE  BInv'
  <1>1. phase = "parsed" /\ phase' = "done" /\ src' = src
    BY DEF Compile
  <1>2. nodes \in Seq(Pieces) /\ Nested(nodes, <<>>)
    BY <1>1 DEF BInv, IInv, TInv, TypeOK, Pieces
  <1>3. nodes' \in Seq(Pieces) /\ Nested(nodes', <<>>)
    <2>1. CASE UNCHANGED nodes
      BY <1>2, <2>1
    <2>2. CASE \E begins : nodes' = CoalesceLiterals(begins)
      BY <1>2, <2>2, CoalesceNested
    <2> QED BY <2>1, <2>2 DEF Compile
  <1> QED BY <1>1, <1>3, NextBalanced DEF BInv

LEMMA NextNests == IInv /\ BInv /\ [Next]_vars => BInv'
  <1> SUFFICES ASSUME IInv, BInv, [Next]_vars PROVE BInv'
    OBVIOUS
  <1>1. CASE HtmlStep \/ CodeStep
    BY <1>1, NextInv, StepBalances
  <1>2. CASE Compile
    BY <1>2, CompileBalances
  <1>3. CASE UNCHANGED vars
    <2>1. UNCHANGED <<src, offset, html, code, stack, nodes, phase>>
      BY <1>3 DEF vars
    <2>2. \A d : At(d)' = At(d) BY <2>1, SameSource
    <2>3. \A w : Nested(nodes, w) => Nested(nodes, w)'
      BY <2>1, NextNested
    <2>4. Unended' = Unended
      BY <2>1, <2>2 DEF Unended, Top, Child
    <2>5. \A a, b : Tags(a, b)' = Tags(a, b)
      BY <2>1, <2>2 DEF Tags
    <2>6. \A a, b : Balance(a, b)' = Balance(a, b)
      BY <2>1, <2>5 DEF Balance
    <2>7. Balanced' = Balanced
      BY <2>1, <2>2, <2>5, <2>6 DEF Balanced
    <2> QED BY <2>1, <2>3, <2>4, <2>7 DEF BInv
  <1> QED BY <1>1, <1>2, <1>3 DEF Next, Over

\* The elements of blocks are closed in the order in which they were opened and by
\* their own names, however deep blocks and elements are in each other, before the
\* optimizer and after it.
THEOREM ElementsBalance == Spec => []Balanced
  <1>1. Init => IInv /\ BInv BY InitInv, InitNests
  <1>2. IInv /\ BInv /\ [Next]_vars => IInv' /\ BInv'
    BY NextInv, NextNests
  <1>3. IInv /\ BInv => Balanced BY DEF BInv
  <1> QED BY <1>1, <1>2, <1>3, PTL DEF Spec
-----------------------------------------------------------------------------
(* The theorems about words.                                               *)

\* Where children are parsed, an element is open in the tree.
LEMMA ChildrenOpened == IInv /\ BInv => Opened
  <1> SUFFICES ASSUME Running, BInv, Top.pc = "children", ~Unended
               PROVE  Balance(1, Len(nodes)) > 0
    BY DEF Opened, Unended, IInv, Running
  <1>1. Running OBVIOUS
  <1>2. PICK w : Held(stack, w) /\ Nested(nodes, w)
    BY DEF BInv, Running
  <1>3. PICK held : HeldBy(stack, held, w)
    BY <1>2 DEF Held
  <1>4. PICK B : NestedBy(nodes, B, w)
    BY <1>2 DEF Nested
  <1>5. PICK n \in Nat : n = Len(stack)
    BY <1>1, Stack
  <1>6. n > 1 BY <1>1, <1>5, AtChild, Stack
  <1>7. /\ n \in 2..n /\ n \in 1..n /\ n - 1 \in 1..n /\ (n - 1) - 1 \in 0..n
    BY <1>6
  <1>8. /\ Sits(stack[n], stack[n - 1]) /\ stack[n].pc = "children"
        /\ stack[n] \in Frames /\ stack[n - 1] \in Frames
    BY <1>1, <1>5, <1>7, ElementOfSeq DEF Top, Running, TInv, Linked, TypeOK
  <1>9. /\ Len(stack[n].open) \in Nat /\ Len(stack[n - 1].open) \in Nat
        /\ Len(stack[n - 1].open) # 0
    BY <1>8, EmptySeq, LenProperties DEF Sits, Frames
  <1>10. Len(w) > 0
    <2>1. /\ held[n] = held[n - 1] + Len(stack[n].open) /\ Len(w) = held[n]
          /\ held[n - 1] = held[(n - 1) - 1] + Len(stack[n - 1].open)
          /\ held[(n - 1) - 1] \in Nat
      BY <1>3, <1>5, <1>7 DEF HeldBy
    <2>2. \A a, b, c \in Nat : b # 0 => (a + b) + c > 0
      OBVIOUS
    <2> QED BY <1>9, <2>1, <2>2
  <1>11. Heights(nodes, B) /\ Len(w) = B[Len(nodes)] /\ B[0] = 0
    BY <1>4 DEF NestedBy, Stacked, Heights
  <1>12. nodes \in Seq(Pieces)
    BY <1>1, Types DEF Typed
  <1>13. Balance(1, Len(nodes)) = B[Len(nodes)] - B[0]
    <2>1. Len(nodes) \in Nat BY <1>12, LenProperties
    <2>2. \A m \in Nat : 1 \in 1..(m + 1) /\ m \in (1 - 1)..m
      OBVIOUS
    <2>3. \A b \in (1 - 1)..Len(nodes) : Balance(1, b) = B[b] - B[1 - 1]
      BY <1>11, <1>12, <2>1, <2>2, BalanceIs
    <2> QED BY <2>1, <2>2, <2>3
  <1>14. \A a \in Int : a > 0 => a - 0 > 0 OBVIOUS
  <1>15. Len(w) \in Int
    BY <1>4, LenProperties DEF NestedBy, Stacked
  <1> QED BY <1>10, <1>11, <1>13, <1>14, <1>15

\* In the tree of whatever page no word or tag is lost between the two parsers, but
\* for a text in an element whose first symbol is doubled, for the text up to the
\* symbol of ^layout, and for the end of an expression with blanks in it.
THEOREM WordsAreKept == Spec => []WordsKept
  <1>1. Init => IInv /\ BInv /\ WInv
    BY InitInv, InitNests, InitWords
  <1>2. IInv /\ BInv /\ WInv /\ [Next]_vars => IInv' /\ BInv' /\ WInv'
    BY NextInv, NextNests, NextWords, ChildrenOpened
  <1>3. IInv /\ BInv /\ WInv => WordsKept
    BY DEF WInv
  <1> QED BY <1>1, <1>2, <1>3, PTL DEF Spec

\* The optimizer loses nothing of the tree.
THEOREM OptimizerLosesNothing == Spec => OptimizerKeeps
  <1>1. Init => IInv /\ BInv /\ WInv
    BY InitInv, InitNests, InitWords
  <1>2. IInv /\ BInv /\ WInv /\ [Next]_vars => IInv' /\ BInv' /\ WInv'
    BY NextInv, NextNests, NextWords, ChildrenOpened
  <1>3. /\ IInv /\ WInv /\ [Next]_vars
        => [phase = "parsed" =>
              \A o \in 0..(Len(src) - 1) : Covered(o) => Covered(o)']_vars
    <2> SUFFICES ASSUME IInv, WInv, Next, phase = "parsed"
                 PROVE  \A o \in 0..(Len(src) - 1) : Covered(o) => Covered(o)'
      OBVIOUS
    <2>1. Compile BY Runs DEF Next, Over
    <2>2. nodes \in Seq(Pieces) /\ InOrder /\ Forward
      BY DEF IInv, TInv, TypeOK, Pieces, OInv, WInv
    <2> QED BY <2>1, <2>2, CompileHolds
  <1> QED BY <1>1, <1>2, <1>3, PTL DEF Spec, OptimizerKeeps

-----------------------------------------------------------------------------
(* A symbol acts: what follows it is not text.                             *)

LEMMA BareStays ==
  ASSUME nodes \in Seq(Pieces), Grown, src' = src
  PROVE  /\ \A o : At(o)' = At(o) /\ AfterBlock(o)' = AfterBlock(o) /\ AtEnd(o)' = AtEnd(o)
         /\ \A o : Bare(o)' => Bare(o)
         /\ \A n : Clear(n) => Clear(n)'
         /\ \A n : Honest(n) => Honest(n)'
  <1>1. \A o : At(o)' = At(o) BY DEF At
  <1>2. \A o : AfterBlock(o)' = AfterBlock(o) /\ Doubled(o)' = Doubled(o)
    BY <1>1 DEF AfterBlock, Doubled
  <1>3. \A o : (InText(o) => InText(o)') /\ Run(o)' = Run(o)
    BY GrowsOnly
  <1>4. \A o : AtEnd(o)' = AtEnd(o) /\ Paired(o)' = Paired(o)
    BY <1>1, <1>2, <1>3 DEF AtEnd, Paired, Markup
  <1>5. \A o : Bare(o)' => Bare(o)
    BY <1>1, <1>2, <1>3, <1>4 DEF Bare
  <1>6. \A n : Clear(n) => Clear(n)'
    BY <1>5 DEF Clear
  <1>7. \A a, b : Neat(a, b) => Neat(a, b)'
    BY <1>1, <1>4 DEF Neat
  <1> QED BY <1>1, <1>2, <1>4, <1>5, <1>6, <1>7 DEF Honest, Tellers, Texts

LEMMA ActedOn ==
  ASSUME nodes \in Seq(Pieces), Grown, src' = src, Acted, Told
  PROVE  Acted'
  <1>1. PICK more \in Seq(Pieces) :
          nodes' = nodes \o more /\ \A k \in DOMAIN more : Honest(more[k])'
    BY DEF Told
  <1>2. /\ Len(nodes) \in Nat /\ Len(more) \in Nat /\ DOMAIN nodes = 1..Len(nodes)
        /\ DOMAIN more = 1..Len(more)
    BY <1>1, LenProperties
  <1>3. nodes' \in Seq(Pieces) /\ Len(nodes') = Len(nodes) + Len(more)
        /\ \A k \in 1..(Len(nodes) + Len(more)) :
             nodes'[k] = IF k <= Len(nodes) THEN nodes[k] ELSE more[k - Len(nodes)]
    BY <1>1, ConcatProperties
  <1>4. DOMAIN nodes' = 1..(Len(nodes) + Len(more))
    BY <1>3, LenProperties
  <1>5. \A k \in DOMAIN nodes' : \/ k \in DOMAIN nodes /\ nodes'[k] = nodes[k]
                                 \/ k - Len(nodes) \in DOMAIN more /\ nodes'[k] = more[k - Len(nodes)]
    <2>1. \A m, n \in Nat : \A k \in 1..(m + n) :
            (k \in 1..m /\ k <= m) \/ (k - m \in 1..n /\ ~(k <= m))
      OBVIOUS
    <2> QED BY <1>2, <1>3, <1>4, <2>1
  <1>6. \A n : Honest(n) => Honest(n)' BY BareStays
  <1>7. \A k \in DOMAIN nodes : Honest(nodes[k])
    BY DEF Acted
  <1>8. ASSUME NEW k \in DOMAIN nodes', NEW n, n = nodes'[k] PROVE Honest(n)'
    <2>1. CASE k \in DOMAIN nodes /\ nodes'[k] = nodes[k]
      <3>1. Honest(n) BY <1>7, <1>8, <2>1
      <3> QED BY <1>6, <3>1
    <2>2. CASE k - Len(nodes) \in DOMAIN more /\ nodes'[k] = more[k - Len(nodes)]
      BY <1>1, <1>8, <2>2
    <2> QED BY <1>5, <2>1, <2>2
  <1>9. \A k \in DOMAIN nodes' :
          /\ nodes'[k].kind \in Tellers =>
               \A o \in 0..(Len(src) - 1)' : Bare(o)' => nodes'[k].from # o + 1
          /\ nodes'[k].kind \in Texts =>
               \A o \in nodes'[k].from..(nodes'[k].to - 1) : At(o)' = "^" => Paired(o)'
    BY <1>8 DEF Honest, Clear, Neat
  <1> QED BY <1>9 DEF Acted, Honest, Tellers, Texts, Clear, Neat

LEMMA ActsOn ==
  ASSUME Running, Acted, KeepsWords, Told, Seen', OverElse'
  PROVE  SInv'
  <1>1. nodes \in Seq(Pieces) /\ Grown /\ src' = src
    BY Types DEF Typed, KeepsWords
  <1>2. Acted' BY <1>1, ActedOn
  <1> QED BY <1>2 DEF SInv

\* A step that adds no node, or one.
LEMMA ToldNone ==
  ASSUME nodes \in Seq(Pieces), UNCHANGED nodes \/ Add(<<>>)
  PROVE  Told
  <1>1. <<>> \in Seq(Pieces) /\ DOMAIN <<>> = {}
    OBVIOUS
  <1>2. nodes \o <<>> = nodes BY ConcatEmptySeq
  <1>3. nodes' = nodes \o <<>> BY <1>2 DEF Add
  <1> DEFINE s == <<>>
  <1>4. s \in Seq(Pieces) /\ DOMAIN s = {} /\ nodes' = nodes \o s
    BY <1>1, <1>3
  <1> HIDE DEF s
  <1> QED BY <1>4 DEF Told

LEMMA ToldOne ==
  ASSUME NEW n \in Pieces, Add(<<n>>), Honest(n)'
  PROVE  Told
  <1> DEFINE s == <<n>>
  <1>1. s \in Seq(Pieces) /\ DOMAIN s = {1} /\ s[1] = n
    OBVIOUS
  <1>2. nodes' = nodes \o s BY DEF Add
  <1> HIDE DEF s
  <1>3. \A k \in DOMAIN s : Honest(s[k])'
    <2> TAKE k \in DOMAIN s
    <2>1. s[k] = n BY <1>1
    <2> QED BY <2>1
  <1> QED BY <1>1, <1>2, <1>3 DEF Told

LEMMA ToldTwo ==
  ASSUME NEW m \in Pieces, NEW n \in Pieces, Add(<<m, n>>), Honest(m)', Honest(n)'
  PROVE  Told
  <1> DEFINE s == <<m, n>>
  <1>1. s \in Seq(Pieces) /\ DOMAIN s = {1, 2} /\ s[1] = m /\ s[2] = n
    OBVIOUS
  <1>2. nodes' = nodes \o s BY DEF Add
  <1> HIDE DEF s
  <1>3. \A k \in DOMAIN s : Honest(s[k])'
    <2> TAKE k \in DOMAIN s
    <2>1. s[k] = m \/ s[k] = n BY <1>1
    <2> QED BY <2>1
  <1> QED BY <1>1, <1>2, <1>3 DEF Told

\* Frames on top of the callers, with the block under the frame for its else.
LEMMA OverRestacked ==
  ASSUME Running, OverElse, NEW s \in Seq(Frames), Len(s) >= 1, stack' = Callers \o s,
         Top.pc \in BlockPcs => s[1].pc \in BlockPcs,
         \A k \in 2..Len(s) : s[k - 1].pc = "else" => s[k].pc \in BlockPcs
  PROVE  OverElse'
  <1>1. ASSUME NEW k \in 2..Len(stack'), stack'[k - 1].pc = "else"
        PROVE  stack'[k].pc \in BlockPcs
    <2>2. CASE k \in 2..Len(stack) /\ stack'[k - 1] = stack[k - 1] /\ stack'[k] = stack[k]
      BY <1>1, <2>2 DEF OverElse
    <2>3. CASE /\ k \in 2..Len(stack) /\ k = Len(stack) /\ k # 1
               /\ stack'[k - 1] = stack[k - 1] /\ stack'[k] = s[1]
      BY <1>1, <2>3 DEF OverElse, Top
    <2>4. CASE \E j \in 2..Len(s) : stack'[k - 1] = s[j - 1] /\ stack'[k] = s[j]
      BY <1>1, <2>4
    <2> QED BY <2>2, <2>3, <2>4, Neighbours, ZenonT(60)
  <1> QED BY <1>1 DEF OverElse, BlockPcs

LEMMA OverStays == Running /\ OverElse /\ Stay => OverElse'
  BY DEF OverElse, Stay, BlockPcs

LEMMA OverReturns ==
  ASSUME Running, OverElse, Return
  PROVE  OverElse'
  <1>1. /\ Len(stack') = Len(stack) - 1 /\ Len(stack) \in Nat
        /\ \A k \in 1..(Len(stack) - 1) : stack'[k] = stack[k]
    BY Stack DEF Return
  <1>2. \A n \in Nat : \A k \in 2..(n - 1) : k \in 2..n /\ k \in 1..(n - 1) /\ k - 1 \in 1..(n - 1)
    OBVIOUS
  <1>3. \A k \in 2..Len(stack') : k \in 2..Len(stack) /\ stack'[k] = stack[k]
                                  /\ stack'[k - 1] = stack[k - 1]
    BY <1>1, <1>2
  <1> QED BY <1>3 DEF OverElse, BlockPcs

LEMMA OverBecomes ==
  ASSUME Running, OverElse, TInv', NEW f, Become(f), Top.pc \in BlockPcs => f.pc \in BlockPcs
  PROVE  OverElse' /\ Top' = f /\ f \in Frames
  <1>1. Callers \in Seq(Frames) /\ stack' \in Seq(Frames) /\ stack' = Append(Callers, f)
    BY Stack DEF Become, TInv, TypeOK
  <1>2. f \in Frames /\ Callers \o <<f>> = stack'
    BY <1>1, LastAdded
  <1> DEFINE s == <<f>>
  <1>3. s \in Seq(Frames) /\ Len(s) = 1 /\ s[1] = f /\ stack' = Callers \o s
    BY <1>2
  <1>4. ~\E k \in 2..1 : TRUE OBVIOUS
  <1>5. Top' = f
    <2>1. Len(stack') = Len(Callers) + 1 /\ stack'[Len(Callers) + 1] = f
      BY <1>1, <1>2, AppendProperties
    <2> QED BY <2>1 DEF Top
  <1> HIDE DEF s
  <1>6. OverElse'
    <2>1. \A k \in 2..Len(s) : s[k - 1].pc = "else" => s[k].pc \in BlockPcs
      BY <1>3, <1>4
    <2>2. Len(s) >= 1 BY <1>3
    <2> QED BY <1>3, <2>1, <2>2, OverRestacked
  <1> QED BY <1>2, <1>5, <1>6

LEMMA OverCalls ==
  ASSUME Running, OverElse, TInv', NEW f, NEW b, Call(f, b),
         Top.pc \in BlockPcs => b.pc \in BlockPcs, b.pc = "else" => f.pc \in BlockPcs
  PROVE  OverElse' /\ Top' = f
  <1>1. Callers \in Seq(Frames) /\ stack' \in Seq(Frames) /\ stack' = Callers \o <<b, f>>
    BY Stack DEF Call, TInv, TypeOK
  <1>2. f \in Frames /\ b \in Frames /\ stack' = Append(Append(Callers, b), f)
    BY <1>1, TwoAdded
  <1> DEFINE s == <<b, f>>
  <1>3. s \in Seq(Frames) /\ Len(s) = 2 /\ s[1] = b /\ s[2] = f /\ stack' = Callers \o s
    BY <1>1, <1>2
  <1>4. \A k \in 2..2 : k = 2 /\ k - 1 = 1 OBVIOUS
  <1>5. Top' = f
    <2>1. Append(Callers, b) \in Seq(Frames)
      BY <1>1, <1>2, AppendProperties
    <2>2. /\ Len(stack') = Len(Append(Callers, b)) + 1
          /\ stack'[Len(Append(Callers, b)) + 1] = f
      BY <1>2, <2>1, AppendProperties
    <2> QED BY <2>2 DEF Top
  <1> HIDE DEF s
  <1>6. OverElse'
    <2>1. \A k \in 2..Len(s) : s[k - 1].pc = "else" => s[k].pc \in BlockPcs
      BY <1>3, <1>4
    <2>2. Len(s) >= 1 BY <1>3
    <2> QED BY <1>3, <2>1, <2>2, OverRestacked
  <1> QED BY <1>5, <1>6

LEMMA SeenElsewhere == Top'.pc \notin TextPcs => Seen'
  BY DEF Seen, TextPcs

LEMMA SeenPassed == Top'.pc \in {"document", "attribute", "resume", "after"} /\ Clear(offset)' => Seen'
  BY DEF Seen

LEMMA SeenRead ==
  ASSUME src' = src, offset' \in Nat, At(offset' - 1) # "^",
         Top'.pc \notin {"children", "alt", "else"}
  PROVE  Seen' /\ Clear(offset)'
  <1>1. \A o : At(o)' = At(o) BY DEF At
  <1>2. ASSUME NEW o \in 0..(Len(src) - 1)', Bare(o)' PROVE offset' # o + 1
    <2>1. At(o) = "^" BY <1>1, <1>2 DEF Bare
    <2>2. \A a \in Nat : \A d \in Int : a = d + 1 => a - 1 = d
      OBVIOUS
    <2>3. o \in Int OBVIOUS
    <2> QED BY <2>1, <2>2, <2>3
  <1>3. Clear(offset)' BY <1>2 DEF Clear
  <1>4. At(offset - 1)' # "^" BY DEF At
  <1> QED BY <1>3, <1>4 DEF Seen

\* What has been read over is the token.
LEMMA ReadsPast ==
  ASSUME Running, Top.pc \in CodePcs, Advance \/ Sync
  PROVE  /\ offset' \in Nat
         /\ Look # "^" => At(offset' - 1) # "^"
         /\ Look \notin {";", "EOF"} => offset' = LookAt + 1 /\ At(offset' - 1) = Look
  <1>1. /\ LookAt \in Nat /\ Len(src) \in Nat /\ src \in Seq(Lexemes)
    BY Types DEF Typed
  <1>2. offset' = LookAt + Width(Look)
    BY DEF Advance, Sync, LookAt
  <1>3. Width(Look) \in Nat /\ Width(Look) >= 1
    BY LookIs
  <1>4. CASE LookAt < Len(src)
    <2>1. Width(Look) = 1 /\ Look = IF At(LookAt) = "\n" THEN ";" ELSE At(LookAt)
      BY <1>4, LookIs DEF GoodLook
    <2>4. offset' = LookAt + 1 BY <1>2, <2>1
    <2>2. offset' \in Nat /\ offset' - 1 = LookAt
      BY <1>1, <2>4
    <2>3. At(offset' - 1) = At(LookAt) BY <2>2
    <2> QED BY <2>1, <2>2, <2>3, <2>4
  <1>5. CASE LookAt = Len(src)
    <2>1. offset' \in Nat /\ offset' - 1 \notin 0..(Len(src) - 1)
      BY <1>1, <1>2, <1>3, <1>5
    <2>2. At(offset' - 1) = "" BY <2>1 DEF At
    <2>3. Look \in {";", "EOF"}
      BY <1>5, LookIs DEF GoodLook
    <2> QED BY <2>1, <2>2, <2>3
  <1> QED BY <1>4, <1>5, LookIs

LEMMA FramePcs ==
  /\ \A pc : Frame(pc).pc = pc
  /\ \A pc, n, d : [Frame(pc) EXCEPT !.from = n, !.depth = d].pc = pc
  /\ \A pc, n : [Frame(pc) EXCEPT !.from = n].pc = pc
  /\ \A pc, n, m : [Frame(pc) EXCEPT !.from = n, !.end = m].pc = pc
  /\ \A g \in Frames : \A d : [g EXCEPT !.depth = d].pc = g.pc
  /\ \A g \in Frames : \A pc, n : [g EXCEPT !.pc = pc, !.end = n].pc = pc
  <1>1. ASSUME NEW P, NEW S, NEW h \in [pc : P, open : S, from : Nat, end : Nat, depth : Int]
        PROVE  /\ \A d : [h EXCEPT !.depth = d].pc = h.pc
               /\ \A pc, n : [h EXCEPT !.pc = pc, !.end = n].pc = pc
    OBVIOUS
  <1>2. /\ \A pc : Frame(pc).pc = pc
        /\ \A pc, n, d : [Frame(pc) EXCEPT !.from = n, !.depth = d].pc = pc
        /\ \A pc, n : [Frame(pc) EXCEPT !.from = n].pc = pc
        /\ \A pc, n, m : [Frame(pc) EXCEPT !.from = n, !.end = m].pc = pc
    BY DEF Frame
  <1> QED BY <1>1, <1>2 DEF Frames

\* The frame that runs becomes f, with the token read.
LEMMA StepSees ==
  ASSUME Running, OverElse, TInv', src' = src, Top.pc \in CodePcs, Advance, NEW f, Become(f),
         Top.pc \in BlockPcs => f.pc \in BlockPcs, f.pc \notin {"children", "alt", "else"},
         Look # "^" \/ f.pc \notin TextPcs
  PROVE  Sees
  <1>1. OverElse' /\ Top' = f BY OverBecomes
  <1>2. offset' \in Nat /\ (Look # "^" => At(offset' - 1) # "^")
    BY ReadsPast
  <1> QED BY <1>1, <1>2, SeenRead, SeenElsewhere DEF Sees

\* It becomes f without.
LEMMA ShiftSees ==
  ASSUME Running, OverElse, TInv', NEW f, Become(f),
         Top.pc \in BlockPcs => f.pc \in BlockPcs, f.pc \notin TextPcs
  PROVE  Sees
  BY OverBecomes, SeenElsewhere DEF Sees

\* Only a block returns to the frame for its else.
LEMMA ReturnsTo ==
  ASSUME Running, OverElse, Top.pc \in CodePcs \ BlockPcs, Return
  PROVE  Top'.pc \in {"document", "attribute", "resume", "after"}
  <1>1. Top.pc \notin {"document", "attribute"}
    BY PcNames DEF CodePcList
  <1>2. Top' = stack[Len(stack) - 1] /\ Top'.pc \in Callables /\ Len(stack) >= 2
    BY <1>1, Returns, BelowCode
  <1>3. Len(stack) \in 2..Len(stack) BY <1>2, Stack
  <1>4. Top'.pc # "else"
    BY <1>2, <1>3 DEF OverElse, Top
  <1> QED BY <1>2, <1>4 DEF Callables

LEMMA ReturnSees ==
  ASSUME Running, OverElse, src' = src, Top.pc \in CodePcs \ BlockPcs, Return,
         Clear(offset)' \/ (offset' \in Nat /\ At(offset' - 1) # "^")
  PROVE  Sees
  <1>1. Top'.pc \in {"document", "attribute", "resume", "after"}
    BY ReturnsTo
  <1>2. OverElse' BY OverReturns
  <1>3. Seen' BY <1>1, SeenPassed, SeenRead
  <1> QED BY <1>2, <1>3 DEF Sees

LEMMA CodedTold ==
  ASSUME Running, nodes' \in Seq(Pieces), Coded
  PROVE  Told
  <1>1. nodes \in Seq(Pieces) BY Types DEF Typed
  <1>2. CASE UNCHANGED nodes
    BY <1>1, <1>2, ToldNone
  <1>3. ASSUME NEW kind \in {"expr", "code", "import", "name"}, NEW a, NEW b,
               Add(<<Node(kind, a, b)>>)
        PROVE  Told
    <2> DEFINE n == Node(kind, a, b)
    <2>1. n.kind \notin Tellers /\ n.kind \notin Texts
      BY DEF Node, Tellers, Texts
    <2>2. n \in Pieces
      BY <1>1, <1>3, LastAdded DEF Add
    <2> HIDE DEF n
    <2>3. Honest(n)'
      BY <2>1 DEF Honest, Tellers, Texts
    <2> QED BY <1>3, <2>2, <2>3, ToldOne DEF n
  <1> QED BY <1>2, <1>3 DEF Coded

LEMMA NoFailure ==
  ASSUME phase' = "run"
  PROVE  ~Fail /\ ~Stop("crashed") /\ \A pc, S : ~Fails(pc, S) /\ ~FailsBut(pc, S)
  BY DEF Fails, FailsBut, Fail, Stop

LEMMA CodeAdds ==
  ASSUME phase' = "run", CodeStep, ~BlockMarkup
  PROVE  Coded
  <1>1. ~Fail /\ ~Stop("crashed") BY NoFailure
  <1>2. \A pc, S : ~Fails(pc, S) /\ ~FailsBut(pc, S)
    BY NoFailure
  <1>3. \A pc, S : Step(pc, S) => Coded
    BY DEF Step, Coded
  <1>4. \A a, b : /\ Found("expr", a, b) => Coded
                  /\ Found("code", a, b) => Coded
                  /\ Found("import", a, b) => Coded
                  /\ Found("name", a, b) => Coded
    BY DEF Found, Coded
  <1>5. UNCHANGED nodes => Coded BY DEF Coded
  <1>6. Keyword \/ Handler \/ Block \/ BlockEnd => Coded
    BY <1>2, <1>3 DEF Keyword, Handler, Block, BlockEnd
  <1>7. BlockCode \/ Else => Coded
    BY <1>2, <1>3, <1>5 DEF BlockCode, Else
  <1>8. \A pc \in Scans : ScanToken(pc) => Coded
    BY <1>2, <1>5 DEF ScanToken
  <1>9. CondDone \/ ClauseDone \/ CodeDone("code") \/ CodeDone("handling") \/ ExprDone => Coded
    BY <1>1, <1>4 DEF CondDone, ClauseDone, CodeDone, ExprDone
  <1>10. Import \/ NamedBlock("section") \/ NamedBlock("partial") => Coded
    BY <1>2, <1>3, <1>4 DEF Import, NamedBlock
  <1>11. Arguments("call") \/ Arguments("index") \/ Period \/ NameDone => Coded
    BY <1>1, <1>2, <1>3, <1>4, <1>5 DEF Arguments, Period, NameDone
  <1> QED BY <1>6, <1>7, <1>8, <1>9, <1>10, <1>11 DEF CodeStep

LEMMA KeywordSees ==
  ASSUME Running, OverElse, TInv', Keyword, phase' = "run"
  PROVE  Sees
  <1>1. \A pc, S : ~FailsBut(pc, S) BY NoFailure
  <1>2. Top.pc = "keyword" /\ Top.pc \in CodePcs /\ Top.pc \notin BlockPcs
    BY <1>1, PcNames DEF Keyword, Step, In, CodePcList, BlockPcs
  <1>3. Advance /\ src' = src
    BY <1>1 DEF Keyword, Step, Code
  <1>4. \A S : Step("keyword", S) => Look \in S
    BY DEF Step
  <1>5. Look \in Idents \cup {"import", "if", "for", "{", "("}
    BY <1>1, <1>4 DEF Keyword, Idents
  <1>6. Look # "^" BY <1>5, IdentsAre
  <1>7. ASSUME NEW f, Become(f), f.pc \notin {"children", "alt", "else"} PROVE Sees
    BY <1>2, <1>3, <1>6, <1>7, StepSees
  <1>8. \A pc \in {"cond", "clause", "code", "expr"} : Scanning(pc) => Sees
    <2> TAKE pc \in {"cond", "clause", "code", "expr"}
    <2> DEFINE f == [Frame(pc) EXCEPT !.from = code'.base + code'.look.at, !.depth = 1]
    <2>1. f.pc = pc BY FramePcs
    <2>2. Scanning(pc) => Become(f) BY DEF Scanning
    <2> HIDE DEF f
    <2> QED BY <1>7, <2>1, <2>2
  <1>9. \A pc \in {"handler", "section", "partial", "import"} : Become(Frame(pc)) => Sees
    <2> TAKE pc \in {"handler", "section", "partial", "import"}
    <2> DEFINE f == Frame(pc)
    <2>1. f.pc = pc BY FramePcs
    <2> HIDE DEF f
    <2> QED BY <1>7, <2>1 DEF f
  <1>10. \A pc \in {"named", "name"} : \A n, m :
           Become([Frame(pc) EXCEPT !.from = n, !.end = m]) => Sees
    <2> TAKE pc \in {"named", "name"}
    <2> TAKE n, m
    <2> DEFINE f == [Frame(pc) EXCEPT !.from = n, !.end = m]
    <2>1. f.pc = pc BY FramePcs
    <2> HIDE DEF f
    <2> QED BY <1>7, <2>1 DEF f
  <1>11. CASE Step("keyword", {"handler", "section", "partial", "import"}) /\ Become(Frame(Look))
    BY <1>4, <1>9, <1>11
  <1>12. CASE Step("keyword", Idents \ {"handler", "section", "partial"})
              /\ LET at == TokenOffset(code.look)
                 IN Become([Frame(IF At(at + 1) \in Blanks THEN "named" ELSE "name")
                              EXCEPT !.from = at, !.end = at + 1])
    BY <1>10, <1>12
  <1> QED BY <1>1, <1>8, <1>11, <1>12 DEF Keyword

\* A step that leads to a scan.
LEMMA ScanSees ==
  ASSUME Running, OverElse, TInv', src' = src, Top.pc \in CodePcs \ BlockPcs, Advance,
         NEW pc \in Scans, Scanning(pc)
  PROVE  Sees
  <1> DEFINE f == [Frame(pc) EXCEPT !.from = code'.base + code'.look.at, !.depth = 1]
  <1>1. f.pc = pc BY FramePcs
  <1>2. Become(f) BY DEF Scanning
  <1>3. pc \notin TextPcs BY PcNames DEF TextPcs
  <1>4. pc \notin {"children", "alt", "else"}
    BY <1>3 DEF TextPcs
  <1> HIDE DEF f
  <1> QED BY <1>1, <1>2, <1>3, <1>4, StepSees

LEMMA ScanTokenSees ==
  ASSUME Running, OverElse, TInv', NEW pc \in Scans, ScanToken(pc), phase' = "run"
  PROVE  Sees
  <1>1. /\ Top.pc = pc /\ Advance /\ src' = src
        /\ Become([Top EXCEPT !.depth = Depth(pc)])
    BY NoFailure DEF ScanToken, In, Code
  <1> DEFINE f == [Top EXCEPT !.depth = Depth(pc)]
  <1>2. f.pc = pc BY <1>1, Stack, FramePcs
  <1>3. pc \in CodePcs /\ pc \notin TextPcs /\ pc \notin BlockPcs
    BY PcNames DEF TextPcs, BlockPcs, CodePcList
  <1>4. pc \notin {"children", "alt", "else"}
    BY <1>3 DEF TextPcs
  <1> HIDE DEF f
  <1>5. Become(f) BY <1>1 DEF f
  <1> QED BY <1>1, <1>2, <1>3, <1>4, <1>5, StepSees

\* Frames of code that is not a block.
LEMMA CodeFrames ==
  \A pc \in {"cond", "clause", "code", "handling", "expr", "keyword", "import", "path",
            "handler", "section", "partial", "else", "alt", "alternative", "elseif",
            "name", "named", "member", "call", "index"} : pc \in CodePcs \ BlockPcs
  BY PcNames DEF CodePcList, BlockPcs

LEMMA ScannedSees ==
  ASSUME Running, OverElse, TInv', phase' = "run",
         CondDone \/ ClauseDone \/ ExprDone \/ CodeDone("code") \/ CodeDone("handling")
  PROVE  Sees
  <1>1. CASE CondDone
    <2>1. Top.pc = "cond" /\ Call(Frame("block"), Frame("else"))
      BY <1>1, NoFailure DEF CondDone, Closed, In
    <2>2. Top.pc \notin BlockPcs /\ "block" \in BlockPcs /\ "block" \notin TextPcs
      BY <2>1 DEF BlockPcs, TextPcs
    <2> DEFINE f == Frame("block")
               b == Frame("else")
    <2>3. f.pc = "block" /\ Call(f, b)
      BY <2>1, FramePcs
    <2> HIDE DEF f, b
    <2> QED BY <2>2, <2>3, OverCalls, SeenElsewhere DEF Sees
  <1>2. CASE ClauseDone
    <2>1. Top.pc = "clause" /\ Become(Frame("block"))
      BY <1>2, NoFailure DEF ClauseDone, Closed, In
    <2>2. Top.pc \notin BlockPcs /\ "block" \notin TextPcs
      BY <2>1 DEF BlockPcs, TextPcs
    <2> DEFINE f == Frame("block")
    <2>3. f.pc = "block" /\ Become(f)
      BY <2>1, FramePcs
    <2> HIDE DEF f
    <2> QED BY <2>2, <2>3, ShiftSees
  <1>3. CASE ExprDone
    <2>1. Top.pc = "expr" /\ Look = ")" /\ Sync /\ Return /\ src' = src
      BY <1>3, NoFailure DEF ExprDone, Closed, In, Closer, Found, Code
    <2> QED BY <2>1, CodeFrames, ReadsPast, ReturnSees
  <1>4. CASE CodeDone("code")
    <2>1. Top.pc = "code" /\ Look = "}" /\ Advance /\ Return /\ src' = src
      BY <1>4, NoFailure DEF CodeDone, Closed, In, Closer, Found, Code
    <2> QED BY <2>1, CodeFrames, ReadsPast, ReturnSees
  <1>5. CASE CodeDone("handling")
    <2>1. Top.pc = "handling" /\ Look = "}" /\ Advance /\ Return /\ src' = src
      BY <1>5, NoFailure DEF CodeDone, Closed, In, Closer, Found, Code
    <2> QED BY <2>1, CodeFrames, ReadsPast, ReturnSees
  <1> QED BY <1>1, <1>2, <1>3, <1>4, <1>5

LEMMA ImportSees ==
  ASSUME Running, Seen, OverElse, TInv', phase' = "run", Import
  PROVE  Sees
  <1>1. CASE In("import") /\ Look = "str" /\ Advance /\ Return /\ Code
    BY <1>1, CodeFrames, ReadsPast, ReturnSees DEF In, Code
  <1>2. CASE /\ Step("import", Idents \cup {"."})
             /\ Become([Frame("path") EXCEPT !.from = TokenOffset(code.look)])
    <2>1. Top.pc = "import" /\ Advance /\ src' = src /\ Look \in Idents \cup {"."}
      BY <1>2 DEF Step, In, Code
    <2>2. Look # "^" BY <2>1, IdentsAre
    <2> DEFINE f == [Frame("path") EXCEPT !.from = TokenOffset(code.look)]
    <2>3. f.pc = "path" BY FramePcs
    <2> HIDE DEF f
    <2>4. Become(f) BY <1>2 DEF f
    <2> QED BY <2>1, <2>2, <2>3, <2>4, CodeFrames, StepSees
  <1>3. CASE In("path") /\ Return /\ UNCHANGED offset /\ Code
    <2>1. Top.pc = "path" /\ src' = src /\ Return /\ offset' = offset
      BY <1>3 DEF In, Code
    <2>2. At(offset' - 1) # "^" /\ offset' \in Nat
      BY <2>1, Types DEF Seen, Typed
    <2> QED BY <2>1, <2>2, CodeFrames, ReturnSees
  <1> QED BY <1>1, <1>2, <1>3, NoFailure DEF Import, Found

LEMMA HandlerSees ==
  ASSUME Running, OverElse, TInv', phase' = "run", Handler
  PROVE  Sees
  <1>1. Top.pc = "handler" /\ Advance /\ src' = src /\ Scanning("handling")
    BY NoFailure DEF Handler, Step, In, Code
  <1> QED BY <1>1, CodeFrames, PcNames, ScanSees

LEMMA NamedBlockSees ==
  ASSUME Running, OverElse, TInv', phase' = "run", NEW pc \in {"section", "partial"}, NamedBlock(pc)
  PROVE  Sees
  <1>1. Top.pc = pc /\ Advance /\ src' = src /\ Become(Frame("block"))
    BY NoFailure DEF NamedBlock, In, Found, Code
  <1> DEFINE f == Frame("block")
  <1>2. f.pc = "block" BY FramePcs
  <1>3. "block" \notin TextPcs BY DEF TextPcs
  <1> HIDE DEF f
  <1>4. Become(f) BY <1>1 DEF f
  <1> QED BY <1>1, <1>2, <1>3, <1>4, CodeFrames, StepSees

LEMMA BlockSees ==
  ASSUME Running, OverElse, TInv', phase' = "run", Block \/ BlockCode
  PROVE  Sees
  <1>1. \A pc \in BlockPcs : pc \in CodePcs
    BY PcNames DEF BlockPcs, CodePcList
  <1>2. ASSUME NEW pc \in BlockPcs, NEW next \in BlockPcs, Top.pc = pc, Advance, src' = src,
               Become(Frame(next)), Look # "^" \/ next # "body"
        PROVE  Sees
    <2> DEFINE f == Frame(next)
    <2>1. f.pc = next BY FramePcs
    <2>2. next \notin {"children", "alt", "else"} /\ (next # "body" => next \notin TextPcs)
      BY DEF BlockPcs, TextPcs
    <2> HIDE DEF f
    <2>3. Become(f) BY <1>2 DEF f
    <2> QED BY <1>1, <1>2, <2>1, <2>2, <2>3, StepSees
  <1>3. CASE Step("block", {"{"}) /\ Become(Frame("body"))
    BY <1>2, <1>3 DEF Step, In, Code, BlockPcs
  <1>4. CASE Step("after", {";"}) /\ Become(Frame("close"))
    BY <1>2, <1>4 DEF Step, In, Code, BlockPcs
  <1>5. CASE Step("body", {"^"}) /\ Call(Frame("keyword"), Frame("after"))
    <2> DEFINE f == Frame("keyword")
               b == Frame("after")
    <2>1. f.pc = "keyword" /\ b.pc = "after" /\ Call(f, b)
      BY <1>5, FramePcs
    <2> HIDE DEF f, b
    <2> QED BY <2>1, OverCalls, SeenElsewhere DEF Sees, BlockPcs, TextPcs
  <1>6. CASE In("after") /\ Become(Frame("close"))
    <2> DEFINE f == Frame("close")
    <2>1. f.pc = "close" /\ Become(f)
      BY <1>6, FramePcs
    <2> HIDE DEF f
    <2> QED BY <2>1, ShiftSees DEF BlockPcs, TextPcs
  <1> QED BY <1>3, <1>4, <1>5, <1>6, NoFailure DEF Block, BlockCode
\* Where a newline would end the statement, only spaces are skipped.
LEMMA Sums ==
  /\ \A x, y \in Nat : x - y \in Int /\ x + 1 \in Nat
  /\ \A x, y, z \in Nat : \A v, w : v = x + y /\ w = x + z => v + 1 = x + y + 1 /\ w - 1 = x + z - 1
  OBVIOUS

LEMMA BeforeLeast ==
  \A x \in Nat, y \in Int : \A z \in x..y : \A d \in x..(z - 1) : d \in x..y /\ ~(z <= d)
  OBVIOUS

LEMMA ScanSpaces ==
  ASSUME src \in Seq(Lexemes), NEW b \in Nat, NEW o \in Nat, NEW t \in Scan(b, o, TRUE)
  PROVE  \A d \in o..(t.at - 1) : At(b + d) = " "
  <1> DEFINE S == {d \in o..(Len(src) - b) :
                     At(b + d) \notin (IF TRUE THEN {" "} ELSE Blanks)}
  <1>0. PICK k \in Least(S) :
          t = [tok |-> IF At(b + k) = "\n" THEN ";"
                       ELSE IF At(b + k) # "" THEN At(b + k)
                       ELSE IF TRUE THEN ";" ELSE "EOF",
               at  |-> k]
    BY DEF Scan
  <1>1. t.at = k BY <1>0
  <1>2. t.at \in S /\ \A d \in S : t.at <= d
    BY <1>0, <1>1 DEF Least
  <1>3. Len(src) - b \in Int
    <2>1. Len(src) \in Nat BY SourceLexemes
    <2> QED BY <2>1, Sums
  <1> DEFINE n == Len(src) - b
  <1>4. t.at \in o..n BY <1>2
  <1>5. \A d \in o..n : ~(t.at <= d) => At(b + d) = " "
    BY <1>2
  <1>6. n \in Int BY <1>3
  <1> HIDE DEF S, n
  <1> QED BY <1>4, <1>5, <1>6, BeforeLeast

LEMMA SpanShift ==
  ASSUME NEW x \in Nat, NEW y \in Nat, NEW z \in Nat, NEW v, NEW w, v = x + y, w = x + z
  PROVE  \A e \in (v + 1)..(w - 1) : e - x \in (y + 1)..(z - 1) /\ x + (e - x) = e
  OBVIOUS

LEMMA SpacesAfter ==
  ASSUME Running, Top.pc \in CodePcs, Look = "}", Advance
  PROVE  \A e \in (LookAt + 1)..(LookAt' - 1) : At(e) = " "
  <1> DEFINE b == code.base
             a == code.look.at
  <1>1. /\ b \in Nat /\ a \in Nat /\ LookAt = b + a /\ src \in Seq(Lexemes) /\ code \in GoParsers
    BY Types DEF Typed
  <1>2. LookAt < Len(src) BY LookIs
  <1>3. PICK t \in NextTokens : code' = [code EXCEPT !.look = t, !.acc = code.look]
    BY DEF Advance
  <1>4. t \in Scan(b, a + 1, TRUE) /\ a + 1 \in Nat
    <2>1. InsertsSemi(Look) = TRUE
      BY DEF InsertsSemi
    <2>2. b + a < Len(src) BY <1>1, <1>2
    <2>3. NextTokens = Scan(b, a + 1, TRUE)
      BY <2>1, <2>2 DEF NextTokens
    <2>4. t \in NextTokens BY <1>3
    <2>5. a + 1 \in Nat
      <3>1. a \in Nat BY <1>1
      <3> HIDE DEF a
      <3> QED BY <3>1, Sums
    <2> QED BY <2>3, <2>4, <2>5
  <1>5. \A d \in (a + 1)..(t.at - 1) : At(b + d) = " "
    BY <1>1, <1>4, ScanSpaces
  <1>6. code'.base = b /\ code'.look = t
    BY <1>1, <1>3 DEF GoParsers
  <1>7. LookAt' = b + t.at
    BY <1>6 DEF LookAt, TokenOffset
  <1>8. t.at \in Nat
    BY <1>1, <1>4, ScanFinds, ZenonT(60) DEF GoTokens
  <1> HIDE DEF a, b
  <1>10. PICK x \in Nat, y \in Nat, z \in Nat : x = b /\ y = a /\ z = t.at
    BY <1>1, <1>8 DEF a, b
  <1>11. /\ \A d \in (y + 1)..(z - 1) : At(x + d) = " "
         /\ LookAt = x + y /\ LookAt' = x + z
    BY <1>1, <1>5, <1>7, <1>10 DEF a, b
  <1>12. PICK v, w : v = LookAt /\ w = LookAt'
    OBVIOUS
  <1>13. v = x + y /\ w = x + z BY <1>11, <1>12
  <1>14. \A e \in (v + 1)..(w - 1) : e - x \in (y + 1)..(z - 1) /\ x + (e - x) = e
    BY ONLY <1>10, <1>13, SpanShift
  <1>15. ASSUME NEW e \in (v + 1)..(w - 1) PROVE At(e) = " "
    <2> DEFINE d == e - x
    <2>1. d \in (y + 1)..(z - 1) /\ x + d = e
      BY <1>14
    <2> HIDE DEF d
    <2> QED BY <1>11, <2>1
  <1> QED BY <1>12, <1>15

LEMMA BlockEndSees ==
  ASSUME Running, OverElse, TInv', phase' = "run", BlockEnd
  PROVE  Sees
  <1>1. Top.pc = "close" /\ Top.pc \in CodePcs /\ Look = "}" /\ Advance /\ Return /\ src' = src
    BY NoFailure, PcNames DEF BlockEnd, Step, In, Code, CodePcList
  <1>2. offset' = LookAt + 1 /\ offset' \in Nat /\ At(offset' - 1) = "}"
    BY <1>1, ReadsPast
  <1>3. OverElse' BY <1>1, OverReturns
  <1>4. Top'.pc \in Callables
    <2>1. Top.pc \notin {"document", "attribute"}
      BY <1>1
    <2> QED BY <1>1, <2>1, Returns, BelowCode
  <1>5. CASE Top'.pc # "else"
    <2>1. Top'.pc \notin {"children", "alt", "else"}
      BY <1>4, <1>5 DEF Callables
    <2> QED BY <1>1, <1>2, <1>3, <2>1, SeenRead DEF Sees
  <1>6. CASE Top'.pc = "else"
    <2>1. \A e \in offset'..(LookAt' - 1) : At(e) = " "
      BY <1>1, <1>2, SpacesAfter
    <2>2. (\A e \in offset..(LookAt - 1) : At(e) = " ")'
      BY <1>1, <2>1 DEF At
    <2>3. At(offset - 1)' = "}" BY <1>1, <1>2 DEF At
    <2> QED BY <1>3, <1>6, <2>2, <2>3 DEF Sees, Seen
  <1> QED BY <1>5, <1>6

\* The symbol that may precede else is one after a block.
LEMMA AfterElse ==
  ASSUME Running, Seen, Top.pc = "else", Look = "^"
  PROVE  AfterBlock(LookAt)
  <1>1. /\ At(offset - 1) = "}" /\ \A e \in offset..(LookAt - 1) : At(e) = " "
    BY DEF Seen
  <1>2. Top.pc \in CodePcs BY CodeFrames
  <1>3. /\ offset \in Nat /\ LookAt \in Nat /\ src \in Seq(Lexemes) /\ Len(src) \in Nat
        /\ offset <= LookAt + 1 /\ At(LookAt) = "^"
    BY <1>2, Types, AtCode, LookIs DEF Typed
  <1>4. offset - 1 # LookAt BY <1>1, <1>3
  <1>5. offset - 1 \in 0..(Len(src) - 1)
    <2>1. offset - 1 \in Int BY <1>3
    <2> QED BY <1>1, <1>3, <2>1, SourceLexemes
  <1>6. offset - 1 \in 0..(LookAt - 1) /\ (offset - 1) + 1 = offset
    BY <1>3, <1>4, <1>5
  <1> DEFINE b == offset - 1
  <1>7. b \in 0..(LookAt - 1) /\ At(b) = "}" /\ \A e \in (b + 1)..(LookAt - 1) : At(e) = " "
    BY <1>1, <1>6
  <1> HIDE DEF b
  <1> QED BY <1>7 DEF AfterBlock

\* What follows the end of a block, or a symbol after it, is not right behind a
\* lost symbol.
LEMMA ElseClear ==
  ASSUME Running, Seen, Top.pc \in {"else", "alt"}
  PROVE  Clear(offset)
  <1>1. ASSUME NEW o \in 0..(Len(src) - 1), Bare(o), offset = o + 1 PROVE FALSE
    <2>1. offset - 1 = o BY <1>1
    <2> QED BY <1>1, <2>1 DEF Seen, Bare
  <1> QED BY <1>1 DEF Clear

LEMMA ElseSees ==
  ASSUME Running, Seen, OverElse, TInv', phase' = "run", Grown, Else
  PROVE  Sees
  <1>1. CASE Step("else", {"^"}) /\ Become(Frame("alt"))
    <2>1. Top.pc = "else" /\ Look = "^" /\ Advance /\ src' = src /\ Top.pc \in CodePcs
      BY <1>1, CodeFrames DEF Step, In, Code
    <2>2. AfterBlock(LookAt) /\ offset' = LookAt + 1 /\ LookAt \in Nat
      BY <2>1, AfterElse, ReadsPast, Types
    <2>3. offset' - 1 = LookAt BY <2>2
    <2>4. AfterBlock(offset - 1)'
      BY <2>1, <2>2, <2>3 DEF AfterBlock, At
    <2> DEFINE f == Frame("alt")
    <2>5. f.pc = "alt" /\ Become(f)
      BY <1>1, FramePcs
    <2> HIDE DEF f
    <2>6. OverElse' /\ Top'.pc = "alt"
      BY <2>1, <2>5, OverBecomes, CodeFrames
    <2> QED BY <2>4, <2>6 DEF Sees, Seen
  <1>2. CASE Step("alt", {"else"}) /\ Become(Frame("alternative"))
    <2> DEFINE f == Frame("alternative")
    <2>1. f.pc = "alternative" /\ Become(f)
      BY <1>2, FramePcs
    <2> HIDE DEF f
    <2> QED BY <1>2, <2>1, StepSees, CodeFrames DEF Step, In, Code
  <1>3. CASE Step("alternative", {"^"}) /\ Become(Frame("elseif"))
    <2> DEFINE f == Frame("elseif")
    <2>1. f.pc = "elseif" /\ Become(f)
      BY <1>3, FramePcs
    <2>2. "elseif" \notin TextPcs BY DEF TextPcs
    <2> HIDE DEF f
    <2> QED BY <1>3, <2>1, <2>2, StepSees, CodeFrames DEF Step, In, Code
  <1>4. CASE In("alternative") /\ Become(Frame("block"))
    <2> DEFINE f == Frame("block")
    <2>1. f.pc = "block" /\ Become(f)
      BY <1>4, FramePcs
    <2>2. "block" \notin TextPcs BY DEF TextPcs
    <2> HIDE DEF f
    <2> QED BY <1>4, <2>1, <2>2, ShiftSees, CodeFrames DEF In
  <1>5. CASE Step("elseif", {"if"}) /\ Scanning("cond")
    BY <1>5, ScanSees, CodeFrames, PcNames DEF Step, In, Code
  <1>6. CASE (In("else") \/ In("alt")) /\ Return /\ Code /\ UNCHANGED offset
    <2>1. Top.pc \in {"else", "alt"} /\ Top.pc \in CodePcs \ BlockPcs /\ src' = src
      BY <1>6, CodeFrames DEF In, Code
    <2>2. Clear(offset) BY <2>1, ElseClear
    <2>3. nodes \in Seq(Pieces) BY Types DEF Typed
    <2> DEFINE n == offset
    <2>4. Clear(n)' /\ offset' = offset
      BY <1>6, <2>1, <2>2, <2>3, BareStays DEF Clear
    <2>5. Clear(offset)' BY <2>4 DEF Clear
    <2> QED BY <1>6, <2>1, <2>5, ReturnSees
  <1> QED BY <1>1, <1>2, <1>3, <1>4, <1>5, <1>6, NoFailure DEF Else

\* The expression grows, with the token read.
LEMMA GrowsSees ==
  ASSUME Running, OverElse, TInv', src' = src, Top.pc \in CodePcs \ BlockPcs, Advance,
         NEW pc \in {"name", "named", "member", "call", "index"}, NEW n, Grows(pc, n),
         Look # "^" \/ pc \notin TextPcs
  PROVE  Sees
  <1> DEFINE f == [Top EXCEPT !.pc = pc, !.end = n]
  <1>1. f.pc = pc BY Stack, FramePcs
  <1>2. Become(f) BY DEF Grows
  <1> HIDE DEF f
  <1>3. pc \notin {"children", "alt", "else"}
    OBVIOUS
  <1> QED BY <1>1, <1>2, <1>3, StepSees

LEMMA ArgumentsSees ==
  ASSUME Running, OverElse, TInv', phase' = "run", NEW pc \in {"call", "index"}, Arguments(pc)
  PROVE  Sees
  <1>1. /\ Bracket(pc) # "^" /\ Unbracket(pc) # "^" /\ pc \notin TextPcs
        /\ pc \in CodePcs \ BlockPcs /\ "name" \in CodePcs \ BlockPcs
    BY CodeFrames DEF Bracket, Unbracket, TextPcs
  <1>2. ASSUME NEW n, Grows(pc, n), Advance, src' = src, Top.pc \in {"name", pc} PROVE Sees
    BY <1>1, <1>2, GrowsSees
  <1>3. ASSUME NEW n, Grows("name", n), Advance, src' = src, Top.pc = pc, Look # "^" PROVE Sees
    BY <1>1, <1>3, GrowsSees
  <1> DEFINE m == Top.end + 1
  <1>4. CASE Step("name", {Bracket(pc)}) /\ Grows(pc, m)
    BY <1>2, <1>4 DEF Step, In, Code
  <1>5. CASE Step(pc, {Unbracket(pc)}) /\ Grows("name", m)
    BY <1>1, <1>3, <1>5 DEF Step, In, Code
  <1>6. CASE In(pc) /\ Advance /\ Grows(pc, TokenOffset(code.look) + Width(Look)) /\ Code
    BY <1>2, <1>6 DEF In, Code
  <1> QED BY <1>4, <1>5, <1>6, NoFailure DEF Arguments

\* What has been read last, before the token, is not a symbol.
LEMMA NotAfterSymbol ==
  ASSUME Running, Seen, Top.pc \in {"name", "named"}
  PROVE  /\ offset \in Nat /\ At(offset - 1) # "^" /\ LookAt \in Nat /\ At(LookAt - 1) # "^"
  <1>1. Top.pc \in Expressing BY DEF Expressing
  <1>2. /\ Top.pc \in CodePcs /\ offset <= LookAt /\ LookAt \in Nat /\ offset \in Nat
    BY <1>1, InExpression
  <1>3. At(offset - 1) # "^" BY DEF Seen
  <1>4. \A o \in offset..(LookAt - 1) : At(o) \in Blanks
    BY <1>2, LookIs DEF GoodLook
  <1>5. CASE offset = LookAt
    BY <1>2, <1>3, <1>5
  <1>6. CASE offset < LookAt
    <2>1. \A m, n \in Nat : m < n => n - 1 \in m..(n - 1)
      OBVIOUS
    <2>2. At(LookAt - 1) \in Blanks
      BY <1>2, <1>4, <1>6, <2>1
    <2> QED BY <1>2, <1>3, <2>2 DEF Blanks
  <1> QED BY <1>2, <1>5, <1>6

LEMMA PeriodSees ==
  ASSUME Running, Seen, OverElse, TInv', phase' = "run", Period
  PROVE  Sees
  <1>1. "name" \in CodePcs \ BlockPcs /\ "member" \in CodePcs \ BlockPcs
    BY CodeFrames
  <1>2. ASSUME In("name"), offset' = TokenOffset(code.look), NEW n, Grows("named", n), Code
        PROVE  Sees
    <2> DEFINE f == [Top EXCEPT !.pc = "named", !.end = n]
    <2>1. f.pc = "named" /\ f.pc \notin {"children", "alt", "else"}
      BY Stack, FramePcs
    <2>2. Become(f) BY <1>2 DEF Grows
    <2> HIDE DEF f
    <2>3. OverElse' /\ Top' = f
      BY <1>1, <1>2, <2>2, OverBecomes DEF In
    <2>4. offset' = LookAt /\ src' = src /\ Top.pc = "name"
      BY <1>2 DEF LookAt, In, Code
    <2>5. offset' \in Nat /\ At(offset' - 1) # "^"
      BY <2>4, NotAfterSymbol
    <2> QED BY <2>1, <2>3, <2>4, <2>5, SeenRead DEF Sees
  <1> DEFINE m == Top.end
             m2 == Top.end + 2
  <1>3. ASSUME In("name"), Look = ".", Advance, Grows("member", m2), Code PROVE Sees
    BY <1>1, <1>3, GrowsSees DEF In, Code
  <1>4. ASSUME Step("member", Idents), NEW pc \in {"named", "name"}, Grows(pc, m) PROVE Sees
    <2>1. Look # "^" /\ Top.pc = "member" /\ Advance /\ src' = src
      BY <1>4, IdentsAre DEF Step, In, Code
    <2> QED BY <1>1, <1>4, <2>1, GrowsSees
  <1> QED BY <1>2, <1>3, <1>4, PeriodCases

LEMMA NameDoneSees ==
  ASSUME Running, Seen, OverElse, TInv', phase' = "run", NameDone
  PROVE  Sees
  <1>1. /\ Top.pc \in {"name", "named"} /\ Return /\ offset' = offset /\ src' = src
    BY NoFailure DEF NameDone, In, Found, Code
  <1>2. offset' \in Nat /\ At(offset' - 1) # "^"
    BY <1>1, NotAfterSymbol
  <1> QED BY <1>1, <1>2, CodeFrames, ReturnSees

-----------------------------------------------------------------------------
(* Symbols in the HTML parser.                                             *)

\* One node, or two, of which the texts begin where no lost symbol precedes.
LEMMA OneTold ==
  ASSUME Running, Grown, src' = src, NEW kind \in Kinds, NEW a \in Nat, NEW b \in Nat,
         Add(<<Node(kind, a, b)>>), kind \in Tellers => Clear(a), kind \in Texts => Neat(a, b)
  PROVE  Told
  <1>1. PICK n : n = Node(kind, a, b)
    OBVIOUS
  <1>2. n \in Pieces /\ n.from = a /\ n.kind = kind /\ n.to = b
    <2>1. b \in Int BY Order
    <2> QED BY <1>1, <2>1, NodeTypes DEF Node
  <1>3. Honest(n) BY <1>2 DEF Honest
  <1>4. nodes \in Seq(Pieces) BY Types DEF Typed
  <1>5. Honest(n)' BY <1>3, <1>4, BareStays
  <1> QED BY <1>1, <1>2, <1>5, ToldOne

LEMMA TwoTold ==
  ASSUME Running, Grown, src' = src,
         NEW kind \in Kinds, NEW a \in Nat, NEW b \in Nat, Clear(a), Neat(a, b),
         NEW last \in Kinds, NEW c \in Nat, NEW d \in Nat,
         last \in Tellers => Clear(c), Neat(c, d),
         Add(<<Node(kind, a, b), Node(last, c, d)>>)
  PROVE  Told
  <1>1. PICK m, n : m = Node(kind, a, b) /\ n = Node(last, c, d)
    OBVIOUS
  <1>2. /\ m \in Pieces /\ m.from = a /\ m.to = b
        /\ n \in Pieces /\ n.from = c /\ n.to = d /\ n.kind = last
    <2>1. b \in Int /\ d \in Int BY Order
    <2> QED BY <1>1, <2>1, NodeTypes DEF Node
  <1>3. Honest(m) /\ Honest(n) BY <1>2 DEF Honest
  <1>4. nodes \in Seq(Pieces) BY Types DEF Typed
  <1>5. Honest(m)' /\ Honest(n)'
    BY <1>3, <1>4, BareStays
  <1> QED BY <1>1, <1>2, <1>5, ToldTwo

\* The text before a symbol.
LEMMA LeadTold ==
  ASSUME Running, Grown, src' = src, NEW a \in Nat, NEW t \in HtmlAt(a), NEW o \in Symbols(t),
         Add(Lead(t, o)), Clear(a), \A d \in Symbols(t) : o <= d
  PROVE  Told
  <1>1. src \in Seq(Lexemes) /\ nodes \in Seq(Pieces) /\ "literal" \in Kinds
    BY Types DEF Typed, Kinds
  <1>2. t.start = a /\ o \in Nat BY <1>1, TextOf
  <1>3. CASE o > a
    <2>1. Add(<<Node("literal", a, o)>>)
      BY <1>2, <1>3 DEF Lead
    <2>2. Neat(a, o) BY <1>1, BeforeFirst DEF Neat
    <2> QED BY <1>1, <1>2, <2>1, <2>2, OneTold
  <1>4. CASE ~(o > a)
    <2>1. Add(<<>>) BY <1>2, <1>4 DEF Lead
    <2> QED BY <1>1, <2>1, ToldNone
  <1> QED BY <1>3, <1>4

LEMMA ClearBehind ==
  ASSUME Running, Grown, src' = src, NEW n \in Nat, \A o \in Int : o + 1 = n => Behinds(o)
  PROVE  Clear(n)'
  <1>1. nodes \in Seq(Pieces) BY Types DEF Typed
  <1>2. \A o : At(o)' = At(o) /\ AtEnd(o)' = AtEnd(o)
    BY <1>1, BareStays
  <1>3. ASSUME NEW o \in 0..(Len(src) - 1)', Bare(o)', n = o + 1 PROVE FALSE
    <2>1. o \in Int /\ o + 1 = n BY <1>3
    <2>2. Behinds(o) BY <2>1
    <2> QED BY <1>2, <1>3, <2>2 DEF Bare, Behinds
  <1> QED BY <1>3 DEF Clear

LEMMA DocumentSees ==
  ASSUME Running, OverElse, In("document"), Grown, src' = src, UNCHANGED stack,
         offset' \in Nat, \A o \in Int : o + 1 = offset' => Behinds(o)
  PROVE  Sees
  <1>1. PICK n \in Nat : n = offset'
    OBVIOUS
  <1>2. Clear(n)' BY <1>1, ClearBehind
  <1>3. Clear(offset)' BY <1>1, <1>2 DEF Clear
  <1>4. Top'.pc = "document" BY ChildStays DEF In
  <1>5. OverElse' BY OverStays DEF Stay
  <1> QED BY <1>3, <1>4, <1>5, SeenPassed DEF Sees

LEMMA DocumentLiteralTells ==
  ASSUME Running, Seen, OverElse, Grown, DocumentLiteral
  PROVE  Told /\ Sees
  <1>1. PICK t \in HtmlAt(offset) :
          /\ Tokenize(t) /\ At(t.start) # "" /\ Add(<<Node("literal", t.start, t.end)>>)
          /\ offset' = t.end /\ UNCHANGED <<code, stack, phase>> /\ Symbols(t) = {}
    BY DEF DocumentLiteral
  <1>2. /\ t.start = offset /\ t.start \in Nat /\ t.end \in Nat /\ offset \in Nat
        /\ t.start \in Int /\ t.end \in Int /\ In("document") /\ src' = src
        /\ t.start <= t.end
    BY <1>1, Tokens, Order DEF Tokenize
  <1>3. "literal" \in Kinds /\ nodes \in Seq(Pieces) /\ src \in Seq(Lexemes) /\ Len(src) \in Nat
    BY Types DEF Kinds, Typed
  <1>4. Clear(t.start) BY <1>2 DEF Seen, In
  <1>5. \A d \in t.start..(t.end - 1) : At(d) # "^"
    BY <1>1 DEF Symbols
  <1>6. t.start < t.end
    <2>1. offset < Len(src)
      <3>1. offset \in Int /\ offset \in 0..(Len(src) - 1)
        BY <1>1, <1>2, <1>3, SourceLexemes
      <3> QED BY <1>2, <1>3, <3>1
    <2> QED BY <1>2, <1>3, <2>1, HtmlFinds
  <1>7. Neat(t.start, t.end) BY <1>5 DEF Neat
  <1>8. Told
    BY <1>1, <1>2, <1>3, <1>4, <1>7, OneTold
  <1>9. \A o \in Int : o + 1 = t.end => o \in t.start..(t.end - 1)
    BY <1>2, <1>6
  <1> QED BY <1>1, <1>2, <1>5, <1>8, <1>9, DocumentSees DEF Behinds

LEMMA DocumentEscapeTells ==
  ASSUME Running, Seen, OverElse, Grown, DocumentEscape
  PROVE  Told /\ Sees
  <1>1. PICK t \in HtmlAt(offset) : \E o \in Least(Pairs(t)) :
          /\ Tokenize(t) /\ Add(Lead(t, o) \o <<Node("escape", o, o + 2)>>)
          /\ offset' = o + 2 /\ UNCHANGED <<code, stack, phase>>
    BY DEF DocumentEscape
  <1>2. PICK o \in Symbols(t) :
          /\ Tokenize(t) /\ Add(Lead(t, o) \o <<Node("escape", o, o + 2)>>)
          /\ offset' = o + 2 /\ UNCHANGED <<code, stack, phase>> /\ o + 1 \in Symbols(t)
    BY <1>1 DEF Least, Pairs
  <1>3. /\ t.start = offset /\ t.start \in Nat /\ offset \in Nat
        /\ o \in Nat /\ offset <= o /\ o + 2 \in Nat /\ In("document") /\ src' = src
    BY <1>2, Tokens DEF Tokenize
  <1>4. /\ o \in Int /\ o + 2 \in Int /\ offset \in Int /\ o <= o + 2
        /\ \A d \in Int : d + 1 = o + 2 => d \in o..((o + 2) - 1)
    BY <1>3
  <1>5. "literal" \in Kinds /\ "escape" \in Kinds /\ nodes \in Seq(Pieces) /\ "escape" \notin Tellers
        /\ src \in Seq(Lexemes)
    BY Types DEF Kinds, Typed, Tellers
  <1>6. Clear(offset) BY <1>3 DEF Seen, In
  <1>7. \A d \in offset..((o + 2) - 1) : Paired(d)
    <2>1. /\ o + 1 <= t.end - 1 /\ t.end \in Nat /\ Doubled(o)
          /\ \A d \in offset..(t.end - 1) : o \in Run(d)
      BY <1>2, <1>3, <1>5, TextOf DEF Symbols, Doubled
    <2>2. \A d \in offset..((o + 2) - 1) : d \in offset..(t.end - 1) /\ d - 1 <= o
      BY <1>3, <2>1
    <2> QED BY <2>1, <2>2 DEF Paired
  <1>8. Neat(offset, o) /\ Neat(o, o + 2)
    <2>1. /\ \A d \in offset..(o - 1) : d \in offset..((o + 2) - 1)
          /\ \A d \in o..((o + 2) - 1) : d \in offset..((o + 2) - 1)
      BY <1>3
    <2> QED BY <1>7, <2>1 DEF Neat
  <1>9. Told /\ \E j \in DOMAIN nodes' : nodes'[j] = Node("escape", o, o + 2)
    <2>1. CASE o > t.start
      <3>1. Lead(t, o) \o <<Node("escape", o, o + 2)>>
              = <<Node("literal", offset, o), Node("escape", o, o + 2)>>
        BY <1>3, <2>1, Concats DEF Lead
      <3>2. Add(<<Node("literal", offset, o), Node("escape", o, o + 2)>>)
        BY <1>2, <3>1
      <3>3. \E j \in DOMAIN nodes' : nodes'[j] = Node("escape", o, o + 2)
        BY <1>3, <1>4, <1>5, <3>2, AddedTwo
      <3>4. Told
        BY <1>3, <1>5, <1>6, <1>8, <3>2, TwoTold
      <3> QED BY <3>3, <3>4
    <2>2. CASE ~(o > t.start)
      <3>1. Lead(t, o) \o <<Node("escape", o, o + 2)>> = <<Node("escape", o, o + 2)>>
        BY <2>2, Concats DEF Lead
      <3>2. Add(<<Node("escape", o, o + 2)>>)
        BY <1>2, <3>1
      <3>3. \E j \in DOMAIN nodes' : nodes'[j] = Node("escape", o, o + 2)
        BY <1>3, <1>4, <1>5, <3>2, AddedOne
      <3>4. Told BY <1>3, <1>5, <1>8, <3>2, OneTold
      <3> QED BY <3>3, <3>4
    <2> QED BY <2>1, <2>2
  <1>10. \A d \in Int : d + 1 = o + 2 => InText(d)'
    <2>1. PICK j \in DOMAIN nodes' : nodes'[j] = Node("escape", o, o + 2)
      BY <1>9
    <2>2. nodes'[j].kind = "escape" /\ nodes'[j].from = o /\ nodes'[j].to = o + 2
      BY <2>1 DEF Node
    <2>3. \A d \in Int : d + 1 = o + 2 => o <= d /\ d < o + 2
      BY <1>3
    <2> QED BY <2>2, <2>3 DEF InText
  <1> QED BY <1>2, <1>3, <1>9, <1>10, DocumentSees DEF Behinds

LEMMA DocumentLayoutTells ==
  ASSUME Running, OverElse, Grown, DocumentLayout, phase' = "run"
  PROVE  Told /\ Sees
  <1>1. PICK t, o : /\ t \in HtmlAt(offset) /\ o \in Symbols(t) /\ In("document") /\ src' = src
                    /\ LayoutRead(t, o)
    BY LayoutIs, NoFailure
  <1>2. PICK e \in LayoutEnd(o + 3) : Add(<<Node("layout", o + 1, e)>>) /\ offset' = e
    BY <1>1 DEF LayoutRead
  <1>3. o \in Nat /\ o + 1 \in Nat BY <1>1, Tokens
  <1>4. e \in Nat /\ At(e - 1) # "^"
    BY <1>1, <1>3, LayoutEnds DEF LayoutRead
  <1>5. "layout" \in Kinds /\ "layout" \notin Tellers /\ "layout" \notin Texts
    BY DEF Kinds, Tellers, Texts
  <1>6. Told
    BY <1>1, <1>2, <1>3, <1>4, <1>5, OneTold
  <1>7. \A d \in Int : d + 1 = e => d = e - 1
    BY <1>4
  <1>8. UNCHANGED stack BY <1>1 DEF LayoutRead
  <1> QED BY <1>1, <1>2, <1>4, <1>6, <1>7, <1>8, DocumentSees DEF Behinds

LEMMA DocumentTransitionTells ==
  ASSUME Running, Seen, OverElse, TInv', Grown, DocumentTransition
  PROVE  Told /\ Sees
  <1>0. PICK t \in HtmlAt(offset) : \E o \in Symbols(t) :
          /\ Tokenize(t) /\ Add(Lead(t, o)) /\ Call(Frame("keyword"), Top)
          /\ \A d \in Symbols(t) : o <= d
    BY DEF DocumentTransition, Least
  <1>1. PICK o \in Symbols(t) :
          /\ Tokenize(t) /\ Add(Lead(t, o)) /\ Call(Frame("keyword"), Top)
          /\ \A d \in Symbols(t) : o <= d
    BY <1>0
  <1>2. Top.pc = "document" /\ src' = src /\ offset \in Nat
    BY <1>1, Types DEF Tokenize, In, Typed
  <1>3. Clear(offset) BY <1>2 DEF Seen
  <1>4. Told BY <1>1, <1>2, <1>3, LeadTold
  <1> DEFINE f == Frame("keyword")
             b == Top
  <1>5. f.pc = "keyword" /\ Call(f, b) /\ Top.pc \notin BlockPcs /\ b.pc # "else"
        /\ "keyword" \notin TextPcs
    BY <1>1, <1>2, FramePcs DEF BlockPcs, TextPcs
  <1> HIDE DEF f, b
  <1>6. OverElse' /\ Top' = f BY <1>5, OverCalls
  <1> QED BY <1>4, <1>5, <1>6, SeenElsewhere DEF Sees

\* The children go on after a token.
LEMMA ChildrenSee ==
  ASSUME Running, Top.pc = "children", src' = src, Grown, HtmlAdvance(offset),
         Top'.pc = "children", OverElse',
         \A o \in Int : o + 1 = html.end => Behinds(o)
  PROVE  Sees
  <1>1. offset = html.end /\ offset \in Nat /\ src \in Seq(Lexemes)
    BY AtChild
  <1>2. html'.start = offset BY <1>1, Advanced
  <1>3. PICK n \in Nat : n = offset
    BY <1>1
  <1>4. Clear(n)' BY <1>1, <1>3, ClearBehind
  <1>5. Clear(html.start)'
    BY <1>2, <1>3, <1>4 DEF Clear
  <1> QED BY <1>5 DEF Sees, Seen

LEMMA LastBefore ==
  /\ \A a, b \in Nat : a < b => \A o \in Int : o + 1 = b => o \in a..(b - 1)
  /\ \A n \in Nat : \A o \in 0..(n - 1) : o < n
  OBVIOUS

\* A token with a node for itself, and not empty.
LEMMA ChildTells ==
  ASSUME Running, WInv, Seen, Top.pc = "children", Child # "", src' = src, Grown,
         NEW kind \in {"element", "end", "literal"}, Add(<<Node(kind, html.start, html.end)>>),
         Child \in Markup \/ Symbols(html) = {}
  PROVE  Told /\ \A o \in Int : o + 1 = html.end => Behinds(o)
  <1>1. /\ html.start \in Nat /\ html.end \in Nat /\ html.start <= html.end
        /\ html.start \in Int /\ html.end \in Int /\ src \in Seq(Lexemes)
    BY AtChild, Order
  <1>2. kind \in Kinds /\ nodes \in Seq(Pieces) /\ Len(src) \in Nat
    BY Types DEF Kinds, Typed
  <1>3. html \in HtmlAt(html.start)
    BY DEF WInv, Running
  <1>4. html.start < html.end
    <2>1. html.start \in 0..(Len(src) - 1)
      BY <1>1, SourceLexemes DEF Child
    <2>2. html.start < Len(src)
      BY <1>2, <2>1, LastBefore
    <2> QED BY <1>1, <1>3, <2>2, HtmlFinds
  <1>5. \A d \in html.start..(html.end - 1) : At(d) # "^"
    BY <1>1, <1>3, TagSymbols DEF Child, Symbols
  <1>6. \A o \in Int : o + 1 = html.end => o \in html.start..(html.end - 1)
    BY <1>1, <1>4, LastBefore
  <1>7. \A o \in Int : o + 1 = html.end => Behinds(o)
    BY <1>5, <1>6 DEF Behinds
  <1>8. Clear(html.start) /\ Neat(html.start, html.end)
    BY <1>5 DEF Seen, Neat
  <1> QED BY <1>1, <1>2, <1>7, <1>8, OneTold

LEMMA ChildElementTells ==
  ASSUME Running, WInv, Seen, OverElse, TInv', Grown, ChildElement
  PROVE  Told /\ Sees
  <1>1. Top.pc = "children" /\ Top.pc \notin BlockPcs
    BY DEF ChildElement, In, BlockPcs
  <1>2. /\ Child \in DOMAIN Open /\ Add(<<Node("element", html.start, html.end)>>)
        /\ HtmlAdvance(offset) /\ src' = src
    BY DEF ChildElement
  <1>3. Child # "" /\ Child \in Markup
    BY <1>2, LexemesAssumption DEF Markup
  <1>4. OverElse' /\ Top'.pc = "children"
    <2>1. CASE UNCHANGED stack
      BY <1>1, <2>1, ChildStays, OverStays DEF Stay
    <2>2. CASE Call(Frame("children"), [Top EXCEPT !.open = Append(@, Open[Child])])
      <3> DEFINE f == Frame("children")
                 b == [Top EXCEPT !.open = Append(@, Open[Child])]
      <3>1. f.pc = "children" BY FramePcs
      <3>2. b.pc = "children"
        BY <1>1, Stack DEF Frames
      <3>3. Call(f, b) BY <2>2
      <3> HIDE DEF f, b
      <3> QED BY <1>1, <3>1, <3>2, <3>3, OverCalls
    <2> QED BY <2>1, <2>2 DEF ChildElement, Stay
  <1>5. Told /\ \A o \in Int : o + 1 = html.end => Behinds(o)
    BY <1>1, <1>2, <1>3, ChildTells
  <1> QED BY <1>1, <1>2, <1>4, <1>5, ChildrenSee

LEMMA ChildEndTells ==
  ASSUME Running, WInv, Seen, OverElse, TInv', Grown, ChildEnd, phase' = "run"
  PROVE  Told /\ Sees
  <1>1. Top.pc = "children" /\ Top.pc \notin BlockPcs /\ src' = src /\ Child \in DOMAIN Close
    BY DEF ChildEnd, In, BlockPcs
  <1>2. Top.open[Len(Top.open)] = Close[Child]
    BY <1>1, NoFailure DEF ChildEnd
  <1> DEFINE f == [Top EXCEPT !.open = SubSeq(@, 1, Len(@) - 1)]
  <1>3. /\ HtmlAdvance(offset) /\ Add(<<Node("end", html.start, html.end)>>) /\ Become(f)
    BY <1>2 DEF ChildEnd
  <1>4. f.pc = "children" BY <1>1, Stack DEF Frames
  <1> HIDE DEF f
  <1>5. OverElse' /\ Top'.pc = "children"
    BY <1>1, <1>3, <1>4, OverBecomes
  <1>6. Child # "" /\ Child \in Markup
    BY <1>1, LexemesAssumption DEF Markup
  <1>7. Told /\ \A o \in Int : o + 1 = html.end => Behinds(o)
    BY <1>1, <1>3, <1>6, ChildTells
  <1> QED BY <1>1, <1>3, <1>5, <1>7, ChildrenSee

LEMMA ChildLiteralTells ==
  ASSUME Running, WInv, Seen, OverElse, Grown, ChildLiteral
  PROVE  Told /\ Sees
  <1>1. /\ Top.pc = "children" /\ HtmlAdvance(offset) /\ UNCHANGED <<src, code, stack>>
        /\ Add(<<Node("literal", html.start, html.end)>>) /\ IsText(html) /\ Symbols(html) = {}
    BY DEF ChildLiteral, In
  <1>2. Top'.pc = "children" /\ OverElse'
    BY <1>1, ChildStays, OverStays DEF Stay
  <1>3. Child # "" BY <1>1 DEF IsText, Child
  <1>4. Told /\ \A o \in Int : o + 1 = html.end => Behinds(o)
    BY <1>1, <1>3, ChildTells
  <1> QED BY <1>1, <1>2, <1>4, ChildrenSee

LEMMA ChildrenReturnTells ==
  ASSUME Running, Seen, OverElse, Grown, ChildrenReturn
  PROVE  Told /\ Sees
  <1>1. Top.pc = "children" /\ Return /\ UNCHANGED <<src, offset, html, code, nodes, phase>>
    BY DEF ChildrenReturn, In
  <1>2. Top'.pc \in {"children", "element"}
    BY <1>1, Returns, BelowCode
  <1>3. nodes \in Seq(Pieces) BY Types DEF Typed
  <1>4. PICK n : n = html.start
    OBVIOUS
  <1>5. Clear(n)'
    <2>1. Clear(n) BY <1>1, <1>4 DEF Seen
    <2> QED BY <1>1, <1>3, <2>1, BareStays
  <1>6. Clear(html.start)'
    BY <1>1, <1>4, <1>5 DEF Clear
  <1>7. Told BY <1>1, <1>3, ToldNone
  <1>8. OverElse' BY <1>1, OverReturns
  <1>9. Seen' BY <1>2, <1>6 DEF Seen
  <1> QED BY <1>7, <1>8, <1>9 DEF Sees

LEMMA ChildDroppedTells ==
  ASSUME Running, WInv, Seen, OverElse, Grown, ChildDropped
  PROVE  Told /\ Sees
  <1>1. /\ Top.pc = "children" /\ HtmlAdvance(offset) /\ UNCHANGED <<src, code, stack, nodes>>
        /\ \/ Child = "<!-- -->"
           \/ IsText(html) /\ \E o \in Least(Symbols(html)) : o \in Pairs(html)
    BY DEF ChildDropped, In
  <1>2. Top'.pc = "children" /\ OverElse'
    BY <1>1, ChildStays, OverStays DEF Stay
  <1>3. html \in HtmlAt(html.start) /\ html.start \in Nat /\ html.end \in Nat
        /\ src \in Seq(Lexemes) /\ nodes \in Seq(Pieces)
    BY <1>1, Types, AtChild DEF WInv, Running, Typed
  <1>4. Told BY <1>1, <1>3, ToldNone
  <1>5. CASE Child = "<!-- -->"
    <2>1. At(html.start) = "<!-- -->" /\ At(html.start) \in Markup
      BY <1>5 DEF Child, Markup
    <2>2. html.end = html.start + 1
      BY <1>3, <2>1, HtmlFinds
    <2>3. \A n \in Nat : \A o \in Int : o + 1 = n + 1 => o = n
      OBVIOUS
    <2>4. \A o \in Int : o + 1 = html.end => o = html.start
      BY <1>3, <2>2, <2>3
    <2>5. \A o \in Int : o + 1 = html.end => Behinds(o)
      BY <2>1, <2>4 DEF Behinds
    <2> QED BY <1>1, <1>2, <1>4, <2>5, ChildrenSee
  <1>6. CASE IsText(html) /\ \E o \in Least(Symbols(html)) : o \in Pairs(html)
    <2>1. PICK o \in Symbols(html) : o + 1 \in Symbols(html)
      BY <1>6 DEF Least, Pairs
    <2>2. /\ Doubled(o) /\ o \in Nat /\ html.start <= o /\ o + 1 <= html.end - 1
          /\ \A d \in html.start..(html.end - 1) : o \in Run(d)
      BY <1>3, <2>1, TextOf DEF Symbols, Doubled
    <2>3. At(html.end) \in Markup \cup {""}
      <3>1. html.start < Len(src) /\ Len(src) \in Nat /\ At(html.start) \notin Markup
        <4>1. html.end <= Len(src) /\ Len(src) \in Nat /\ At(html.start) \notin Markup
          BY <1>3, <1>6, <2>1, TextOf DEF IsText
        <4> QED BY <1>3, <2>2, <4>1
      <3>2. html.end = Len(src) \/ At(html.end) \in Markup
        BY <1>3, <3>1 DEF HtmlAt, Least
      <3>3. \A n \in Nat : n \notin 0..(n - 1)
        OBVIOUS
      <3>4. At(Len(src)) = ""
        BY <3>1, <3>3, Zenon DEF At
      <3> QED BY <3>2, <3>4
    <2>4. \A d \in Int : d + 1 = html.end => d \in html.start..(html.end - 1) /\ o < d
      BY <1>3, <2>2
    <2>5. \A d \in Int : d + 1 = html.end => Behinds(d)
      BY <2>2, <2>3, <2>4 DEF Behinds, AtEnd
    <2> QED BY <1>1, <1>2, <1>4, <2>5, ChildrenSee
  <1> QED BY <1>1, <1>5, <1>6

LEMMA ChildTransitionTells ==
  ASSUME Running, WInv, Seen, OverElse, TInv', Grown, ChildTransition
  PROVE  Told /\ Sees
  <1> DEFINE f == Frame("keyword")
             b == [Top EXCEPT !.pc = "resume"]
  <1>1. Top.pc = "children" /\ src' = src /\ Call(f, b)
    BY DEF ChildTransition, In
  <1>2. PICK o \in Symbols(html) : Add(Lead(html, o)) /\ \A d \in Symbols(html) : o <= d
    BY DEF ChildTransition, Least
  <1>3. html \in HtmlAt(html.start) /\ html.start \in Nat /\ Clear(html.start)
    BY <1>1, AtChild DEF WInv, Running, Seen
  <1>4. Told BY <1>1, <1>2, <1>3, LeadTold
  <1>5. f.pc = "keyword" /\ b.pc = "resume" /\ "keyword" \notin TextPcs /\ Top.pc \notin BlockPcs
    BY <1>1, FramePcs, Stack DEF Frames, TextPcs, BlockPcs
  <1> HIDE DEF f, b
  <1>6. OverElse' /\ Top' = f
    BY <1>1, <1>5, OverCalls
  <1> QED BY <1>4, <1>5, <1>6, SeenElsewhere DEF Sees

LEMMA ChildResumeTells ==
  ASSUME Running, Seen, OverElse, TInv', Grown, ChildResume
  PROVE  Told /\ Sees
  <1> DEFINE f == [Top EXCEPT !.pc = "children"]
  <1>1. /\ Top.pc = "resume" /\ HtmlAdvance(offset) /\ Become(f) /\ UNCHANGED <<src, nodes>>
    BY DEF ChildResume, In
  <1>2. f.pc = "children" /\ Top.pc \notin BlockPcs
    BY <1>1, Stack DEF Frames, BlockPcs
  <1> HIDE DEF f
  <1>3. OverElse' /\ Top' = f
    BY <1>1, <1>2, OverBecomes
  <1>4. offset \in Nat /\ src \in Seq(Lexemes) /\ nodes \in Seq(Pieces)
    BY Types DEF Typed
  <1>5. html'.start = offset BY <1>1, <1>4, Advanced
  <1>6. PICK n : n = offset
    OBVIOUS
  <1>7. Clear(n)'
    <2>1. Clear(n) BY <1>1, <1>6 DEF Seen
    <2> QED BY <1>1, <1>4, <2>1, BareStays
  <1>8. Clear(html.start)'
    BY <1>5, <1>6, <1>7 DEF Clear
  <1>9. Told BY <1>1, <1>4, ToldNone
  <1>10. Seen' BY <1>2, <1>3, <1>8 DEF Seen
  <1> QED BY <1>3, <1>9, <1>10 DEF Sees

LEMMA ElementEndTells ==
  ASSUME Running, OverElse, Grown, ElementEnd, phase' = "run"
  PROVE  Told /\ Sees
  <1>1. Top.pc = "element" /\ src' = src
    BY DEF ElementEnd, In
  <1>2. Child \in DOMAIN Close /\ Top.open = <<Close[Child]>>
    BY <1>1, NoFailure DEF ElementEnd
  <1>3. Add(<<Node("end", html.start, html.end)>>) /\ Return
    BY <1>2 DEF ElementEnd
  <1>4. Top'.pc = "close" /\ "close" \notin TextPcs
    BY <1>1, <1>3, Returns, BelowCode DEF TextPcs
  <1>5. html.start \in Nat /\ html.end \in Nat /\ "end" \in Kinds /\ "end" \notin Tellers
    BY <1>1, AtChild DEF Kinds, Tellers
  <1>6. Told BY <1>1, <1>3, <1>5, OneTold DEF Texts
  <1>7. OverElse' BY <1>3, OverReturns, SMTT(60)
  <1> QED BY <1>4, <1>6, <1>7, SeenElsewhere DEF Sees

LEMMA BlockMarkupTold ==
  ASSUME Running, Seen, Top.pc = "body", src' = src, Grown,
         NEW t, NEW u, MarkupRead(t, u)
  PROVE  Told /\ u.end \in Nat /\ \A o \in Int : o + 1 = u.end => Behinds(o)
  <1>1. src \in Seq(Lexemes) /\ offset \in Nat /\ nodes \in Seq(Pieces) /\ Len(src) \in Nat
    BY Types DEF Typed
  <1>2. /\ t \in HtmlAt(offset) /\ u \in MarkupIn(t) /\ At(u.start) \in DOMAIN Open
        /\ Add(MarkupNodes(t, u))
    BY DEF MarkupRead
  <1>3. /\ t.start = offset /\ t.start <= t.end /\ t.start \in Nat /\ t.end \in Nat
        /\ u.start \in Nat /\ u.end \in Nat /\ u \in HtmlAt(u.start)
        /\ u # t => u.start = t.end /\ IsAllWhitespace(t)
        /\ t.start \in Int /\ t.end \in Int /\ u.start \in Int /\ u.end \in Int
        /\ "element" \in Kinds /\ "literal" \in Kinds /\ "element" \notin Literals
    BY <1>2, MarkupTokens
  <1>6. u.start < u.end
    <2>1. At(u.start) # ""
      BY <1>2, LexemesAssumption DEF Markup
    <2>2. u.start \in Int BY <1>3, Order
    <2>3. u.start \in 0..(Len(src) - 1)
      BY <1>1, <2>1, <2>2, SourceLexemes
    <2>4. u.start < Len(src)
      BY <1>1, <2>3, LastBefore
    <2> QED BY <1>1, <1>3, <2>4, HtmlFinds
  <1>8. Clear(t.start)
    <2>1. ASSUME NEW o \in 0..(Len(src) - 1), Bare(o), t.start = o + 1 PROVE FALSE
      <3>1. \A d \in Int : \A a : a = d + 1 => a - 1 = d
        OBVIOUS
      <3>2. o \in Int OBVIOUS
      <3>3. offset - 1 = o BY <1>3, <2>1, <3>1, <3>2
      <3> QED BY <2>1, <3>3 DEF Seen, Bare
    <2> QED BY <2>1 DEF Clear
  <1>4. /\ \A d \in u.start..(u.end - 1) : At(d) # "^"
        /\ Neat(u.start, u.end)
    <2>1. At(u.start) \in Markup BY <1>2 DEF Markup
    <2> QED BY <1>1, <1>3, <2>1, TagSymbols DEF Neat
  <1>7. \A o \in Int : o + 1 = u.end => Behinds(o)
    BY <1>3, <1>4, <1>6, LastBefore DEF Behinds
  <1>9. CASE u = t
    <2>1. Add(<<Node("element", u.start, u.end)>>)
      BY <1>2, <1>9, MarkupTokens
    <2>2. Told
      BY <1>3, <1>4, <1>8, <1>9, <2>1, OneTold
    <2> QED BY <1>3, <1>7, <2>2
  <1>10. CASE u # t
    <2>1. Add(<<Node("literal", t.start, t.end), Node("element", u.start, u.end)>>)
      BY <1>2, <1>10, MarkupTokens
    <2>2. Neat(t.start, t.end)
      BY <1>3, <1>10 DEF Neat, IsAllWhitespace, Blanks
    <2>3. Clear(u.start)
      <3>1. t.start < t.end
        <4>1. At(t.start) # "" /\ t.start \in 0..(Len(src) - 1)
          BY <1>1, <1>3, <1>10, SourceLexemes DEF IsAllWhitespace, IsText
        <4>2. t.start < Len(src)
          BY <1>1, <4>1, LastBefore
        <4> QED BY <1>1, <1>2, <4>2, HtmlFinds
      <3>2. ASSUME NEW o \in 0..(Len(src) - 1), Bare(o), u.start = o + 1 PROVE FALSE
        <4>1. o \in Int /\ o + 1 = t.end
          BY <1>3, <1>10, <3>2
        <4>2. o \in t.start..(t.end - 1)
          BY <1>3, <3>1, <4>1, LastBefore
        <4>3. At(o) \in Blanks
          BY <1>3, <1>10, <4>2 DEF IsAllWhitespace
        <4> QED BY <3>2, <4>3 DEF Bare, Blanks
      <3> QED BY <3>2 DEF Clear
    <2>4. Told
      BY <1>3, <1>4, <1>8, <2>1, <2>2, <2>3, TwoTold
    <2> QED BY <1>3, <1>7, <2>4
  <1> QED BY <1>9, <1>10

LEMMA BlockMarkupTells ==
  ASSUME Running, Seen, OverElse, TInv', Grown, BlockMarkup, phase' = "run"
  PROVE  Told /\ Sees
  <1>1. Top.pc = "body" /\ src' = src
    BY BlockMarkupReads
  <1>4. PICK t, u : MarkupRead(t, u)
    BY NoFailure, BlockMarkupReads
  <1>5. At(u.start) \in DOMAIN Open
    BY <1>4 DEF MarkupRead
  <1>6. Told /\ u.end \in Nat /\ \A o \in Int : o + 1 = u.end => Behinds(o)
    BY <1>1, <1>4, BlockMarkupTold
  <1>7. CASE Open[At(u.start)] \in Void
    <2> DEFINE f == Frame("close")
    <2>1. f.pc = "close" /\ Become(f) /\ "close" \in BlockPcs /\ "close" \notin TextPcs
      BY <1>4, <1>7, FramePcs DEF BlockPcs, TextPcs, MarkupRead
    <2> HIDE DEF f
    <2>2. Sees BY <2>1, ShiftSees
    <2> QED BY <1>6, <2>2, SMTT(60)
  <1>8. CASE Open[At(u.start)] \notin Void
    <2> DEFINE s == ElementFrames(u)
    <2>1. HtmlAdvance(u.end) /\ stack' = Callers \o s
      BY <1>4, <1>8 DEF MarkupRead
    <2>2. /\ s \in Seq(Frames) /\ Len(s) >= 1 /\ s[1].pc = "close" /\ s[2].pc = "element"
          /\ \A k \in 2..Len(s) : k - 1 \in {1, 2} /\ (k - 1 = 1 => k = 2) /\ (k - 1 = 2 => k = 3)
      BY <1>5, ElementFramesType
    <2>9. Top'.pc = "children"
      BY <1>1, <1>5, <2>1, ElementCalled
    <2> HIDE DEF s
    <2>8. OverElse'
      <3>1. \A k \in 2..Len(s) : s[k - 1].pc # "else"
        BY <2>2
      <3> QED BY <2>1, <2>2, <3>1, OverRestacked DEF BlockPcs
    <2>10. html'.start = u.end
      BY <1>1, <1>6, <2>1, Types, Advanced DEF Typed
    <2>11. Clear(html.start)'
      <3>1. PICK n \in Nat : n = u.end
        BY <1>6
      <3>2. Clear(n)'
        BY <1>1, <1>6, <3>1, ClearBehind
      <3> QED BY <2>10, <3>1, <3>2 DEF Clear
    <2>12. Seen' BY <2>9, <2>11 DEF Seen
    <2> QED BY <1>6, <2>8, <2>12 DEF Sees
  <1> QED BY <1>7, <1>8

-----------------------------------------------------------------------------
(* Every step.                                                             *)

LEMMA HtmlTells ==
  ASSUME Running, WInv, Seen, OverElse, TInv', Grown, HtmlStep, phase' = "run"
  PROVE  Told /\ Sees
  <1>1. ~DocumentEnd /\ ~AttributeEnd /\ ~ChildDoctype
    BY NoFailure DEF DocumentEnd, AttributeEnd, ChildDoctype
  <1> QED
    BY <1>1, DocumentLiteralTells, DocumentEscapeTells, DocumentLayoutTells,
       DocumentTransitionTells, ChildElementTells, ChildrenReturnTells, ChildEndTells,
       ChildDroppedTells, ChildLiteralTells, ChildTransitionTells, ChildResumeTells,
       ElementEndTells DEF HtmlStep

LEMMA CodeTells ==
  ASSUME Running, Seen, OverElse, TInv', Grown, CodeStep, phase' = "run"
  PROVE  Told /\ Sees
  <1>1. CASE BlockMarkup
    BY <1>1, BlockMarkupTells
  <1>2. CASE ~BlockMarkup
    <2>1. nodes' \in Seq(Pieces)
      BY DEF TInv, TypeOK, Pieces
    <2>2. Told BY <1>2, <2>1, CodeAdds, CodedTold
    <2>3. Sees
      BY <1>2, KeywordSees, ScanTokenSees, ScannedSees, ImportSees, HandlerSees, NamedBlockSees,
         BlockSees, BlockEndSees, ElseSees, ArgumentsSees, PeriodSees, NameDoneSees DEF CodeStep
    <2> QED BY <2>2, <2>3
  <1> QED BY <1>1, <1>2

\* A step that ends the parser makes no node.
LEMMA LastStep ==
  ASSUME Running, HtmlStep \/ CodeStep, phase' # "run"
  PROVE  UNCHANGED nodes
  <1>1. Fail \/ Stop("crashed") => UNCHANGED nodes
    BY DEF Fail, Stop
  <1>2. phase = "run" BY DEF Running
  <1>3. \A pc, S : Step(pc, S) \/ Fails(pc, S) \/ FailsBut(pc, S) => UNCHANGED nodes
    BY <1>1 DEF Step, Fails, FailsBut
  <1>4. \A kind, a, b : ~Found(kind, a, b)
    BY <1>2 DEF Found
  <1>5. HtmlStep => UNCHANGED nodes
    BY <1>1, <1>2 DEF HtmlStep, DocumentEnd, AttributeEnd, DocumentLiteral, DocumentEscape,
       DocumentLayout, DocumentTransition, ChildElement, ChildrenReturn, ChildEnd, ChildDropped,
       ChildLiteral, ChildTransition, ChildResume, ChildDoctype, ElementEnd
  <1>6. Keyword \/ Handler \/ Block \/ BlockEnd \/ BlockCode \/ Else => UNCHANGED nodes
    BY <1>3 DEF Keyword, Handler, Block, BlockEnd, BlockCode, Else
  <1>7. \A pc \in Scans : ScanToken(pc) => UNCHANGED nodes
    BY <1>3 DEF ScanToken
  <1>8. CondDone \/ ClauseDone \/ CodeDone("code") \/ CodeDone("handling") \/ ExprDone
        => UNCHANGED nodes
    BY <1>1, <1>4 DEF CondDone, ClauseDone, CodeDone, ExprDone
  <1>9. Import \/ NamedBlock("section") \/ NamedBlock("partial") => UNCHANGED nodes
    BY <1>3, <1>4 DEF Import, NamedBlock
  <1>10. Arguments("call") \/ Arguments("index") \/ Period \/ NameDone => UNCHANGED nodes
    BY <1>1, <1>3, <1>4 DEF Arguments, Period, NameDone
  <1>11. BlockMarkup => UNCHANGED nodes
    BY <1>1, <1>2 DEF BlockMarkup
  <1> QED BY <1>5, <1>6, <1>7, <1>8, <1>9, <1>10, <1>11 DEF CodeStep

LEMMA SameActed ==
  ASSUME nodes \in Seq(Pieces), src' = src, UNCHANGED nodes, Acted
  PROVE  Acted'
  <1>1. Grown /\ Told BY AddedNone, ToldNone
  <1> QED BY <1>1, ActedOn

LEMMA InitActs == Init => SInv
  <1> SUFFICES ASSUME Init PROVE SInv
    OBVIOUS
  <1>1. offset = 0 /\ nodes = <<>> BY DEF Init
  <1>2. Frame("document").pc = "document" /\ Frame("keyword").pc = "keyword"
        /\ Frame("attribute").pc = "attribute"
    BY FramePcs
  <1>3. Acted
    <2>1. ~\E k \in DOMAIN nodes : TRUE BY <1>1
    <2> QED BY <2>1 DEF Acted
  <1>4. Clear(offset)
    <2>1. \A o \in 0..(Len(src) - 1) : 0 # o + 1
      OBVIOUS
    <2> QED BY <1>1, <2>1 DEF Clear
  <1>5. CASE stack = <<Frame("document")>>
    <2>1. Top.pc = "document" /\ Len(stack) = 1
      BY <1>2, <1>5 DEF Top
    <2>2. ~\E k \in 2..1 : TRUE OBVIOUS
    <2> QED BY <1>3, <1>4, <2>1, <2>2 DEF SInv, Seen, OverElse
  <1>6. CASE stack = <<Frame("attribute"), Frame("keyword")>>
    <2>1. Top.pc = "keyword" /\ Len(stack) = 2 /\ stack[1].pc = "attribute"
      BY <1>2, <1>6 DEF Top
    <2>2. \A k \in 2..2 : k - 1 = 1 OBVIOUS
    <2> QED BY <1>3, <2>1, <2>2 DEF SInv, Seen, OverElse
  <1> QED BY <1>5, <1>6 DEF Init

LEMMA NextActs == IInv /\ WInv /\ SInv /\ Opened /\ [Next]_vars => SInv'
  <1> SUFFICES ASSUME IInv, WInv, SInv, Opened, [Next]_vars PROVE SInv'
    OBVIOUS
  <1>1. CASE HtmlStep \/ CodeStep
    <2>1. Running /\ Done(Floor) /\ TInv' /\ src' = src /\ Seen /\ OverElse /\ Acted
      BY <1>1, Runs, NextInv, SourceStays DEF IInv, OInv, Running, SInv
    <2>2. CASE phase' = "run"
      <3>1. KeepsWords /\ Grown
        BY <1>1, <2>1, <2>2, StepKeepsWords DEF KeepsWords
      <3>2. Told /\ Sees
        BY <1>1, <2>1, <2>2, <3>1, HtmlTells, CodeTells
      <3> QED BY <2>1, <3>1, <3>2, ActsOn DEF Sees
    <2>3. CASE phase' # "run"
      <3>1. UNCHANGED nodes
        BY <1>1, <2>1, <2>3, LastStep
      <3>2. Acted'
        BY <2>1, <3>1, Types, SameActed DEF Typed
      <3> QED BY <2>3, <3>2 DEF SInv
    <2> QED BY <2>2, <2>3
  <1>2. CASE Compile
    BY <1>2 DEF Compile, SInv
  <1>3. CASE UNCHANGED vars
    <2>1. UNCHANGED <<src, offset, html, code, stack, nodes, phase>> /\ nodes \in Seq(Pieces)
      BY <1>3 DEF vars, IInv, TInv, TypeOK, Pieces
    <2>2. Grown BY <2>1, AddedNone
    <2>3. /\ \A o : At(o)' = At(o) /\ AfterBlock(o)' = AfterBlock(o)
          /\ \A o : Bare(o)' => Bare(o)
      BY <2>1, <2>2, BareStays
    <2>4. Top' = Top /\ LookAt' = LookAt
      BY <2>1 DEF Top, LookAt, TokenOffset
    <2>5. (Acted => Acted') /\ OverElse' = OverElse
      BY <2>1, SameActed DEF OverElse, BlockPcs
    <2>6. Seen => Seen'
      BY <2>1, <2>3, <2>4 DEF Seen, Clear, AfterBlock
    <2> QED BY <2>1, <2>5, <2>6 DEF SInv
  <1> QED BY <1>1, <1>2, <1>3 DEF Next, Over

\* A symbol with text behind it is text itself, or right before a node.
LEMMA ActedTells == IInv /\ SInv => SymbolsAct
  <1> SUFFICES ASSUME IInv, SInv, phase # "done", NEW o \in 0..(Len(src) - 1), At(o) = "^",
                      NEW k \in DOMAIN nodes, nodes[k].kind \in {"literal", "element"},
                      nodes[k].from <= o + 1, o + 1 < nodes[k].to
               PROVE  AfterBlock(o) \/ (InText(o) /\ Paired(o)) \/ AtEnd(o)
    BY DEF SymbolsAct
  <1>1. nodes \in Seq(Pieces)
    BY DEF IInv, TInv, TypeOK, Pieces
  <1>2. \A j \in DOMAIN nodes : nodes[j].from \in Int /\ nodes[j].to \in Int
    <2>1. \A j \in DOMAIN nodes : nodes[j] \in Pieces
      BY <1>1, LenProperties, ElementOfSeq
    <2> QED BY <2>1, Order DEF Pieces
  <1>3. \A j \in DOMAIN nodes : Honest(nodes[j])
    BY DEF SInv, Acted
  <1>4. o \in Int OBVIOUS
  <1>5. InText(o) => Paired(o)
    <2>1. SUFFICES ASSUME NEW j \in DOMAIN nodes, nodes[j].kind \in Texts,
                          nodes[j].from <= o, o < nodes[j].to
                   PROVE  Paired(o)
      BY DEF InText, Texts
    <2>2. o \in nodes[j].from..(nodes[j].to - 1)
      BY <1>2, <1>4, <2>1
    <2> QED BY <1>3, <2>1, <2>2 DEF Honest, Neat
  <1>6. CASE nodes[k].from <= o
    <2>1. o < nodes[k].to BY <1>2, <1>4
    <2> QED BY <1>5, <1>6, <2>1 DEF InText
  <1>7. CASE ~(nodes[k].from <= o)
    <2>1. nodes[k].from = o + 1 BY <1>2, <1>4, <1>7
    <2>2. ~Bare(o)
      BY <1>3, <2>1 DEF Honest, Clear, Tellers
    <2> QED BY <1>5, <2>2 DEF Bare
  <1> QED BY <1>6, <1>7

\* Wherever the two parsers call each other, what follows a symbol does not come
\* into the tree as text or a tag, except where the parser looks for an else on the
\* line on which a block ends, and finds another symbol there; where the symbol is
\* in a text at the top in which a doubled symbol follows, and text itself; and at
\* the end of a text that is left out for a doubled symbol.
THEOREM SymbolsTell == Spec => []SymbolsAct
  <1>1. Init => IInv /\ BInv /\ WInv /\ SInv
    BY InitInv, InitNests, InitWords, InitActs
  <1>2. IInv /\ BInv /\ WInv /\ SInv /\ [Next]_vars => IInv' /\ BInv' /\ WInv' /\ SInv'
    BY NextInv, NextNests, NextWords, NextActs, ChildrenOpened
  <1>3. IInv /\ BInv /\ WInv /\ SInv => SymbolsAct
    BY ActedTells
  <1> QED BY <1>1, <1>2, <1>3, PTL DEF Spec
=============================================================================
