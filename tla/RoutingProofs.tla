--------------------------- MODULE RoutingProofs ---------------------------
(***************************************************************************)
(* Of projects of any pages with any names: what is on disk is routed, and *)
(* static pages come first.  The sequences of the model are built by       *)
(* recursive functions; the first lemmas say what is in them, by induction *)
(* on the length of what they go through.                                  *)
(***************************************************************************)
EXTENDS Routing, FiniteSetTheorems, FunctionTheorems, SequenceTheorems,
        WellFoundedInduction, TLAPS

\* A set of naturals has a least element.
LEMMA LeastNatural ==
  ASSUME NEW T \in SUBSET Nat, T # {}
  PROVE  \E n \in T : \A m \in T : n <= m
  <1> DEFINE R == OpToRel(<, Nat)
  <1>1. IsWellFoundedOn(R, Nat)
    BY NatLessThanWellFounded
  <1>2. PICK n \in T : \A m \in T : ~ (<<m, n>> \in R)
    <2> HIDE DEF R
    <2> QED
      BY <1>1, WFMin
  <1>3. \A m \in T : ~ (m < n)
    BY <1>2 DEF OpToRel
  <1> QED
    BY <1>3

\* Induction, over a set instead of a predicate.
LEMMA NatSetInduction ==
  ASSUME NEW T \in SUBSET Nat, 0 \in T, \A n \in T : n + 1 \in T
  PROVE  T = Nat
  <1> SUFFICES ASSUME Nat \ T # {} PROVE FALSE
    OBVIOUS
  <1>1. PICK n \in Nat \ T : \A m \in Nat \ T : n <= m
    BY LeastNatural
  <1>2. n # 0 /\ n - 1 \in Nat
    BY <1>1
  <1>3. n - 1 \in T
    BY <1>1, <1>2
  <1> QED
    BY <1>1, <1>2, <1>3

LEMMA FcnIsSeq ==
  ASSUME NEW S, NEW n \in Nat, NEW f \in [1..n -> S]
  PROVE  f \in Seq(S)
  BY SeqDef, Zenon

\* The function by which Concat is defined, and that it exists.
Joins(j, p, s, S) ==
  /\ j \in [0..Len(s) -> Seq(S)]
  /\ j[0] = <<>>
  /\ \A n \in 1..Len(s) : j[n] = j[n - 1] \o p[s[n]]
  /\ Concat(p, s) = j[Len(s)]

LEMMA ConcatSteps ==
  ASSUME NEW S, NEW X, NEW s \in Seq(X), NEW p, \A x \in X : p[x] \in Seq(S)
  PROVE  \E j : Joins(j, p, s, S)
  <1> DEFINE Steps(f, n) == /\ f \in [0..n -> Seq(S)]
                            /\ f[0] = <<>>
                            /\ \A i \in 1..n : f[i] = f[i - 1] \o p[s[i]]
             Stepped(n) == \E f : Steps(f, n)
             T == {n \in Nat : n <= Len(s) => Stepped(n)}
  <1>1. Len(s) \in Nat /\ \A n \in 1..Len(s) : p[s[n]] \in Seq(S)
    BY LenProperties, ElementOfSeq
  <1>2. Stepped(0)
    <2>1. Steps([i \in 0..0 |-> <<>>], 0)
      BY EmptySeq
    <2> QED
      BY <2>1
  <1>3. ASSUME NEW n \in Nat, n + 1 <= Len(s), Stepped(n) PROVE Stepped(n + 1)
    <2>0. n \in Nat
      BY <1>3
    <2>1. PICK f : Steps(f, n)
      BY <1>3
    <2> DEFINE g == [i \in 0..(n + 1) |-> IF i = n + 1 THEN f[n] \o p[s[n + 1]]
                                          ELSE f[i]]
    <2>2. f[n] \in Seq(S) /\ p[s[n + 1]] \in Seq(S)
      BY <1>1, <1>3, <2>1
    <2>3. f[n] \o p[s[n + 1]] \in Seq(S)
      BY <2>2, ConcatProperties
    <2>4. g \in [0..(n + 1) -> Seq(S)] /\ g[0] = <<>>
      BY <2>1, <2>3
    <2>5. \A i \in 1..(n + 1) : g[i] = g[i - 1] \o p[s[i]]
      <3> SUFFICES ASSUME NEW i \in 1..(n + 1) PROVE g[i] = g[i - 1] \o p[s[i]]
        OBVIOUS
      <3>1. CASE i = n + 1
        <4>1. n \in 0..(n + 1) /\ n # n + 1 /\ n + 1 \in 0..(n + 1)
          BY <2>0
        <4>2. g[n] = f[n] /\ g[n + 1] = f[n] \o p[s[n + 1]]
          BY <4>1
        <4>3. i - 1 = n
          BY <2>0, <3>1
        <4> HIDE DEF g
        <4> QED
          BY <3>1, <4>2, <4>3
      <3>2. CASE i \in 1..n
        <4>1. f[i] = f[i - 1] \o p[s[i]]
          BY <2>1, <3>2
        <4>2. g[i - 1] = f[i - 1] /\ g[i] = f[i]
          BY <1>3, <3>2
        <4> QED
          BY <4>1, <4>2
      <3>3. i = n + 1 \/ i \in 1..n
        BY <2>0
      <3> HIDE DEF g
      <3> QED
        BY <3>1, <3>2, <3>3
    <2>6. Steps(g, n + 1)
      <3> HIDE DEF g
      <3> QED
        BY <2>4, <2>5
    <2> QED
      BY <2>6
  <1> HIDE DEF Stepped
  <1>4. T = Nat
    <2>1. 0 \in T
      BY <1>2
    <2>2. ASSUME NEW n \in T PROVE n + 1 \in T
      <3>1. n + 1 <= Len(s) => n <= Len(s)
        BY <1>1
      <3> QED
        BY <1>3, <3>1
    <2> HIDE DEF T
    <2> QED
      BY <2>1, <2>2, NatSetInduction DEF T
  <1>5. Stepped(Len(s))
    BY <1>1, <1>4, SMTT(60)
  <1> DEFINE body(f) == [i \in 0..Len(s) |-> IF i = 0 THEN <<>>
                                              ELSE f[i - 1] \o p[s[i]]]
             j == CHOOSE f : f = body(f)
  <1>6. j = body(j)
    <2>1. PICK f : Steps(f, Len(s))
      BY <1>5 DEF Stepped
    <2>2. \A i \in 0..Len(s) : i # 0 => i \in 1..Len(s)
      BY <1>1
    <2>3. \A i \in 0..Len(s) : f[i] = IF i = 0 THEN <<>> ELSE f[i - 1] \o p[s[i]]
      BY <2>1, <2>2
    <2>4. f = body(f)
      BY <2>1, <2>3
    <2> QED
      BY <2>4
  <1>7. Concat(p, s) = j[Len(s)]
    BY DEF Concat
  <1> HIDE DEF j
  <1>8. j[0] = <<>> /\ \A n \in 1..Len(s) : j[n] = j[n - 1] \o p[s[n]]
    <2>1. 0 \in 0..Len(s) /\ \A n \in 1..Len(s) : n \in 0..Len(s) /\ n # 0
      BY <1>1
    <2>2. \A n \in 0..Len(s) : j[n] = IF n = 0 THEN <<>> ELSE j[n - 1] \o p[s[n]]
      BY <1>6
    <2> QED
      BY <2>1, <2>2
  <1>9. j \in [0..Len(s) -> Seq(S)]
    <2> DEFINE U == {n \in Nat : n <= Len(s) => j[n] \in Seq(S)}
    <2>1. 0 \in U
      BY <1>8, EmptySeq
    <2>2. ASSUME NEW n \in U PROVE n + 1 \in U
      <3> SUFFICES ASSUME n + 1 <= Len(s) PROVE j[n + 1] \in Seq(S)
        OBVIOUS
      <3>1. j[n] \in Seq(S) /\ p[s[n + 1]] \in Seq(S)
        BY <1>1
      <3>2. j[n + 1] = j[n] \o p[s[n + 1]]
        <4>1. n + 1 \in 1..Len(s) /\ (n + 1) - 1 = n
          BY <1>1
        <4> QED
          BY <1>8, <4>1
      <3> QED
        BY <3>1, <3>2, ConcatProperties
    <2>3. U = Nat
      <3>1. U \subseteq Nat
        OBVIOUS
      <3> HIDE DEF U
      <3> QED
        BY <2>1, <2>2, <3>1, NatSetInduction
    <2>4. \A n \in 0..Len(s) : j[n] \in Seq(S)
      BY <1>1, <2>3
    <2> QED
      BY <1>6, <2>4
  <1> QED
    BY <1>7, <1>8, <1>9 DEF Joins

\* What a concatenation is made of.
LEMMA ConcatMembers ==
  ASSUME NEW S, NEW X, NEW s \in Seq(X), NEW p, \A x \in X : p[x] \in Seq(S)
  PROVE  /\ Concat(p, s) \in Seq(S)
         /\ Range(Concat(p, s)) = UNION {Range(p[s[k]]) : k \in DOMAIN s}
  <1>0. \E j : Joins(j, p, s, S)
    BY ConcatSteps
  <1>1. PICK j \in [0..Len(s) -> Seq(S)] :
          /\ j[0] = <<>>
          /\ \A n \in 1..Len(s) : j[n] = j[n - 1] \o p[s[n]]
          /\ Concat(p, s) = j[Len(s)]
    BY <1>0 DEF Joins
  <1>2. Len(s) \in Nat /\ DOMAIN s = 1..Len(s)
    BY LenProperties
  <1> DEFINE T == {n \in Nat : n <= Len(s) =>
                      Range(j[n]) = UNION {Range(p[s[k]]) : k \in 1..n}}
  <1>3. 0 \in T
    <2>1. Range(<<>>) = {}
      BY DEF Range
    <2>2. {Range(p[s[k]]) : k \in 1..0} = {}
      OBVIOUS
    <2> QED
      BY <1>1, <2>1, <2>2
  <1>4. ASSUME NEW n \in T PROVE n + 1 \in T
    <2> SUFFICES ASSUME n + 1 <= Len(s)
                 PROVE  Range(j[n + 1]) = UNION {Range(p[s[k]]) : k \in 1..(n + 1)}
      OBVIOUS
    <2>1. n \in Nat /\ n \in 0..Len(s) /\ n + 1 \in 1..Len(s) /\ (n + 1) - 1 = n
      BY <1>2
    <2>2. j[n] \in Seq(S) /\ p[s[n + 1]] \in Seq(S) /\ j[n + 1] = j[n] \o p[s[n + 1]]
      BY <1>1, <2>1, ElementOfSeq
    <2>3. Range(j[n + 1]) = Range(j[n]) \cup Range(p[s[n + 1]])
      BY <2>2, RangeConcatenation
    <2>4. Range(j[n]) = UNION {Range(p[s[k]]) : k \in 1..n}
      BY <1>2, <2>1
    <2>5. 1..(n + 1) = 1..n \cup {n + 1}
      BY <2>1
    <2> QED
      BY <2>3, <2>4, <2>5, ZenonT(60)
  <1>5. T = Nat
    <2>1. T \subseteq Nat
      OBVIOUS
    <2> HIDE DEF T
    <2> QED
      BY <1>3, <1>4, <2>1, NatSetInduction
  <1>6. Range(j[Len(s)]) = UNION {Range(p[s[k]]) : k \in 1..Len(s)}
    <2>1. Len(s) \in T
      <3> HIDE DEF T
      <3> QED
        BY <1>2, <1>5
    <2>2. Len(s) <= Len(s)
      BY <1>2
    <2> QED
      BY <2>1, <2>2, Zenon
  <1> QED
    BY <1>1, <1>2, <1>6
-----------------------------------------------------------------------------
(* The operators of the model.                                             *)

LEMMA FilesType ==
  /\ Files \subseteq Seq(Names) /\ <<>> \notin Files
  /\ Walk \in Seq(Files) /\ Range(Walk) = Files
  <1>1. Walk \in Seq(Seq(Names) \ {<<>>})
    BY RoutingAssumption
  <1>2. DOMAIN Walk = 1..Len(Walk) /\ Len(Walk) \in Nat
        /\ \A i \in DOMAIN Walk : Walk[i] \in Seq(Names) \ {<<>>}
    BY <1>1, LenProperties, ElementOfSeq
  <1>3. Files = Range(Walk)
    BY DEF Files, Range
  <1>4. Walk \in Seq(Range(Walk))
    BY <1>1, SeqOfRange
  <1> QED
    BY <1>2, <1>3, <1>4 DEF Files

\* The list of a set of pages holds these pages.
LEMMA ListedMembers ==
  ASSUME NEW S \in SUBSET Files
  PROVE  /\ Listed(S) \in Seq(Files)
         /\ \A f : f \in S <=> \E i \in DOMAIN Listed(S) : Listed(S)[i] = f
  <1> DEFINE p == [f \in Files |-> IF f \in S THEN <<f>> ELSE <<>>]
  <1>1. \A f \in Files : p[f] \in Seq(Files)
    OBVIOUS
  <1>2. \A f \in Files : Range(p[f]) = IF f \in S THEN {f} ELSE {}
    <2>1. \A f : Range(<<f>>) = {f}
      BY DEF Range
    <2>2. Range(<<>>) = {}
      BY DEF Range
    <2> QED
      BY <2>1, <2>2
  <1>3. Listed(S) = Concat(p, Walk)
    BY DEF Listed
  <1> HIDE DEF p
  <1>4. /\ Listed(S) \in Seq(Files)
        /\ Range(Listed(S)) = UNION {Range(p[Walk[k]]) : k \in DOMAIN Walk}
    BY <1>1, <1>3, FilesType, ConcatMembers
  <1>5. UNION {Range(p[Walk[k]]) : k \in DOMAIN Walk} = S
    <2>1. \A k \in DOMAIN Walk : Walk[k] \in Files
      BY DEF Files
    <2>2. \A f \in S : \E k \in DOMAIN Walk : Walk[k] = f
      BY DEF Files
    <2>3. ASSUME NEW f \in S PROVE \E k \in DOMAIN Walk : f \in Range(p[Walk[k]])
      BY <1>2, <2>1, <2>2, ZenonT(60)
    <2>4. ASSUME NEW k \in DOMAIN Walk, NEW f \in Range(p[Walk[k]]) PROVE f \in S
      BY <1>2, <2>1
    <2> QED
      BY <2>3, <2>4
  <1> QED
    BY <1>4, <1>5 DEF Range

LEMMA RoutePathType ==
  ASSUME NEW f \in Seq(Names), f # <<>>
  PROVE  RoutePath(f) \in Seq(Names \cup {Slash})
  <1>1. Len(f) \in Nat /\ Len(f) > 0 /\ \A i \in 1..Len(f) : f[i] \in Names
    BY EmptySeq, LenProperties, ElementOfSeq
  <1>2. Front(f) \in Seq(Names \cup {Slash})
    BY <1>1, SubSeqProperties DEF Front
  <1>3. f \in Seq(Names \cup {Slash})
    BY SeqMonotonic
  <1> QED
    BY <1>2, <1>3, AppendProperties DEF RoutePath

LEMMA PartialPathType ==
  ASSUME NEW f \in Seq(Names), f # <<>>, NEW q \in Seq(Names), q # <<>>
  PROVE  PartialPath(f, q) \in Seq(Names \cup {Slash})
  <1> DEFINE d == IF Last(f) = Index THEN Front(f) ELSE f
  <1>1. d \in Seq(Names)
    <2>1. Len(f) \in Nat /\ \A i \in 1..Len(f) : f[i] \in Names
      BY LenProperties, ElementOfSeq
    <2> QED
      BY <2>1, SubSeqProperties DEF Front
  <1> HIDE DEF d
  <1>2. d \o q \in Seq(Names) /\ d \o q # <<>>
    BY <1>1, ConcatProperties, ConcatEqualIffEmpty
  <1> QED
    BY <1>2, RoutePathType DEF PartialPath, d

\* The routes of a page: the first is its own, the others are its partials'.
LEMMA RoutesOfPage ==
  ASSUME NEW f \in Files
  PROVE  /\ RoutesOf[f] \in Seq(Routed) /\ Len(RoutesOf[f]) >= 1
         /\ RoutesOf[f][1] = [path |-> RoutePath(f), page |-> f, part |-> <<>>]
         /\ \A i \in DOMAIN RoutesOf[f] : /\ RoutesOf[f][i].page = f
                                          /\ RoutesOf[f][i].part = <<>> => i = 1
  <1> DEFINE own == <<[path |-> RoutePath(f), page |-> f, part |-> <<>>]>>
             its == [i \in DOMAIN Partials[f] |->
                       [path |-> PartialPath(f, Partials[f][i]),
                        page |-> f, part |-> Partials[f][i]]]
  <1>1. RoutesOf[f] = own \o its
    BY DEF RoutesOf
  <1>2. f \in Seq(Names) /\ f # <<>>
    BY FilesType
  <1>3. own \in Seq(Routed) /\ Len(own) = 1
    <2>1. [path |-> RoutePath(f), page |-> f, part |-> <<>>] \in Routed
      BY <1>2, RoutePathType, EmptySeq DEF Routed
    <2> QED
      BY <2>1
  <1>4. /\ Partials[f] \in Seq(Seq(Names) \ {<<>>})
        /\ DOMAIN Partials[f] = 1..Len(Partials[f]) /\ Len(Partials[f]) \in Nat
        /\ \A i \in 1..Len(Partials[f]) : Partials[f][i] \in Seq(Names) \ {<<>>}
    BY RoutingAssumption, LenProperties, ElementOfSeq
  <1>5. its \in Seq(Routed)
    <2>1. \A i \in 1..Len(Partials[f]) : its[i] \in Routed
      BY <1>2, <1>4, PartialPathType DEF Routed
    <2>2. its \in [1..Len(Partials[f]) -> Routed]
      BY <1>4, <2>1
    <2> HIDE DEF its
    <2> QED
      BY <1>4, <2>2, FcnIsSeq
  <1>6. Len(its) \in Nat /\ DOMAIN its = 1..Len(its)
        /\ \A i \in 1..Len(its) : its[i].page = f /\ its[i].part # <<>>
    BY <1>4
  <1>7. own[1] = [path |-> RoutePath(f), page |-> f, part |-> <<>>]
    OBVIOUS
  <1> HIDE DEF own, its
  <1>8. /\ own \o its \in Seq(Routed) /\ Len(own \o its) = 1 + Len(its)
        /\ \A i \in 1..(1 + Len(its)) :
             (own \o its)[i] = IF i <= 1 THEN own[i] ELSE its[i - 1]
    BY <1>3, <1>5, ConcatProperties, SMTT(60)
  <1>9. \A i \in 1..(1 + Len(its)) :
          /\ (own \o its)[i].page = f
          /\ (own \o its)[i].part = <<>> => i = 1
    BY <1>6, <1>7, <1>8
  <1> QED
    BY <1>1, <1>6, <1>7, <1>8, <1>9, LenProperties

\* The routes of a build: those of the pages that have a Go file in it.
LEMMA RoutesInMembers ==
  ASSUME NEW o, \A g \in DOMAIN o : o[g] \in Files
  PROVE  /\ RoutesIn(o) \in Seq(Routed)
         /\ \A i \in DOMAIN RoutesIn(o) : IsRoute(RoutesIn(o)[i])
         /\ \A f \in Files : Out[f] \in DOMAIN o \ Ignored /\ o[Out[f]] = f =>
              Range(RoutesOf[f]) \subseteq Range(RoutesIn(o))
  <1> DEFINE p == [g \in GoFiles |->
                     IF g \in DOMAIN o \ Ignored THEN RoutesOf[o[g]] ELSE <<>>]
  <1>1. \A g \in GoFiles : p[g] \in Seq(Routed)
    <2>1. \A f \in Files : RoutesOf[f] \in Seq(Routed)
      BY RoutesOfPage
    <2> QED
      BY <2>1, EmptySeq
  <1>2. RoutesIn(o) = Concat(p, Sorted)
    BY DEF RoutesIn
  <1>3. \A g \in GoFiles : g \in DOMAIN o \ Ignored => p[g] = RoutesOf[o[g]]
    OBVIOUS
  <1>4. \A g \in GoFiles : g \notin DOMAIN o \ Ignored => p[g] = <<>>
    OBVIOUS
  <1> HIDE DEF p
  <1>5. Sorted \in Seq(GoFiles)
    BY SortedAssumption
  <1>6. /\ RoutesIn(o) \in Seq(Routed)
        /\ Range(RoutesIn(o)) = UNION {Range(p[Sorted[k]]) : k \in DOMAIN Sorted}
    BY <1>1, <1>2, <1>5, ConcatMembers
  <1>7. \A k \in DOMAIN Sorted : Sorted[k] \in GoFiles
    BY DEF GoFiles
  <1>8. ASSUME NEW f \in Files, Out[f] \in DOMAIN o \ Ignored, o[Out[f]] = f
        PROVE  Range(RoutesOf[f]) \subseteq Range(RoutesIn(o))
    <2>1. Out[f] \in GoFiles
      BY <1>8, SortedAssumption
    <2>2. PICK k \in DOMAIN Sorted : Sorted[k] = Out[f]
      BY <2>1 DEF GoFiles
    <2>3. p[Sorted[k]] = RoutesOf[f]
      BY <1>3, <1>8, <2>1, <2>2
    <2> QED
      BY <1>6, <2>3
  <1>9. ASSUME NEW i \in DOMAIN RoutesIn(o) PROVE IsRoute(RoutesIn(o)[i])
    <2>1. RoutesIn(o)[i] \in Range(RoutesIn(o))
      BY <1>9 DEF Range
    <2>2. PICK k \in DOMAIN Sorted : RoutesIn(o)[i] \in Range(p[Sorted[k]])
      BY <1>6, <2>1
    <2>3. Range(<<>>) = {}
      BY DEF Range
    <2>4. Sorted[k] \in DOMAIN o \ Ignored /\ p[Sorted[k]] = RoutesOf[o[Sorted[k]]]
      BY <1>3, <1>4, <1>7, <2>2, <2>3
    <2> DEFINE f == o[Sorted[k]]
    <2>5. f \in Files
      BY <2>4
    <2> HIDE DEF f
    <2>6. PICK j \in DOMAIN RoutesOf[f] : RoutesIn(o)[i] = RoutesOf[f][j]
      BY <2>2, <2>4 DEF Range, f
    <2>7. RoutesOf[f][j].page = f /\ RoutesOf[f][j] \in Routed
      BY <2>5, RoutesOfPage, ElementOfSeq, LenProperties, ZenonT(60)
    <2> QED
      BY <2>5, <2>6, <2>7 DEF IsRoute, Routed
  <1> QED
    BY <1>6, <1>8, <1>9

\* A build without a clash of types has no route twice.
LEMMA NoClash ==
  ASSUME NEW rs \in Seq(Routed), ~TypesClash(rs)
  PROVE  \A i, j \in DOMAIN rs : rs[i] = rs[j] => i = j
  <1> DEFINE name == [i \in 1..Len(rs) |-> TypeName(rs[i])]
  <1>1. Len(rs) \in Nat /\ DOMAIN rs = 1..Len(rs)
    BY LenProperties
  <1>2. IsFiniteSet(1..Len(rs)) /\ Cardinality(1..Len(rs)) = Len(rs)
    BY <1>1, FS_Interval, SMTT(60)
  <1>3. name \in Surjection(1..Len(rs), Types(rs))
    BY <1>1 DEF Surjection, Types
  <1>4. \A i \in 1..Len(rs) : name[i] = TypeName(rs[i])
    OBVIOUS
  <1> HIDE DEF name
  <1>5. name \in Injection(1..Len(rs), Types(rs))
    BY <1>2, <1>3, FS_Surjection DEF TypesClash
  <1>6. \A i, j \in 1..Len(rs) : name[i] = name[j] => i = j
    BY <1>5, Fun_InjectionProperties
  <1> QED
    BY <1>1, <1>4, <1>6

\* Of matching routes, the one taken has no more slugs than any other.
LEMMA MostSpecificIs ==
  ASSUME routes \in Seq(Routed), NEW m \in SUBSET DOMAIN routes, m # {}
  PROVE  /\ MostSpecific(m) \in m
         /\ \A j \in m : Slugs(MostSpecific(m)) <= Slugs(j)
  <1>1. Len(routes) \in Nat /\ DOMAIN routes = 1..Len(routes) /\ m \subseteq Nat
    BY LenProperties
  <1>2. \A i \in m : Slugs(i) \in Nat
    <2> SUFFICES ASSUME NEW i \in m PROVE Slugs(i) \in Nat
      OBVIOUS
    <2>1. routes[i] \in Routed
      BY <1>1, ElementOfSeq
    <2>2. routes[i].path \in Seq(Names \cup {Slash})
      BY <2>1 DEF Routed
    <2>3. DOMAIN routes[i].path = 1..Len(routes[i].path) /\ Len(routes[i].path) \in Nat
      BY <2>2, LenProperties
    <2>4. IsFiniteSet(DOMAIN routes[i].path)
      BY <2>3, FS_Interval
    <2>5. SlugsAt(routes[i].path) \in SUBSET DOMAIN routes[i].path
      BY DEF SlugsAt
    <2> QED
      BY <2>4, <2>5, FS_Subset, FS_CardinalityType DEF Slugs
  <1> DEFINE N == {Slugs(i) : i \in m}
  <1>3. PICK n \in N : \A k \in N : n <= k
    <2>1. N \in SUBSET Nat /\ N # {}
      BY <1>2
    <2> HIDE DEF N
    <2> QED
      BY <2>1, LeastNatural
  <1> DEFINE L == {i \in m : Slugs(i) = n}
  <1>4. PICK l \in L : \A j \in L : l <= j
    <2>1. L \in SUBSET Nat /\ L # {}
      BY <1>1
    <2> HIDE DEF L
    <2> QED
      BY <2>1, LeastNatural
  <1>5. \A j \in m : Slugs(l) < Slugs(j) \/ (Slugs(l) = Slugs(j) /\ l <= j)
    <2> SUFFICES ASSUME NEW j \in m
                 PROVE  Slugs(l) < Slugs(j) \/ (Slugs(l) = Slugs(j) /\ l <= j)
      OBVIOUS
    <2>1. n <= Slugs(j) /\ Slugs(l) = n
      BY <1>3, <1>4
    <2>2. Slugs(j) \in Nat /\ n \in Nat
      BY <1>2, <2>1, <1>4
    <2>3. Slugs(j) = n => l <= j
      BY <1>4
    <2> QED
      BY <2>1, <2>2, <2>3
  <1>6. \E i \in m : \A j \in m :
          Slugs(i) < Slugs(j) \/ (Slugs(i) = Slugs(j) /\ i <= j)
    BY <1>4, <1>5
  <1>7. /\ MostSpecific(m) \in m
        /\ \A j \in m : Slugs(MostSpecific(m)) < Slugs(j)
                          \/ (Slugs(MostSpecific(m)) = Slugs(j) /\ MostSpecific(m) <= j)
    BY <1>6 DEF MostSpecific
  <1> QED
    BY <1>2, <1>7
-----------------------------------------------------------------------------
(* The inductive invariant.                                                *)

LEMMA InitInv == Init => IInv
  <1> SUFFICES ASSUME Init PROVE IInv
    OBVIOUS
  <1> USE DEF Init
  <1>1. pages \subseteq Files /\ todo = Listed(pages)
    BY DEF Scan
  <1>2. /\ todo \in Seq(Files) /\ \A i \in DOMAIN todo : todo[i] \in Files
        /\ \A f \in pages : \E i \in DOMAIN todo : todo[i] = f
    <2>1. /\ todo \in Seq(Files)
          /\ \A f : f \in pages <=> \E i \in DOMAIN todo : todo[i] = f
      BY <1>1, ListedMembers
    <2> QED
      BY <1>1, <2>1
  <1>3. /\ Len(<<>>) = 0 /\ DOMAIN <<>> = {} /\ <<>> \in Seq(Routed)
        /\ <<>> \in Seq(Segments \cup {Slash})
    OBVIOUS
  <1>4. TypeOK
    <2>1. answer \in 0..Len(routes) /\ edits \in 0..MaxEdits
      BY <1>3, RoutingAssumption
    <2>2. /\ \A g \in DOMAIN outs : outs[g] \in Files /\ Out[outs[g]] = g
          /\ \A i \in DOMAIN routes : IsRoute(routes[i])
          /\ DOMAIN params \subseteq Dynamic
      BY <1>3
    <2> QED
      BY <1>1, <1>2, <1>3, <2>1, <2>2 DEF TypeOK
  <1>5. Lists /\ Scanned /\ Serves /\ Answered
    BY <1>2, <1>3 DEF Lists, Scanned, Serves, Answered
  <1> QED
    BY <1>4, <1>5 DEF IInv

\* What a request keeps of the invariant, and what is to be shown of it.
LEMMA RequestInv ==
  ASSUME IInv, UNCHANGED <<project, phase, todo, outs, routes>>,
         stage' \in {"idle", "asked", "found", "missing", "other"},
         path' \in Seq(Segments \cup {Slash}),
         answer' \in 0..Len(routes), stage' = "found" <=> answer' # 0,
         DOMAIN params' \subseteq Dynamic, phase = "serving",
         stage' = "found" => /\ Matching(path') # {}
                             /\ answer' = MostSpecific(Matching(path')),
         stage' = "missing" => Matching(path') = {}
  PROVE  IInv'
  <1>1. Matching(path)' = Matching(path')
    BY DEF Matching
  <1>2. MostSpecific(Matching(path))' = MostSpecific(Matching(path'))
    BY DEF Matching, MostSpecific, Slugs
  <1>3. TypeOK'
    BY DEF IInv, TypeOK, project
  <1>4. Lists' /\ Scanned'
    BY DEF IInv, Lists, Scanned, project
  <1>5. Serves'
    BY DEF IInv, Serves, TypesClash, Types
  <1>6. Answered'
    BY <1>1, <1>2 DEF Answered
  <1> QED
    BY <1>3, <1>4, <1>5, <1>6 DEF IInv

LEMMA WriteInv == ASSUME IInv, NEW f \in Files, Write(f) PROVE IInv'
  <1> USE DEF IInv, Write, request
  <1>1. TypeOK'
    BY RoutingAssumption DEF TypeOK
  <1>2. Lists' /\ Scanned'
    BY DEF Lists, Scanned
  <1>3. Serves' /\ Answered'
    BY DEF Serves, Answered, TypesClash, Types, Matching, MostSpecific, Slugs
  <1> QED
    BY <1>1, <1>2, <1>3

LEMMA DeleteInv == ASSUME IInv, NEW f \in Files, Delete(f) PROVE IInv'
  <1> USE DEF IInv, Delete, request
  <1>1. TypeOK'
    BY RoutingAssumption DEF TypeOK
  <1>2. Lists' /\ Scanned'
    BY DEF Lists, Scanned
  <1>3. Serves' /\ Answered'
    BY DEF Serves, Answered, TypesClash, Types, Matching, MostSpecific, Slugs
  <1> QED
    BY <1>1, <1>2, <1>3

\* A scan finds what is on disk.
LEMMA ScanInv ==
  ASSUME TypeOK
  PROVE  /\ Scan \in Seq(Files) /\ \A i \in DOMAIN Scan : Scan[i] \in Files
         /\ \A f \in pages : \E i \in DOMAIN Scan : Scan[i] = f
  <1>1. pages \in SUBSET Files
    BY DEF TypeOK
  <1>2. /\ Scan \in Seq(Files)
        /\ \A f : f \in pages <=> \E i \in DOMAIN Scan : Scan[i] = f
    BY <1>1, ListedMembers DEF Scan
  <1> QED
    BY <1>1, <1>2

LEMMA RestartInv == ASSUME IInv, Restart PROVE IInv'
  <1> USE DEF IInv, Restart, request
  <1>1. TypeOK'
    <2>1. DOMAIN <<>> = {}
      OBVIOUS
    <2>2. /\ \A i \in DOMAIN todo' : todo'[i] \in Files
          /\ \A g \in DOMAIN outs' : outs'[g] \in Files /\ Out[outs'[g]] = g
      BY <2>1, ScanInv
    <2> QED
      BY <2>2 DEF TypeOK
  <1>2. Lists' /\ Scanned'
    BY ScanInv DEF Lists, Scanned
  <1>3. Serves' /\ Answered'
    BY DEF Serves, Answered, TypeOK
  <1> QED
    BY <1>1, <1>2, <1>3

LEMMA RebuildInv == ASSUME IInv, Rebuild PROVE IInv'
  <1> USE DEF IInv, Rebuild, request
  <1>1. TypeOK'
    <2>1. answer' \in 0..Len(routes) /\ DOMAIN params' \subseteq Dynamic
      BY LenProperties DEF Lists
    <2>2. /\ stage' \in {"idle", "asked"}
          /\ \A i \in DOMAIN todo' : todo'[i] \in Files
      BY ScanInv
    <2> QED
      BY <2>1, <2>2 DEF TypeOK
  <1>2. Lists' /\ Scanned'
    BY ScanInv DEF Lists, Scanned
  <1>3. Serves' /\ Answered'
    BY DEF Serves, Answered
  <1> QED
    BY <1>1, <1>2, <1>3

LEMMA CompileFileInv == ASSUME IInv, CompileFile PROVE IInv'
  <1> USE DEF IInv, CompileFile, project, request
  <1>1. /\ todo \in Seq(Files) /\ todo # <<>> /\ Head(todo) = todo[1]
        /\ todo[1] \in Files
        /\ Tail(todo) \in Seq(Files) /\ Len(Tail(todo)) = Len(todo) - 1
        /\ \A i \in 1..Len(Tail(todo)) : Tail(todo)[i] = todo[i + 1]
        /\ Len(todo) \in Nat /\ DOMAIN todo = 1..Len(todo)
        /\ DOMAIN Tail(todo) = 1..Len(Tail(todo))
    BY HeadTailProperties, LenProperties, EmptySeq, ElementOfSeq DEF Lists
  <1>2. /\ \A i \in DOMAIN Tail(todo) : Tail(todo)[i] \in Files
        /\ \A i \in DOMAIN todo : i = 1 \/ Tail(todo)[i - 1] = todo[i]
        /\ \A i \in DOMAIN todo : i = 1 \/ i - 1 \in DOMAIN Tail(todo)
    BY <1>1, ElementOfSeq
  <1>3. TypeOK'
    BY <1>1, <1>2 DEF TypeOK
  <1>4. Lists'
    BY <1>1 DEF Lists
  <1>5. Scanned'
    <2> SUFFICES ASSUME ~changed, NEW f \in pages
                 PROVE  \/ Out[f] \in DOMAIN outs'
                        \/ \E i \in DOMAIN todo' : todo'[i] = f
      BY DEF Scanned
    <2>1. DOMAIN outs' = DOMAIN outs \cup {Out[Head(todo)]}
      OBVIOUS
    <2>2. CASE Out[f] \in DOMAIN outs
      BY <2>1, <2>2
    <2>3. ASSUME NEW i \in DOMAIN todo, todo[i] = f
          PROVE  Out[f] \in DOMAIN outs' \/ \E k \in DOMAIN todo' : todo'[k] = f
      BY <1>1, <1>2, <2>1, <2>3
    <2> QED
      BY <2>2, <2>3 DEF Scanned
  <1>6. Serves' /\ Answered'
    BY DEF Serves, Answered
  <1> QED
    BY <1>3, <1>4, <1>5, <1>6

LEMMA CompileFailsInv == ASSUME IInv, CompileFails PROVE IInv'
  <1> USE DEF IInv, CompileFails, project, request
  <1>1. TypeOK'
    BY DEF TypeOK
  <1>2. Lists' /\ Scanned' /\ Serves' /\ Answered'
    BY DEF Lists, Scanned, Serves, Answered
  <1> QED
    BY <1>1, <1>2

LEMMA GoBuildInv == ASSUME IInv, GoBuild PROVE IInv'
  <1> USE DEF IInv, GoBuild, project, request
  <1>1. \A g \in DOMAIN outs : outs[g] \in Files
    BY DEF TypeOK
  <1>2. /\ routes' = RoutesIn(outs) /\ ~TypesClash(RoutesIn(outs))
        /\ RoutesIn(outs) \in Seq(Routed)
        /\ \A i \in DOMAIN RoutesIn(outs) : IsRoute(RoutesIn(outs)[i])
    BY <1>1, RoutesInMembers
  <1>3. stage # "found" /\ stage # "missing" /\ answer = 0 /\ Len(routes') \in Nat
    BY <1>2, LenProperties DEF Answered, TypeOK
  <1>4. TypeOK'
    BY <1>2, <1>3 DEF TypeOK
  <1>5. Lists' /\ Scanned' /\ Serves'
    BY <1>2 DEF Lists, Scanned, Serves
  <1>6. Answered'
    BY <1>3 DEF Answered
  <1> QED
    BY <1>4, <1>5, <1>6

LEMMA GoBuildFailsInv == ASSUME IInv, GoBuildFails PROVE IInv'
  <1> USE DEF IInv, GoBuildFails, project, request
  <1>1. TypeOK'
    BY DEF TypeOK
  <1>2. Lists' /\ Scanned' /\ Serves' /\ Answered'
    BY DEF Lists, Scanned, Serves, Answered
  <1> QED
    BY <1>1, <1>2

LEMMA AskInv == ASSUME IInv, NEW p \in Paths, Ask(p) PROVE IInv'
  <1>1. p \in Seq(Segments \cup {Slash})
    BY RoutingAssumption
  <1>2. 0 \in 0..Len(routes)
    BY LenProperties DEF IInv, Lists
  <1>3. DOMAIN <<>> \subseteq Dynamic
    OBVIOUS
  <1> QED
    BY <1>1, <1>2, <1>3, RequestInv DEF Ask

LEMMA AnswerOtherInv == ASSUME IInv, AnswerOther PROVE IInv'
  <1>1. /\ path \in Seq(Segments \cup {Slash}) /\ answer \in 0..Len(routes)
        /\ answer = 0 /\ DOMAIN params \subseteq Dynamic
    BY DEF IInv, TypeOK, AnswerOther
  <1> QED
    BY <1>1, RequestInv DEF AnswerOther

LEMMA AnswerInv == ASSUME IInv, Answer PROVE IInv'
  <1> USE DEF Answer, Responding
  <1>1. routes \in Seq(Routed) /\ path \in Seq(Segments \cup {Slash})
    BY DEF IInv, Lists, TypeOK
  <1>2. Matching(path) \in SUBSET DOMAIN routes /\ Matching(path) # {}
    BY DEF Matching
  <1>3. answer' \in DOMAIN routes
    BY <1>1, <1>2, MostSpecificIs
  <1>4. answer' \in 0..Len(routes) /\ answer' # 0
    BY <1>1, <1>3, LenProperties
  <1>5. DOMAIN Zip(routes[answer'].path, path) \subseteq Dynamic
    BY DEF Zip, SlugsAt
  <1> QED
    BY <1>1, <1>2, <1>4, <1>5, RequestInv

LEMMA RedirectInv == ASSUME IInv, Redirect PROVE IInv'
  <1> USE DEF Redirect, Responding
  <1>1. /\ path \in Seq(Segments \cup {Slash}) /\ answer \in 0..Len(routes)
        /\ answer = 0 /\ DOMAIN params \subseteq Dynamic
    BY DEF IInv, TypeOK
  <1>2. Front(path) \in Seq(Segments \cup {Slash})
    <2>1. Len(path) \in Nat /\ \A i \in 1..Len(path) : path[i] \in Segments \cup {Slash}
      BY <1>1, LenProperties, ElementOfSeq
    <2> QED
      BY <1>1, <2>1, SubSeqProperties DEF Front
  <1> QED
    BY <1>1, <1>2, RequestInv

LEMMA NotFoundInv == ASSUME IInv, NotFound PROVE IInv'
  <1> USE DEF NotFound, Responding
  <1>1. /\ path \in Seq(Segments \cup {Slash}) /\ answer \in 0..Len(routes)
        /\ answer = 0 /\ DOMAIN params \subseteq Dynamic
    BY DEF IInv, TypeOK
  <1> QED
    BY <1>1, RequestInv

LEMMA StutterInv == ASSUME IInv, UNCHANGED vars PROVE IInv'
  <1> USE DEF IInv, vars, project, request
  <1>1. TypeOK' /\ Lists' /\ Scanned' /\ Serves'
    BY DEF TypeOK, Lists, Scanned, Serves, TypesClash, Types
  <1>2. Answered'
    BY DEF Answered, Matching, MostSpecific, Slugs
  <1> QED
    BY <1>1, <1>2

\* The invariant holds in every behaviour, whatever the names and the pages.
LEMMA Invariance == Spec => []IInv
  <1>1. IInv /\ [Next]_vars => IInv'
    BY WriteInv, DeleteInv, RestartInv, RebuildInv, CompileFileInv,
       CompileFailsInv, GoBuildInv, GoBuildFailsInv, AskInv, AnswerOtherInv,
       AnswerInv, RedirectInv, NotFoundInv, StutterInv
       DEF Next, BuildStep, RequestStep
  <1> QED
    BY InitInv, <1>1, PTL DEF Spec

\* The type invariant: what is compiled is where its page's name puts it, and
\* every route of the application is one that its page registers.
THEOREM TypeCorrect == Spec => []TypeOK
  BY Invariance, PTL DEF IInv
-----------------------------------------------------------------------------
(* Pages are routed.                                                       *)

LEMMA RoutedInv == IInv => PagesRouted
  <1> SUFFICES ASSUME IInv, phase = "serving", ~changed, NEW f \in pages
               PROVE  /\ Out[f] \in DOMAIN outs
                      /\ Built(f) =>
                           \A r \in {RoutesOf[f][k] : k \in DOMAIN RoutesOf[f]} :
                             Cardinality({i \in DOMAIN routes : routes[i] = r}) = 1
    BY DEF PagesRouted
  <1>1. Out[f] \in DOMAIN outs
    BY EmptySeq DEF IInv, Scanned, Serves
  <1>2. ASSUME Built(f), NEW k \in DOMAIN RoutesOf[f]
        PROVE  Cardinality({i \in DOMAIN routes : routes[i] = RoutesOf[f][k]}) = 1
    <2>1. /\ f \in Files /\ \A g \in DOMAIN outs : outs[g] \in Files
          /\ routes = RoutesIn(outs) /\ routes \in Seq(Routed) /\ ~TypesClash(routes)
      BY DEF IInv, TypeOK, Serves, Lists
    <2>2. Range(RoutesOf[f]) \subseteq Range(routes)
      BY <1>2, <2>1, RoutesInMembers DEF Built
    <2>3. PICK i \in DOMAIN routes : routes[i] = RoutesOf[f][k]
      BY <2>2 DEF Range
    <2>4. {j \in DOMAIN routes : routes[j] = RoutesOf[f][k]} = {i}
      BY <2>1, <2>3, NoClash
    <2> QED
      BY <2>4, FS_Singleton
  <1> QED
    BY <1>1, <1>2

\* Each page on disk that has a Go file of its own in the build is served, and
\* each of its partials, by exactly one route.
THEOREM PagesAreRouted == Spec => []PagesRouted
  BY Invariance, RoutedInv, PTL
-----------------------------------------------------------------------------
(* Static pages come first.                                                *)

\* What the route of a page has at its places.
LEMMA RoutePathAt ==
  ASSUME NEW f \in Files
  PROVE  /\ Len(f) \in Nat \ {0} /\ Len(RoutePath(f)) = Len(f)
         /\ DOMAIN f = 1..Len(f) /\ DOMAIN RoutePath(f) = 1..Len(f)
         /\ \A i \in 1..Len(f) :
              RoutePath(f)[i] = IF i = Len(f) /\ f[i] = Index THEN Slash ELSE f[i]
  <1>1. f \in Seq(Names) /\ f # <<>>
    BY FilesType
  <1>2. Len(f) \in Nat \ {0} /\ DOMAIN f = 1..Len(f)
        /\ \A i \in 1..Len(f) : f[i] \in Names
    BY <1>1, EmptySeq, LenProperties, ElementOfSeq
  <1>3. CASE f[Len(f)] = Index
    <2>1. /\ Front(f) \in Seq(Names) /\ Len(Front(f)) = Len(f) - 1
          /\ \A i \in 1..(Len(f) - 1) : Front(f)[i] = f[i]
      BY <1>1, <1>2, SubSeqProperties DEF Front
    <2>2. Front(f) \in Seq(Names \cup {Slash}) /\ Slash \in Names \cup {Slash}
      BY <2>1, SeqMonotonic
    <2> DEFINE d == Front(f)
    <2>3. d \in Seq(Names \cup {Slash}) /\ Len(d) = Len(f) - 1
          /\ \A i \in 1..(Len(f) - 1) : d[i] = f[i]
      BY <2>1, <2>2
    <2>4. RoutePath(f) = Append(d, Slash)
      BY <1>3 DEF RoutePath, Last
    <2> HIDE DEF d
    <2>5. /\ Append(d, Slash) \in Seq(Names \cup {Slash})
          /\ Len(Append(d, Slash)) = Len(d) + 1
          /\ \A i \in 1..Len(d) : Append(d, Slash)[i] = d[i]
          /\ Append(d, Slash)[Len(d) + 1] = Slash
      BY <2>2, <2>3, AppendProperties
    <2>6. Len(d) + 1 = Len(f)
      BY <1>2, <2>3
    <2>7. /\ Len(RoutePath(f)) = Len(f) /\ DOMAIN RoutePath(f) = 1..Len(f)
          /\ RoutePath(f)[Len(f)] = Slash
      BY <2>4, <2>5, <2>6, LenProperties
    <2>8. ASSUME NEW i \in 1..Len(f), i # Len(f) PROVE RoutePath(f)[i] = f[i]
      <3>1. Len(f) \in Nat /\ i \in 1..Len(f) /\ i # Len(f)
        BY <1>2, <2>8
      <3>2. i \in 1..(Len(f) - 1)
        BY <3>1
      <3>3. i \in 1..Len(d)
        BY <2>3, <3>2, SMTT(60)
      <3> QED
        BY <2>3, <2>4, <2>5, <3>2, <3>3, SMTT(60)
    <2> QED
      BY <1>2, <1>3, <2>7, <2>8
  <1>4. CASE f[Len(f)] # Index
    BY <1>2, <1>4 DEF RoutePath, Last
  <1> QED
    BY <1>3, <1>4

\* Two pages do not have the same route.
LEMMA RoutePathInjective ==
  ASSUME NEW f \in Files, NEW g \in Files, RoutePath(f) = RoutePath(g)
  PROVE  f = g
  <1>1. Len(f) = Len(g) /\ f \in Seq(Names) /\ g \in Seq(Names)
    BY FilesType, RoutePathAt
  <1>2. Slash \notin Names
    BY RoutingAssumption
  <1>3. \A i \in 1..Len(f) : f[i] \in Names /\ g[i] \in Names
    BY <1>1, ElementOfSeq
  <1>4. \A i \in 1..Len(f) : f[i] = g[i]
    BY <1>1, <1>2, <1>3, RoutePathAt
  <1> QED
    BY <1>1, <1>4, SeqEqual

LEMMA StaticInv == IInv => StaticFirst
  <1> SUFFICES ASSUME IInv, phase = "serving", stage \in {"found", "missing"},
                      NEW f \in pages, Built(f), Static(f),
                      path = RoutePath(f), Fits(path, path)
               PROVE  /\ stage = "found"
                      /\ SlugsAt(routes[answer].path) = {}
                      /\ routes[answer].page # f =>
                           \/ routes[answer].part # <<>>
                           \/ routes[answer].path # path
    BY DEF StaticFirst
  <1>1. /\ f \in Files /\ \A g \in DOMAIN outs : outs[g] \in Files
        /\ routes = RoutesIn(outs) /\ routes \in Seq(Routed)
    BY DEF IInv, TypeOK, Serves, Lists
  <1>2. PICK i \in DOMAIN routes :
          routes[i] = [path |-> RoutePath(f), page |-> f, part |-> <<>>]
    <2>1. Range(RoutesOf[f]) \subseteq Range(routes)
      BY <1>1, RoutesInMembers DEF Built
    <2>2. /\ 1 \in DOMAIN RoutesOf[f]
          /\ RoutesOf[f][1] = [path |-> RoutePath(f), page |-> f, part |-> <<>>]
      BY <1>1, RoutesOfPage, LenProperties
    <2> QED
      BY <2>1, <2>2 DEF Range
  <1>3. routes[i].path = path
    BY <1>2
  <1>4. i \in Matching(path)
    BY <1>3 DEF Matching
  <1>5. stage = "found" /\ answer = MostSpecific(Matching(path))
    BY <1>4 DEF IInv, Answered
  <1>6. /\ answer \in Matching(path) /\ answer \in DOMAIN routes
        /\ Slugs(answer) <= Slugs(i)
    BY <1>1, <1>4, <1>5, MostSpecificIs DEF Matching
  <1>7. SlugsAt(path) = {}
    <2>1. Dynamic \subseteq Names /\ Slash \notin Names
      BY RoutingAssumption
    <2>2. \A k \in DOMAIN path : path[k] \notin Dynamic
      BY <1>1, <2>1, RoutePathAt DEF Static
    <2> QED
      BY <2>2 DEF SlugsAt
  <1>8. SlugsAt(routes[answer].path) = {}
    <2>1. Slugs(i) = 0
      BY <1>3, <1>7, FS_EmptySet DEF Slugs
    <2>2. routes[answer].path \in Seq(Names \cup {Slash})
      <3>1. routes[answer] \in Routed
        BY <1>1, <1>6, ElementOfSeq, LenProperties
      <3> QED
        BY <3>1 DEF Routed
    <2>3. IsFiniteSet(DOMAIN routes[answer].path)
      BY <2>2, LenProperties, FS_Interval
    <2>4. IsFiniteSet(SlugsAt(routes[answer].path))
      BY <2>3, FS_Subset DEF SlugsAt
    <2>5. Slugs(answer) \in Nat
      BY <2>4, FS_CardinalityType DEF Slugs
    <2>6. Cardinality(SlugsAt(routes[answer].path)) = 0
      BY <1>6, <2>1, <2>5 DEF Slugs
    <2> QED
      BY <2>4, <2>6, FS_EmptySet
  <1>9. ASSUME routes[answer].part = <<>>, routes[answer].path = path
        PROVE  routes[answer].page = f
    <2> DEFINE g == routes[answer].page
    <2>1. g \in Files /\ routes[answer] \in {RoutesOf[g][k] : k \in DOMAIN RoutesOf[g]}
      BY <1>6 DEF IInv, TypeOK, IsRoute
    <2>2. PICK k \in DOMAIN RoutesOf[g] : routes[answer] = RoutesOf[g][k]
      BY <2>1
    <2>3. k = 1
      BY <1>9, <2>1, <2>2, RoutesOfPage
    <2>4. RoutePath(g) = RoutePath(f)
      <3> HIDE DEF g
      <3>1. RoutesOf[g][1] = [path |-> RoutePath(g), page |-> g, part |-> <<>>]
        BY <2>1, RoutesOfPage
      <3>2. routes[answer].path = RoutePath(g)
        BY <2>2, <2>3, <3>1
      <3> QED
        BY <1>9, <3>2
    <2> QED
      BY <1>1, <2>1, <2>4, RoutePathInjective
  <1> QED
    BY <1>5, <1>8, <1>9

\* A request for the path of a page without dynamic parts is answered by a
\* route without any, and not by the page of another name unless as its partial.
THEOREM StaticComesFirst == Spec => []StaticFirst
  BY Invariance, StaticInv, PTL
=============================================================================
