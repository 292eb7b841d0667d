-------------------------- MODULE PartialGenProofs --------------------------
(* Theorems about the code generated for partials, for trees of any size.  *)
EXTENDS PartialGen, SequenceTheorems, WellFoundedInduction, TLAPS

LEMMA NodesType ==
  /\ Size \in Nat
  /\ \A n : n \in Nodes <=> n \in Nat /\ 1 <= n /\ n <= Size
  /\ \A n : n \in 0..Size <=> n = 0 \/ n \in Nodes
  BY SizeAssumption DEF Nodes

LEMMA TreeType ==
  ASSUME TypeOK
  PROVE  /\ \A n \in Nodes : last[n] \in Nodes /\ parent[n] \in 0..Size
         /\ \A n \in {0} \cup Nodes : out[n] \in Seq(Statements)
         /\ cur \in 0..Size /\ target \in 0..Size /\ at \in 1..(Size + 1)
  BY DEF TypeOK

\* Where a walk that reaches or leaves a node is.
LEMMA Reached ==
  ASSUME IInv, NEW n \in Nodes, NEW k \in Kinds, Reach(n, k)
  PROVE  /\ n = at /\ cur < n /\ n <= last[n] /\ last[n] <= Size
         /\ cur # 0 => last[n] <= last[cur]
         /\ scope => Encloses(target, n)
  <1>1. n \in Nat /\ last[n] \in Nat /\ last[n] <= Size /\ n = at /\ n <= last[n]
    BY NodesType, TreeType DEF IInv, IsTree, Reach
  <1>2. cur < n /\ cur \in Nat /\ (cur # 0 => cur \in Nodes)
    BY NodesType, TreeType DEF IInv, IsTree, Reach
  <1>3. cur # 0 => last[n] <= last[cur]
    BY DEF IInv, IsTree, Reach
  <1>4. ASSUME scope
        PROVE  Encloses(target, n)
    <2>1. target \in Nodes /\ cur \in Nodes /\ target <= cur
      BY <1>2, <1>4, NodesType, TreeType DEF IInv, InScope, Encloses
    <2>2. last[cur] <= last[target]
      <3>1. CASE target = cur
        BY <3>1, <2>1, NodesType, TreeType DEF IInv
      <3>2. CASE target # cur
        <4>1. Encloses(target, cur)
          BY <1>4, <3>2 DEF IInv, InScope
        <4> QED
          BY <4>1, <2>1 DEF Encloses, IInv, IsTree
      <3> QED
        BY <3>1, <3>2
    <2>3. last[cur] \in Nat /\ last[target] \in Nat /\ cur # 0
      BY <2>1, NodesType, TreeType DEF IInv
    <2>4. target \in Nat /\ target < n
      BY <1>1, <1>2, <2>1, NodesType, TreeType
    <2> QED
      BY <1>1, <1>3, <2>2, <2>3, <2>4 DEF Encloses
  <1> QED
    BY <1>1, <1>2, <1>3, <1>4

LEMMA Left ==
  ASSUME IInv, NEW n \in Nodes, NEW k \in Kinds, Leave(n, k)
  PROVE  /\ n = cur /\ at = last[n] + 1 /\ parent[n] \in 0..Size
         /\ parent[n] # 0 => /\ parent[n] \in Nodes /\ parent[n] < n
                            /\ last[n] <= last[parent[n]]
         /\ scope /\ k # "partial" =>
              /\ Encloses(target, n)
              /\ parent[n] # 0
              /\ target = parent[n] \/ Encloses(target, parent[n])
  <1>1. n = cur /\ at = last[n] + 1 /\ kind[n] = k
    BY DEF Leave
  <1>2. parent[n] \in 0..Size /\ n \in Nat /\ last[n] \in Nat
    BY NodesType, TreeType DEF IInv
  <1>3. ASSUME parent[n] # 0
        PROVE  parent[n] \in Nodes /\ parent[n] < n /\ last[n] <= last[parent[n]]
    BY <1>2, <1>3, NodesType, TreeType DEF IInv, IsTree
  <1>4. ASSUME scope, k # "partial"
        PROVE  /\ Encloses(target, n)
               /\ parent[n] # 0
               /\ target = parent[n] \/ Encloses(target, parent[n])
    <2>1. target \in Nodes /\ target # n
      BY <1>1, <1>4, NodesType, TreeType DEF IInv, InScope, Targets
    <2>2. Encloses(target, n)
      BY <1>1, <1>4, <2>1 DEF IInv, InScope
    <2>3. target <= parent[n]
      BY <2>1, <2>2 DEF Encloses, IInv, IsTree
    <2>4. target \in Nat /\ 1 <= target /\ last[target] \in Nat
      BY <2>1, NodesType, TreeType DEF IInv
    <2>5. parent[n] # 0
      BY <2>3, <2>4
    <2> QED
      BY <1>2, <1>3, <2>2, <2>3, <2>4, <2>5, NodesType, TreeType DEF Encloses
  <1> QED
    BY <1>1, <1>2, <1>3, <1>4

\* What a walk generates keeps the type of out, and the responder's scope.
LEMMA Emitted ==
  ASSUME IInv, NEW cond \in BOOLEAN, NEW n \in Nodes,
         NEW what \in {"write", "end", "code", "begin", "close"},
         cond /\ what \in {"write", "end"} /\ target # 0 => Encloses(target, n),
         Emit(cond, what, n), UNCHANGED tree
  PROVE  /\ out' \in [{0} \cup Nodes -> Seq(Statements)]
         /\ ScopedOutput'
  <1>1. CASE ~cond
    BY <1>1 DEF Emit, IInv, TypeOK, ScopedOutput, tree, Encloses
  <1>2. CASE cond
    <2> DEFINE new == Append(out[target], <<what, n>>)
    <2>1. target \in {0} \cup Nodes /\ out[target] \in Seq(Statements)
      BY NodesType, TreeType DEF IInv
    <2>2. <<what, n>> \in Statements
      BY DEF Statements
    <2>3. new \in Seq(Statements)
      BY <2>1, <2>2
    <2>4. out' = [out EXCEPT ![target] = new]
      BY <1>2 DEF Emit
    <2>5. out' \in [{0} \cup Nodes -> Seq(Statements)]
      BY <2>1, <2>3, <2>4 DEF IInv, TypeOK
    <2>6. out'[target] = new
      BY <2>1, <2>4 DEF IInv, TypeOK
    <2>7. ASSUME NEW p \in Nodes, NEW i \in 1..Len(out'[p]), IsMarkup(out'[p][i])
          PROVE  Encloses(p, out'[p][i][2])
      <3>1. CASE p # target
        <4>1. out'[p] = out[p]
          BY <2>4, <3>1 DEF IInv, TypeOK
        <4> QED
          BY <2>7, <4>1 DEF IInv, ScopedOutput
      <3>2. CASE p = target
        <4>1. out'[p] = new /\ target # 0
          BY <2>6, <3>2, NodesType
        <4>2. CASE i = Len(new)
          <5>1. new[i] = <<what, n>>
            BY <2>1, <2>2, <4>2
          <5> QED
            BY <1>2, <2>7, <3>2, <4>1, <5>1 DEF IsMarkup
        <4>3. CASE i # Len(new)
          <5>1. i \in 1..Len(out[target]) /\ new[i] = out[target][i]
            BY <2>1, <2>2, <4>1, <4>3
          <5> QED
            BY <2>7, <3>2, <4>1, <5>1 DEF IInv, ScopedOutput
        <4> QED
          BY <4>2, <4>3
      <3> QED
        BY <3>1, <3>2
    <2>8. ScopedOutput'
      BY <2>7 DEF ScopedOutput, Encloses, tree, IsMarkup
    <2> QED
      BY <2>5, <2>8
  <1> QED
    BY <1>1, <1>2

-----------------------------------------------------------------------------
(* Steps: into a node, past one, out of one, from one walk to the next.    *)

LEMMA InitInv == Init => IInv
  <1> SUFFICES ASSUME Init PROVE IInv
    OBVIOUS
  <1>1. TypeOK
    <2>1. partials \in Seq(Nodes) /\ turn \in 0..Len(partials)
      BY DEF Init
    <2>2. out \in [{0} \cup Nodes -> Seq(Statements)]
      BY DEF Init
    <2>3. target \in 0..Size /\ at \in 1..(Size + 1) /\ cur \in 0..Size
      BY NodesType DEF Init
    <2> QED
      BY <2>1, <2>2, <2>3 DEF Init, TypeOK
  <1>2. out = [p \in {0} \cup Nodes |-> <<>>]
    BY DEF Init
  <1>3. ScopedOutput
    BY <1>2 DEF ScopedOutput
  <1> QED
    BY <1>1, <1>3 DEF Init, IInv, Position, Targets, InScope

\* The parts of the invariant that no visit of a node can disturb.
LEMMA Unmoved ==
  ASSUME IInv, UNCHANGED <<tree, turn, target>>,
         \/ UNCHANGED <<phase, partials>>
         \/ phase' = "panicked" /\ UNCHANGED partials
         \/ /\ UNCHANGED phase
            /\ \E n \in Nodes : kind[n] = "partial" /\ partials' = Append(partials, n)
  PROVE  /\ IsTree' /\ Targets'
         /\ kind' \in [Nodes -> Kinds] /\ last' \in [Nodes -> Nodes]
         /\ parent' \in [Nodes -> 0..Size]
         /\ phase' \in {"collect", "page", "partial", "done", "panicked"}
         /\ partials' \in Seq(Nodes) /\ turn' \in 0..Len(partials')
         /\ target' \in 0..Size
  <1>1. IsTree'
    BY DEF IInv, IsTree, tree
  <1>2. /\ partials' \in Seq(Nodes) /\ turn' \in 0..Len(partials')
        /\ \A i \in 1..Len(partials') : kind[partials'[i]] = "partial"
    <2>1. /\ partials \in Seq(Nodes) /\ turn \in 0..Len(partials)
          /\ \A i \in 1..Len(partials) : kind[partials[i]] = "partial"
      BY DEF IInv, TypeOK, Targets
    <2>2. CASE UNCHANGED partials
      BY <2>1, <2>2
    <2>3. ASSUME NEW n \in Nodes, kind[n] = "partial",
                 partials' = Append(partials, n)
          PROVE  /\ partials' \in Seq(Nodes) /\ turn' \in 0..Len(partials')
                 /\ \A i \in 1..Len(partials') : kind[partials'[i]] = "partial"
      <3>1. /\ partials' \in Seq(Nodes) /\ Len(partials') = Len(partials) + 1
            /\ Len(partials) \in Nat
            /\ \A i \in 1..Len(partials) : partials'[i] = partials[i]
            /\ partials'[Len(partials) + 1] = n
        BY <2>1, <2>3
      <3> QED
        BY <2>1, <2>3, <3>1
    <2> QED
      BY <2>2, <2>3
  <1> QED
    BY <1>1, <1>2 DEF IInv, TypeOK, Targets, tree

\* Into a node or past it.
LEMMA ForwardStep ==
  ASSUME IInv, NEW n \in Nodes, NEW k \in Kinds, Reach(n, k),
         NEW cond \in BOOLEAN, NEW what \in {"write", "end", "code", "begin", "close"},
         Emit(cond, what, n) \/ UNCHANGED out,
         cond /\ what \in {"write", "end"} => Writes,
         Enter(n) \/ Pass(n) \/ Skip(n),
         UNCHANGED <<tree, phase, partials, turn, target>>,
         \/ UNCHANGED scope
         \/ /\ Enter(n) /\ k = "partial"
            /\ scope' = (scope \/ (phase = "partial" /\ n = target))
  PROVE  IInv'
  <1>1. /\ n = at /\ cur < n /\ n <= last[n] /\ last[n] <= Size
        /\ cur # 0 => last[n] <= last[cur]
        /\ scope => Encloses(target, n)
    BY Reached
  <1>2. /\ out' \in [{0} \cup Nodes -> Seq(Statements)]
        /\ ScopedOutput'
    <2>1. CASE UNCHANGED out
      BY <2>1 DEF IInv, TypeOK, ScopedOutput, tree, Encloses
    <2>2. CASE Emit(cond, what, n)
      <3>1. Writes /\ target # 0 => scope
        BY DEF Writes, IInv, Targets
      <3> QED
        BY <1>1, <2>2, <3>1, Emitted
    <2> QED
      BY <2>1, <2>2
  <1>3. /\ at' \in 1..(Size + 1) /\ cur' \in 0..Size
        /\ cur' # 0 => cur' < at' /\ at' <= last[cur'] + 1
    <2>1. n \in Nat /\ last[n] \in Nat /\ cur \in Nat
      BY NodesType, TreeType DEF IInv
    <2>2. cur # 0 => cur \in Nodes /\ last[cur] \in Nat
      BY NodesType, TreeType DEF IInv
    <2> QED
      BY <1>1, <2>1, <2>2, NodesType, TreeType, SMTT(60) DEF IInv, Enter, Pass, Skip
  <1>4. scope' \in BOOLEAN
    BY DEF IInv, TypeOK
  <1>5. InScope'
    <2>1. CASE UNCHANGED scope /\ UNCHANGED cur
      BY <2>1 DEF IInv, InScope, Encloses, tree
    <2>2. CASE UNCHANGED scope /\ Enter(n)
      BY <1>1, <2>2, NodesType DEF Enter, IInv, InScope, Encloses, tree
    <2>3. CASE Enter(n) /\ scope' = (scope \/ (phase = "partial" /\ n = target))
      <3>1. CASE scope
        BY <1>1, <2>3, <3>1, NodesType DEF Enter, IInv, InScope, Encloses, tree
      <3>2. CASE ~scope
        <4>1. scope' => phase = "partial" /\ n = target
          BY <2>3, <3>2
        <4> QED
          BY <2>3, <4>1, NodesType DEF Enter, InScope
      <3> QED
        BY <3>1, <3>2
    <2> QED
      BY <2>1, <2>2, <2>3 DEF Pass, Skip
  <1>6. Position'
    BY <1>3 DEF Position, tree
  <1>7. IsTree' /\ Targets'
    BY Unmoved
  <1>8. TypeOK'
    BY <1>2, <1>3, <1>4, Unmoved DEF TypeOK
  <1> QED
    BY <1>2, <1>5, <1>6, <1>7, <1>8 DEF IInv

\* Out of a node.
LEMMA BackwardStep ==
  ASSUME IInv, NEW n \in Nodes, NEW k \in Kinds, Leave(n, k),
         NEW cond \in BOOLEAN, NEW what \in {"write", "end", "code", "begin", "close"},
         Emit(cond, what, n) \/ UNCHANGED out,
         cond /\ what \in {"write", "end"} => Writes /\ k # "partial",
         UNCHANGED <<tree, phase, turn, target>>,
         partials' = partials \/ (k = "partial" /\ partials' = Append(partials, n)),
         \/ UNCHANGED scope /\ k # "partial"
         \/ scope' = FALSE
  PROVE  IInv'
  <1>1. /\ n = cur /\ at = last[n] + 1 /\ parent[n] \in 0..Size
        /\ parent[n] # 0 => /\ parent[n] \in Nodes /\ parent[n] < n
                           /\ last[n] <= last[parent[n]]
        /\ scope /\ k # "partial" =>
             /\ Encloses(target, n)
             /\ parent[n] # 0
             /\ target = parent[n] \/ Encloses(target, parent[n])
    BY Left
  <1>2. /\ out' \in [{0} \cup Nodes -> Seq(Statements)]
        /\ ScopedOutput'
    <2>1. CASE UNCHANGED out
      BY <2>1 DEF IInv, TypeOK, ScopedOutput, tree, Encloses
    <2>2. CASE Emit(cond, what, n)
      <3>1. Writes /\ target # 0 => scope
        BY DEF Writes, IInv, Targets
      <3> QED
        BY <1>1, <2>2, <3>1, Emitted
    <2> QED
      BY <2>1, <2>2
  <1>3. cur' = parent[n] /\ at' = at /\ kind[n] = k
    BY DEF Leave
  <1>4. Position'
    <2>1. n \in Nat /\ last[n] \in Nat /\ n <= last[n]
      BY NodesType, TreeType DEF IInv, IsTree
    <2>2. parent[n] # 0 => parent[n] \in Nat /\ last[parent[n]] \in Nat
      BY <1>1, NodesType, TreeType DEF IInv
    <2> QED
      BY <1>1, <1>3, <2>1, <2>2 DEF Position, tree
  <1>5. InScope'
    BY <1>1, <1>3 DEF IInv, InScope, Encloses, tree
  <1>6. IsTree' /\ Targets'
    BY <1>3, Unmoved
  <1>7. TypeOK'
    <2>1. cur' \in 0..Size /\ at' \in 1..(Size + 1) /\ scope' \in BOOLEAN
      BY <1>1, <1>3 DEF IInv, TypeOK
    <2> QED
      BY <1>2, <1>3, <2>1, Unmoved DEF TypeOK
  <1> QED
    BY <1>2, <1>4, <1>5, <1>6, <1>7 DEF IInv

\* Out of a node other than a partial.
LEMMA BlockStep ==
  ASSUME IInv, NEW n \in Nodes, NEW k \in Kinds, Leave(n, k), k # "partial",
         NEW cond \in BOOLEAN, NEW what \in {"write", "end", "code", "begin", "close"},
         Emit(cond, what, n),
         cond /\ what \in {"write", "end"} => Writes,
         UNCHANGED <<tree, phase, partials, turn, target, scope>>
  PROVE  IInv'
  <1>1. UNCHANGED <<tree, phase, turn, target>> /\ partials' = partials
        /\ UNCHANGED scope
    OBVIOUS
  <1>2. cond /\ what \in {"write", "end"} => Writes /\ k # "partial"
    OBVIOUS
  <1> QED
    BY <1>1, <1>2, BackwardStep

LEMMA NextWalkStep == ASSUME IInv, NextWalk PROVE IInv'
  <1>1. IsTree' /\ ScopedOutput'
    BY DEF NextWalk, IInv, IsTree, ScopedOutput, Encloses, tree
  <1>2. Position' /\ InScope'
    BY DEF NextWalk, IInv, Position, InScope
  <1>3. /\ turn' \in 0..Len(partials) /\ target' \in 0..Size
        /\ \A i \in 1..Len(partials) : kind[partials[i]] = "partial"
        /\ target' # 0 => kind[target'] = "partial"
        /\ phase' \in {"collect", "page"} => target' = 0
    <2>1. /\ partials \in Seq(Nodes) /\ turn \in 0..Len(partials)
          /\ \A i \in 1..Len(partials) : kind[partials[i]] = "partial"
          /\ target \in 0..Size
          /\ target # 0 => kind[target] = "partial"
          /\ phase \in {"collect", "page"} => target = 0
      BY DEF IInv, TypeOK, Targets
    <2>2. CASE UNCHANGED <<turn, target>>
      BY <2>1, <2>2 DEF NextWalk
    <2>3. CASE turn < Len(partials) /\ phase' = "partial" /\ turn' = turn + 1
               /\ target' = partials[turn + 1]
      <3>1. turn + 1 \in 1..Len(partials)
        BY <2>1, <2>3
      <3>2. target' \in Nodes /\ kind[target'] = "partial"
        BY <2>1, <2>3, <3>1
      <3> QED
        BY <2>1, <2>3, <3>1, <3>2, NodesType
    <2> QED
      BY <2>2, <2>3 DEF NextWalk
  <1>4. Targets'
    BY <1>3 DEF NextWalk, Targets, tree
  <1>5. at' \in 1..(Size + 1)
    BY NodesType DEF NextWalk
  <1>6. TypeOK'
    BY <1>3, <1>5 DEF NextWalk, IInv, TypeOK, tree
  <1> QED
    BY <1>1, <1>2, <1>4, <1>6 DEF IInv

LEMMA PanicStep == ASSUME IInv, NEW n \in Nodes, SectionPanics(n) PROVE IInv'
  <1> USE DEF SectionPanics, IInv, tree
  <1>1. IsTree' /\ ScopedOutput' /\ Position' /\ Targets' /\ InScope'
    BY DEF IsTree, ScopedOutput, Position, Targets, InScope, Encloses
  <1>2. TypeOK'
    BY DEF TypeOK
  <1> QED
    BY <1>1, <1>2

LEMMA StutterStep == ASSUME IInv, UNCHANGED vars PROVE IInv'
  BY DEF vars, tree, IInv, TypeOK, IsTree, Position, Targets, InScope,
         ScopedOutput, Encloses, IsMarkup, Statements

LEMMA VisitStep == ASSUME IInv, NEW n \in Nodes, Visit(n) PROVE IInv'
  <1> USE DEF Kinds, Leaves
  <1>1. Writes \in BOOLEAN /\ Generates \in BOOLEAN
    BY DEF Writes, Generates, IInv, TypeOK
  <1>2. CASE SkipSection(n) \/ SkipFor(n)
    BY <1>2, ForwardStep, <1>1 DEF SkipSection, SkipFor
  <1>3. CASE VisitText(n)
    BY <1>3, ForwardStep, <1>1 DEF VisitText
  <1>4. CASE VisitCode(n)
    BY <1>4, ForwardStep, <1>1 DEF VisitCode
  <1>5. CASE EnterElement(n)
    BY <1>5, ForwardStep, <1>1 DEF EnterElement
  <1>6. CASE EnterIf(n)
    BY <1>6, ForwardStep, <1>1 DEF EnterIf
  <1>7. CASE EnterFor(n)
    BY <1>7, ForwardStep, <1>1 DEF EnterFor
  <1>8. CASE EnterSection(n)
    BY <1>8, ForwardStep, <1>1 DEF EnterSection
  <1>9. CASE EnterPartial(n)
    BY <1>9, ForwardStep, <1>1 DEF EnterPartial
  <1>10. CASE LeaveElement(n)
    <2>1. /\ Leave(n, "element") /\ Emit(Writes, "end", n)
          /\ UNCHANGED <<tree, phase, partials, turn, target, scope>>
      BY <1>10 DEF LeaveElement
    <2> QED
      BY <2>1, BlockStep, <1>1
  <1>11. CASE LeaveIf(n)
    <2>1. /\ Leave(n, "if") /\ Emit(Generates, "close", n)
          /\ UNCHANGED <<tree, phase, partials, turn, target, scope>>
      BY <1>11 DEF LeaveIf
    <2> QED
      BY <2>1, BlockStep, <1>1
  <1>12. CASE LeaveFor(n)
    <2>1. /\ Leave(n, "for") /\ Emit(Generates, "close", n)
          /\ UNCHANGED <<tree, phase, partials, turn, target, scope>>
      BY <1>12 DEF LeaveFor
    <2> QED
      BY <2>1, BlockStep, <1>1
  <1>13. CASE LeaveSection(n)
    <2>1. /\ Leave(n, "section") /\ Emit(FALSE, "close", n)
          /\ UNCHANGED <<tree, phase, partials, turn, target, scope>>
      BY <1>13 DEF LeaveSection, Emit
    <2> QED
      BY <2>1, BlockStep, <1>1
  <1>14. CASE LeavePartial(n)
    BY <1>14, BackwardStep, <1>1 DEF LeavePartial
  <1>15. CASE SectionPanics(n)
    BY <1>15, PanicStep
  <1> QED
    BY <1>2, <1>3, <1>4, <1>5, <1>6, <1>7, <1>8, <1>9, <1>10, <1>11, <1>12,
       <1>13, <1>14, <1>15 DEF Visit
-----------------------------------------------------------------------------
(* The theorems. *)

\* The inductive invariant holds in every behaviour.
THEOREM Invariance == Spec => []IInv
  <1>1. IInv /\ [Next]_vars => IInv'
    BY NextWalkStep, VisitStep, StutterStep DEF Next, Finished
  <1> QED
    BY <1>1, InitInv, PTL DEF Spec

\* The compiler's walks keep their types, for trees of any size.
THEOREM TypeCorrect == Spec => []TypeOK
  <1>1. IInv => TypeOK
    BY DEF IInv
  <1> QED
    BY <1>1, Invariance, PTL

\* genNodePartial never generates output for a node outside its partial,
\* whatever the tree and however partials nest.
THEOREM PartialsStayInScope == Spec => []ScopedOutput
  <1>1. IInv => ScopedOutput
    BY DEF IInv
  <1> QED
    BY <1>1, Invariance, PTL
-----------------------------------------------------------------------------
(* Partials are found.                                                     *)

\* The nodes a walk is in, where it reaches or leaves node n.
LEMMA OpenAt ==
  ASSUME IInv, NEW n \in Nodes, NEW m \in Nodes
  PROVE  m = parent[n] \/ Encloses(m, parent[n]) <=> Encloses(m, n)
  <1>1. /\ n \in Nat /\ m \in Nat /\ 1 <= m /\ last[n] \in Nat /\ last[m] \in Nat
        /\ parent[n] \in Nat /\ parent[n] < n /\ n <= last[n]
        /\ parent[n] # 0 => parent[n] \in Nodes
    BY NodesType, TreeType DEF IInv, IsTree
  <1>2. ASSUME parent[n] # 0
        PROVE  last[parent[n]] \in Nat /\ last[n] <= last[parent[n]]
    BY <1>1, <1>2, NodesType, TreeType DEF IInv, IsTree
  <1>3. ASSUME Encloses(m, n) PROVE m = parent[n] \/ Encloses(m, parent[n])
    <2>1. m < n /\ n <= last[m]
      BY <1>3 DEF Encloses
    <2>2. m <= parent[n]
      BY <2>1 DEF IInv, IsTree
    <2> QED
      BY <1>1, <2>1, <2>2 DEF Encloses
  <1>4. ASSUME m = parent[n] PROVE Encloses(m, n)
    BY <1>1, <1>2, <1>4 DEF Encloses
  <1>5. ASSUME Encloses(m, parent[n]) PROVE Encloses(m, n)
    <2>1. parent[n] \in Nodes /\ m < parent[n] /\ parent[n] <= last[m]
      BY <1>1, <1>5 DEF Encloses
    <2>2. last[parent[n]] <= last[m]
      BY <2>1 DEF IInv, IsTree
    <2> QED
      BY <1>1, <1>2, <2>1, <2>2 DEF Encloses
  <1> QED
    BY <1>3, <1>4, <1>5

\* What entering, passing and leaving a node changes.
LEMMA Entered ==
  ASSUME IInv, NEW n \in Nodes, NEW k \in Kinds, Reach(n, k), Enter(n),
         UNCHANGED tree, NEW m \in Nodes
  PROVE  /\ Open(m)' <=> Open(m) \/ m = n
         /\ Passed(m)' <=> Passed(m)
         /\ ~Open(n) /\ ~Passed(n)
  <1>1. Open(m) <=> Encloses(m, n)
    BY OpenAt DEF Reach, Open
  <1>2. Open(m)' <=> m = n \/ Encloses(m, n)
    BY DEF Open, Enter, Encloses, tree
  <1>3. m \in Nat /\ n \in Nat /\ at = n
    BY NodesType DEF Reach
  <1>4. ~Encloses(n, n)
    BY <1>3 DEF Encloses
  <1>5. ~Open(n)
    BY <1>4, OpenAt DEF Reach, Open
  <1>6. at' = n + 1
    BY DEF Enter
  <1> QED
    BY <1>1, <1>2, <1>3, <1>5, <1>6 DEF Passed

LEMMA SkippedOpen ==
  ASSUME IInv, NEW n \in Nodes, NEW k \in Kinds, Reach(n, k), Skip(n),
         UNCHANGED tree, NEW m \in Nodes
  PROVE  /\ Open(m)' <=> Open(m)
         /\ Passed(m)' <=> Passed(m) \/ m = n \/ Encloses(n, m)
  <1>1. Open(m)' <=> Open(m)
    BY DEF Open, Skip, Encloses, tree
  <1>2. Open(m) <=> Encloses(m, n)
    BY OpenAt DEF Reach, Open
  <1>3. m \in Nat /\ n \in Nat /\ at = n /\ n <= last[n] /\ last[n] \in Nat
    BY NodesType, TreeType DEF Reach, IInv, IsTree
  <1>4. at' = last[n] + 1
    BY DEF Skip
  <1>5. Encloses(m, n) => m < n
    BY DEF Encloses
  <1> QED
    BY <1>1, <1>2, <1>3, <1>4, <1>5 DEF Passed, Encloses

\* A leaf is passed as if it were skipped.
LEMMA PassedLeaf ==
  ASSUME IInv, NEW n \in Nodes, NEW k \in Leaves, Reach(n, k), Pass(n)
  PROVE  Skip(n) /\ \A m \in Nodes : ~Encloses(n, m)
  <1>1. last[n] = n /\ n \in Nat
    BY NodesType DEF IInv, IsTree, Reach
  <1>2. Skip(n)
    BY <1>1 DEF Skip, Pass
  <1>3. \A m \in Nodes : m \in Nat
    BY NodesType
  <1> QED
    BY <1>1, <1>2, <1>3 DEF Encloses

LEMMA LeftOpen ==
  ASSUME IInv, NEW n \in Nodes, NEW k \in Kinds, Leave(n, k),
         UNCHANGED tree, NEW m \in Nodes
  PROVE  /\ Open(m)' <=> Open(m) /\ m # n
         /\ Passed(m)' <=> Passed(m) \/ m = n
         /\ Open(n) /\ ~Passed(n)
  <1>1. Open(m) <=> m = n \/ Encloses(m, n)
    BY DEF Open, Leave
  <1>2. Open(m)' <=> Encloses(m, n)
    BY OpenAt DEF Open, Leave, Encloses, tree
  <1>3. m \in Nat /\ n \in Nat /\ n <= last[n] /\ last[n] \in Nat
        /\ at = last[n] + 1 /\ at' = at /\ cur = n
    BY NodesType, TreeType DEF Leave, IInv, IsTree
  <1>4. ~Encloses(n, n)
    BY <1>3 DEF Encloses
  <1> QED
    BY <1>1, <1>2, <1>3, <1>4 DEF Passed, Open

\* The tree does not change.
LEMMA SameTree ==
  ASSUME UNCHANGED tree
  PROVE  /\ \A n, m : Encloses(n, m)' <=> Encloses(n, m)
         /\ \A n : (TopSection(n)' <=> TopSection(n)) /\ (Hidden(n)' <=> Hidden(n))
         /\ \A p : Flat(p)' <=> Flat(p)
         /\ Marks' = Marks /\ \A s, t : Before(s, t)' <=> Before(s, t)
  BY DEF Encloses, TopSection, Hidden, Flat, InLoop, Nests, Marks, Before, First,
         Second, tree

\* No walk is in or at what is hidden, unless it skips it.
LEMMA OpenNotHidden ==
  ASSUME IInv, Visible, NEW n \in Nodes,
         \/ \E k \in Kinds : Reach(n, k) /\ ~TopSection(n)
         \/ \E k \in Kinds : Leave(n, k)
  PROVE  ~Hidden(n)
  <1>1. ASSUME NEW m \in Nodes, Encloses(m, n) PROVE Open(m)
    <2>1. CASE \E k \in Kinds : Reach(n, k)
      BY <1>1, <2>1, OpenAt DEF Reach, Open
    <2>2. CASE \E k \in Kinds : Leave(n, k)
      BY <1>1, <2>2 DEF Leave, Open
    <2> QED
      BY <2>1, <2>2
  <1>2. ~TopSection(n)
    BY DEF Leave, Open, Visible
  <1> QED
    BY <1>1, <1>2 DEF Hidden, Visible

LEMMA SameFound ==
  ASSUME Collected, UNCHANGED <<tree, phase, partials>>,
         \A m \in Nodes : phase = "collect" /\ kind[m] = "partial" /\ ~Hidden(m)
                            => (Passed(m)' <=> Passed(m))
  PROVE  Collected'
  <1> SUFFICES ASSUME NEW n \in Nodes
               PROVE  IF kind[n] = "partial" /\ ~Hidden(n)
                         /\ (phase = "collect" => Passed(n)')
                      THEN \E i \in Found(n) : Found(n) = {i}
                      ELSE Found(n) = {}
    <2>1. \A n : Found(n)' = Found(n)
      BY DEF Found
    <2>2. \A n : Hidden(n)' <=> Hidden(n)
      BY SameTree
    <2> QED
      BY <2>1, <2>2 DEF Collected, tree
  <1> QED
    BY DEF Collected

LEMMA EnterFound ==
  ASSUME CInv, NEW n \in Nodes, NEW k \in Kinds, Reach(n, k), Enter(n),
         ~TopSection(n), UNCHANGED <<tree, phase, partials>>
  PROVE  Visible' /\ Collected'
  <1>1. \A m \in Nodes : /\ Open(m)' <=> Open(m) \/ m = n
                         /\ Passed(m)' <=> Passed(m)
    BY Entered DEF CInv
  <1>2. Visible'
    BY <1>1, SameTree DEF CInv, Visible
  <1> QED
    BY <1>1, <1>2, SameFound DEF CInv

LEMMA SkipFound ==
  ASSUME CInv, NEW n \in Nodes, NEW k \in Kinds, Reach(n, k), Skip(n),
         UNCHANGED <<tree, phase, partials>>,
         \A m \in Nodes : phase = "collect" /\ (m = n \/ Encloses(n, m)) =>
                            kind[m] # "partial" \/ Hidden(m)
  PROVE  Visible' /\ Collected'
  <1>1. \A m \in Nodes :
          /\ Open(m)' <=> Open(m)
          /\ Passed(m)' <=> Passed(m) \/ m = n \/ Encloses(n, m)
    BY SkippedOpen DEF CInv
  <1>2. Visible'
    BY <1>1, SameTree DEF CInv, Visible
  <1> QED
    BY <1>1, <1>2, SameFound DEF CInv

LEMMA LeaveFound ==
  ASSUME CInv, NEW n \in Nodes, NEW k \in Kinds, Leave(n, k),
         UNCHANGED <<tree, phase>>,
         partials' = IF k = "partial" /\ phase = "collect" THEN Append(partials, n)
                     ELSE partials
  PROVE  Visible' /\ Collected'
  <1>1. \A m \in Nodes : /\ Open(m)' <=> Open(m) /\ m # n
                         /\ Passed(m)' <=> Passed(m) \/ m = n
    BY LeftOpen DEF CInv
  <1>2. Visible'
    BY <1>1, SameTree DEF CInv, Visible
  <1>3. CASE k = "partial" /\ phase = "collect"
    <2>1. kind[n] = "partial" /\ ~Hidden(n) /\ ~Passed(n)
      BY <1>3, OpenNotHidden, LeftOpen DEF CInv, Leave
    <2>2. /\ partials \in Seq(Nodes) /\ Len(partials) \in Nat
          /\ partials' = Append(partials, n)
      BY <1>3 DEF CInv, IInv, TypeOK
    <2>3. /\ Len(partials') = Len(partials) + 1
          /\ \A i \in 1..Len(partials) : partials'[i] = partials[i]
          /\ partials'[Len(partials) + 1] = n
      BY <2>2
    <2>4. Found(n) = {}
      BY <2>1, <1>3 DEF CInv, Collected
    <2>5. ASSUME NEW m \in Nodes, m # n PROVE Found(m)' = Found(m)
      BY <2>2, <2>3, <2>5 DEF Found
    <2>6. Found(n)' = {Len(partials) + 1}
      <3>1. \A i \in 1..Len(partials) : partials[i] # n
        BY <2>4 DEF Found
      <3> QED
        BY <2>2, <2>3, <3>1 DEF Found
    <2>7. ASSUME NEW m \in Nodes
          PROVE  IF kind[m] = "partial" /\ ~Hidden(m) /\ Passed(m)'
                 THEN \E i \in Found(m)' : Found(m)' = {i}
                 ELSE Found(m)' = {}
      <3>1. CASE m = n
        BY <1>1, <2>1, <2>6, <3>1
      <3>2. CASE m # n
        BY <1>1, <1>3, <2>5, <3>2 DEF CInv, Collected
      <3> QED
        BY <3>1, <3>2
    <2>8. /\ kind' = kind /\ phase' = "collect"
          /\ \A m : Hidden(m)' <=> Hidden(m)
      BY <1>3, SameTree DEF tree
    <2>9. Collected'
      BY <2>7, <2>8 DEF Collected
    <2> QED
      BY <1>2, <2>9
  <1>4. CASE ~(k = "partial" /\ phase = "collect")
    <2>1. UNCHANGED partials
      BY <1>4
    <2>2. kind[n] = k
      BY DEF Leave
    <2>3. Collected'
      BY <1>1, <1>4, <2>1, <2>2, SameFound DEF CInv
    <2> QED
      BY <1>2, <2>3
  <1> QED
    BY <1>3, <1>4

LEMMA VisitFound ==
  ASSUME CInv, NEW n \in Nodes, Visit(n)
  PROVE  Visible' /\ Collected'
  <1> USE DEF Kinds, Leaves
  <1>1. CASE SkipSection(n) \/ SkipFor(n)
    <2>1. ASSUME NEW m \in Nodes, phase = "collect", m = n \/ Encloses(n, m)
          PROVE  kind[m] # "partial" \/ Hidden(m)
      <3>1. SkipSection(n)
        BY <1>1, <2>1 DEF SkipFor
      <3>2. TopSection(n) /\ kind[n] = "section"
        BY <3>1 DEF SkipSection, TopSection, Reach
      <3> QED
        BY <2>1, <3>2 DEF Hidden
    <2> QED
      BY <1>1, <2>1, SkipFound DEF SkipSection, SkipFor
  <1>2. CASE VisitText(n) \/ VisitCode(n)
    <2>1. PICK k \in Leaves : Reach(n, k) /\ Pass(n)
      BY <1>2 DEF VisitText, VisitCode
    <2>2. Skip(n) /\ \A m \in Nodes : ~Encloses(n, m)
      BY <2>1, PassedLeaf DEF CInv
    <2>3. kind[n] # "partial"
      BY <2>1 DEF Reach
    <2> QED
      BY <1>2, <2>1, <2>2, <2>3, SkipFound DEF VisitText, VisitCode
  <1>3. CASE EnterElement(n) \/ EnterIf(n) \/ EnterFor(n) \/ EnterSection(n)
             \/ EnterPartial(n)
    <2>1. PICK k \in Kinds : Reach(n, k) /\ (k = "section" => parent[n] # 0)
      BY <1>3 DEF EnterElement, EnterIf, EnterFor, EnterSection, EnterPartial
    <2>2. /\ Enter(n) /\ ~TopSection(n)
          /\ UNCHANGED <<tree, phase, partials>>
      BY <1>3, <2>1 DEF EnterElement, EnterIf, EnterFor, EnterSection, EnterPartial,
         TopSection, Reach
    <2> QED
      BY <2>1, <2>2, EnterFound
  <1>4. CASE LeaveElement(n) \/ LeaveIf(n) \/ LeaveFor(n) \/ LeaveSection(n)
    <2>1. PICK k \in Kinds \ {"partial"} : Leave(n, k)
      BY <1>4 DEF LeaveElement, LeaveIf, LeaveFor, LeaveSection
    <2>2. UNCHANGED <<tree, phase, partials>>
      BY <1>4 DEF LeaveElement, LeaveIf, LeaveFor, LeaveSection
    <2> QED
      BY <2>1, <2>2, LeaveFound
  <1>5. CASE LeavePartial(n)
    BY <1>5, LeaveFound DEF LeavePartial
  <1>6. CASE SectionPanics(n)
    BY <1>6 DEF SectionPanics, CInv, Visible, Collected, Open, Passed, Encloses,
       TopSection, Hidden, Found, tree
  <1> QED
    BY <1>1, <1>2, <1>3, <1>4, <1>5, <1>6 DEF Visit

\* A walk that ends has come past everything.
LEMMA AllPassed ==
  ASSUME IInv, cur = 0, at = Size + 1, NEW n \in Nodes
  PROVE  Passed(n)
  <1>1. Size \in Nat /\ n \in Nat /\ 1 <= n /\ n <= Size
    BY NodesType
  <1> QED
    BY <1>1 DEF Passed, Open, Encloses

LEMMA NextWalkFound ==
  ASSUME CInv, NextWalk
  PROVE  Visible' /\ Collected'
  <1>1. UNCHANGED <<tree, cur, partials>> /\ phase' # "collect"
        /\ cur = 0 /\ at = Size + 1
    BY DEF NextWalk
  <1>2. \A n \in Nodes : Passed(n)
    BY <1>1, AllPassed DEF CInv
  <1>3. \A n : (Found(n)' = Found(n)) /\ (Open(n)' <=> Open(n))
    BY <1>1 DEF Found, Open, Encloses, tree
  <1>4. kind' = kind /\ \A n : (Hidden(n)' <=> Hidden(n)) /\ (TopSection(n)' <=> TopSection(n))
    BY <1>1, SameTree DEF tree
  <1> QED
    BY <1>1, <1>2, <1>3, <1>4 DEF CInv, Visible, Collected

LEMMA InitFound == ASSUME Init PROVE Visible /\ Collected
  <1>1. \A n \in Nodes : ~Open(n) /\ ~Passed(n)
    BY NodesType DEF Init, Open, Encloses, Passed
  <1>2. phase = "collect" /\ \A n : Found(n) = {}
    BY DEF Init, Found
  <1> QED
    BY <1>1, <1>2 DEF Visible, Collected

LEMMA StutterFound == ASSUME CInv, UNCHANGED vars PROVE Visible' /\ Collected'
  <1>1. UNCHANGED <<tree, phase, partials, at, cur>>
    BY DEF vars
  <1> QED
    BY <1>1 DEF CInv, Visible, Collected, Open, Passed, Encloses,
       TopSection, Hidden, Found, tree

LEMMA CInvariance == Spec => []CInv
  <1>1. Init => CInv
    BY InitInv, InitFound DEF CInv
  <1>2. CInv /\ [Next]_vars => CInv'
    <2> SUFFICES ASSUME CInv, [Next]_vars PROVE CInv'
      OBVIOUS
    <2>1. IInv' BY NextWalkStep, VisitStep, StutterStep DEF Next, Finished, CInv
    <2>2. Visible' /\ Collected'
      BY NextWalkFound, VisitFound, StutterFound DEF Next, Finished
    <2> QED
      BY <2>1, <2>2 DEF CInv
  <1> QED
    BY <1>1, <1>2, PTL DEF Spec

\* The pass over the page lists each partial that is not in a section at the
\* top, only partials, and none twice, in every tree.
THEOREM PartialsAreFound == Spec => []PartialsFound
  <1>1. CInv => PartialsFound
    <2> SUFFICES ASSUME CInv, phase # "collect" PROVE PartialsFound
      BY DEF PartialsFound
    <2>1. ASSUME NEW n \in Nodes, kind[n] = "partial", ~Hidden(n)
          PROVE  Found(n) # {}
      BY <2>1 DEF CInv, Collected
    <2>2. ASSUME NEW i \in 1..Len(partials)
          PROVE  kind[partials[i]] = "partial" /\ Found(partials[i]) = {i}
      <3>1. partials[i] \in Nodes
        BY DEF CInv, IInv, TypeOK
      <3>2. i \in Found(partials[i])
        BY DEF Found
      <3> QED
        BY <3>1, <3>2 DEF CInv, Collected
    <2> QED
      BY <2>1, <2>2 DEF PartialsFound
  <1> QED
    BY <1>1, CInvariance, PTL
-----------------------------------------------------------------------------
(* Selecting from a sequence, and sequences in the same order.             *)

\* A set of naturals has a least element.
LEMMA LeastNatural ==
  ASSUME NEW T \in SUBSET Nat, T # {}
  PROVE  \E n \in T : \A m \in T : n <= m
  <1> DEFINE R == OpToRel(<, Nat)
  <1>1. IsWellFoundedOn(R, Nat)
    BY NatLessThanWellFounded
  <1>2. PICK n \in T : \A m \in T : ~ (<<m, n>> \in R)
    <2> HIDE DEF R
    <2> QED
      BY <1>1, WFMin
  <1>3. \A m \in T : ~ (m < n)
    BY <1>2 DEF OpToRel
  <1> QED
    BY <1>3

\* Induction, over a set instead of a predicate.
LEMMA NatSetInduction ==
  ASSUME NEW T \in SUBSET Nat, 0 \in T, \A n \in T : n + 1 \in T
  PROVE  T = Nat
  <1> SUFFICES ASSUME Nat \ T # {} PROVE FALSE
    OBVIOUS
  <1>1. PICK n \in Nat \ T : \A m \in Nat \ T : n <= m
    BY LeastNatural
  <1>2. n # 0 /\ n - 1 \in Nat
    BY <1>1
  <1>3. n - 1 \in T
    BY <1>1, <1>2
  <1> QED
    BY <1>1, <1>2, <1>3

\* The function by which Select is defined, and that it exists.
Selects(k, s, T, S) ==
  /\ k \in [0..Len(s) -> Seq(S)]
  /\ k[0] = <<>>
  /\ \A n \in 1..Len(s) : k[n] = IF s[n] \in T THEN Append(k[n - 1], s[n])
                                 ELSE k[n - 1]
  /\ Select(s, T) = k[Len(s)]

LEMMA SelectSteps ==
  ASSUME NEW S, NEW s \in Seq(S), NEW T
  PROVE  \E k : Selects(k, s, T, S)
  <1> DEFINE more(q, i) == IF s[i] \in T THEN Append(q, s[i]) ELSE q
             Steps(f, n) == /\ f \in [0..n -> Seq(S)]
                            /\ f[0] = <<>>
                            /\ \A i \in 1..n : f[i] = more(f[i - 1], i)
             Stepped(n) == \E f : Steps(f, n)
             U == {n \in Nat : n <= Len(s) => Stepped(n)}
  <1>1. Len(s) \in Nat /\ \A n \in 1..Len(s) : s[n] \in S
    BY LenProperties, ElementOfSeq
  <1>2. \A q \in Seq(S) : \A i \in 1..Len(s) : more(q, i) \in Seq(S)
    BY <1>1, AppendProperties
  <1> HIDE DEF more
  <1>3. Stepped(0)
    <2>1. Steps([i \in 0..0 |-> <<>>], 0)
      BY EmptySeq
    <2> QED
      BY <2>1
  <1>4. ASSUME NEW n \in Nat, n + 1 <= Len(s), Stepped(n) PROVE Stepped(n + 1)
    <2>0. n \in Nat
      BY <1>4
    <2>1. PICK f : Steps(f, n)
      BY <1>4
    <2> DEFINE g == [i \in 0..(n + 1) |-> IF i = n + 1 THEN more(f[n], n + 1)
                                          ELSE f[i]]
    <2>2. f[n] \in Seq(S)
      BY <2>0, <2>1
    <2>3. more(f[n], n + 1) \in Seq(S)
      <3>1. n + 1 \in 1..Len(s)
        BY <1>1, <1>4, <2>0
      <3> QED
        BY <1>2, <2>2, <3>1
    <2>4. g \in [0..(n + 1) -> Seq(S)] /\ g[0] = <<>>
      BY <2>1, <2>3
    <2>5. \A i \in 1..(n + 1) : g[i] = more(g[i - 1], i)
      <3> SUFFICES ASSUME NEW i \in 1..(n + 1) PROVE g[i] = more(g[i - 1], i)
        OBVIOUS
      <3>1. CASE i = n + 1
        <4>1. n \in 0..(n + 1) /\ n # n + 1 /\ n + 1 \in 0..(n + 1)
          BY <2>0
        <4>2. g[n] = f[n] /\ g[n + 1] = more(f[n], n + 1)
          BY <4>1
        <4>3. i - 1 = n
          BY <2>0, <3>1
        <4> HIDE DEF g
        <4> QED
          BY <3>1, <4>2, <4>3
      <3>2. CASE i \in 1..n
        <4>1. f[i] = more(f[i - 1], i)
          BY <2>1, <3>2
        <4>2. g[i - 1] = f[i - 1] /\ g[i] = f[i]
          BY <1>4, <3>2, SMTT(60)
        <4> QED
          BY <4>1, <4>2
      <3>3. i = n + 1 \/ i \in 1..n
        BY <2>0
      <3> HIDE DEF g
      <3> QED
        BY <3>1, <3>2, <3>3
    <2>6. Steps(g, n + 1)
      <3> HIDE DEF g
      <3> QED
        BY <2>4, <2>5
    <2> QED
      BY <2>6
  <1> HIDE DEF Stepped
  <1>5. U = Nat
    <2>1. 0 \in U
      BY <1>3
    <2>2. ASSUME NEW n \in U PROVE n + 1 \in U
      <3>1. n + 1 <= Len(s) => n <= Len(s)
        BY <1>1
      <3> QED
        BY <1>4, <3>1
    <2> HIDE DEF U
    <2> QED
      BY <2>1, <2>2, NatSetInduction DEF U
  <1>6. Stepped(Len(s))
    BY <1>1, <1>5
  <1> DEFINE body(f) == [i \in 0..Len(s) |->
                           IF i = 0 THEN <<>>
                           ELSE IF s[i] \in T THEN Append(f[i - 1], s[i])
                           ELSE f[i - 1]]
             k == CHOOSE f : f = body(f)
  <1>7. k = body(k)
    <2>1. PICK f : Steps(f, Len(s))
      BY <1>6 DEF Stepped
    <2>2. \A i \in 0..Len(s) : i # 0 => i \in 1..Len(s)
      BY <1>1
    <2>3. \A i \in 0..Len(s) : f[i] = IF i = 0 THEN <<>>
                                      ELSE IF s[i] \in T THEN Append(f[i - 1], s[i])
                                      ELSE f[i - 1]
      BY <2>1, <2>2 DEF more
    <2>4. f = body(f)
      BY <2>1, <2>3
    <2> QED
      BY <2>4
  <1>8. Select(s, T) = k[Len(s)]
    BY DEF Select
  <1> HIDE DEF k
  <1>9. k[0] = <<>> /\ \A n \in 1..Len(s) : k[n] = more(k[n - 1], n)
    <2>1. 0 \in 0..Len(s) /\ \A n \in 1..Len(s) : n \in 0..Len(s) /\ n # 0
      BY <1>1
    <2>2. \A n \in 0..Len(s) : k[n] = IF n = 0 THEN <<>> ELSE more(k[n - 1], n)
      BY <1>7 DEF more
    <2> QED
      BY <2>1, <2>2
  <1>10. k \in [0..Len(s) -> Seq(S)]
    <2> DEFINE V == {n \in Nat : n <= Len(s) => k[n] \in Seq(S)}
    <2>1. 0 \in V
      BY <1>9, EmptySeq
    <2>2. ASSUME NEW n \in V PROVE n + 1 \in V
      <3> SUFFICES ASSUME n + 1 <= Len(s) PROVE k[n + 1] \in Seq(S)
        OBVIOUS
      <3>1. k[n] \in Seq(S)
        BY <1>1
      <3>2. n + 1 \in 1..Len(s) /\ (n + 1) - 1 = n
        BY <1>1
      <3>3. k[n + 1] = more(k[n], n + 1)
        BY <1>9, <3>2
      <3> QED
        BY <1>2, <3>1, <3>2, <3>3
    <2>3. V = Nat
      <3>1. V \subseteq Nat
        OBVIOUS
      <3> HIDE DEF V
      <3> QED
        BY <2>1, <2>2, <3>1, NatSetInduction
    <2>4. \A n \in 0..Len(s) : k[n] \in Seq(S)
      BY <1>1, <2>3
    <2> QED
      BY <1>7, <2>4
  <1> QED
    BY <1>8, <1>9, <1>10 DEF Selects, more

\* What of s is in T is in the order R.
Sorts(R, s, T) ==
  \A j \in 1..Len(s) : \A i \in 1..(j - 1) :
    s[i] \in T /\ s[j] \in T => <<s[i], s[j]>> \in R

\* What is selected is what there is, in the same order.
LEMMA SelectIs ==
  ASSUME NEW S, NEW s \in Seq(S), NEW T, NEW R, Sorts(R, s, T)
  PROVE  /\ Select(s, T) \in Seq(S)
         /\ \A x : (\E i \in 1..Len(Select(s, T)) : Select(s, T)[i] = x)
                     <=> x \in T /\ \E i \in 1..Len(s) : s[i] = x
         /\ Sorts(R, Select(s, T), T)
  <1>0. \E k : Selects(k, s, T, S)
    BY SelectSteps
  <1>1. PICK k \in [0..Len(s) -> Seq(S)] :
          /\ k[0] = <<>>
          /\ \A n \in 1..Len(s) : k[n] = IF s[n] \in T THEN Append(k[n - 1], s[n])
                                         ELSE k[n - 1]
          /\ Select(s, T) = k[Len(s)]
    BY <1>0 DEF Selects
  <1>2. Len(s) \in Nat /\ \A n \in 1..Len(s) : s[n] \in S
    BY LenProperties, ElementOfSeq
  <1> DEFINE Has(q, n) ==
               /\ \A i \in 1..Len(q) : q[i] \in T /\ \E a \in 1..n : s[a] = q[i]
               /\ \A a \in 1..n : s[a] \in T => \E i \in 1..Len(q) : q[i] = s[a]
             Good(n) == Has(k[n], n) /\ Sorts(R, k[n], T)
             U == {n \in Nat : n <= Len(s) => Good(n)}
  <1>3. 0 \in U
    <2>1. Has(<<>>, 0) /\ Sorts(R, <<>>, T)
      BY DEF Sorts
    <2> QED
      BY <1>1, <2>1
  <1>4. ASSUME NEW n \in U PROVE n + 1 \in U
    <2> SUFFICES ASSUME n + 1 <= Len(s) PROVE Good(n + 1)
      OBVIOUS
    <2>1. /\ n \in Nat /\ n \in 0..Len(s) /\ n + 1 \in 1..Len(s) /\ (n + 1) - 1 = n
          /\ \A a \in 1..(n + 1) : a = n + 1 \/ a \in 1..n
          /\ \A a \in 1..n : a \in 1..(n + 1) /\ a \in 1..Len(s) /\ a \in 1..((n + 1) - 1)
          /\ n + 1 \in 1..(n + 1)
      BY <1>2
    <2>2. Has(k[n], n) /\ Sorts(R, k[n], T) /\ k[n] \in Seq(S)
      BY <1>1, <1>2, <2>1
    <2>3. k[n + 1] = IF s[n + 1] \in T THEN Append(k[n], s[n + 1]) ELSE k[n]
      BY <1>1, <2>1
    <2>4. CASE s[n + 1] \notin T
      <3>1. k[n + 1] = k[n]
        BY <2>3, <2>4
      <3>2. Has(k[n], n + 1)
        BY <2>1, <2>2, <2>4
      <3> QED
        BY <2>2, <3>1, <3>2, SMTT(60)
    <2>5. CASE s[n + 1] \in T
      <3> DEFINE q == k[n]
                 x == s[n + 1]
                 r == Append(q, x)
      <3>1. x \in S /\ q \in Seq(S)
        BY <1>2, <2>1, <2>2
      <3>2. /\ Len(q) \in Nat /\ Len(r) = Len(q) + 1
            /\ \A i \in 1..Len(q) : r[i] = q[i]
            /\ r[Len(q) + 1] = x
        BY <3>1, AppendProperties, LenProperties
      <3>3. k[n + 1] = r
        BY <2>3, <2>5
      <3>4. Has(q, n) /\ Sorts(R, q, T)
        BY <2>2
      <3>5. x \in T /\ x = s[n + 1]
        BY <2>5
      <3> HIDE DEF q, x, r
      <3>6. /\ \A i \in 1..Len(r) : i = Len(q) + 1 \/ i \in 1..Len(q)
            /\ \A i \in 1..Len(q) : i \in 1..Len(r)
            /\ Len(q) + 1 \in 1..Len(r)
        BY <3>2
      <3>7. Has(r, n + 1)
        <4>1. ASSUME NEW i \in 1..Len(r)
              PROVE  r[i] \in T /\ \E a \in 1..(n + 1) : s[a] = r[i]
          <5>1. CASE i = Len(q) + 1
            BY <2>1, <3>2, <3>5, <5>1
          <5>2. CASE i \in 1..Len(q)
            <6>1. r[i] = q[i]
              BY <3>2, <5>2
            <6>2. q[i] \in T /\ \E a \in 1..n : s[a] = q[i]
              BY <3>4, <5>2
            <6> QED
              BY <2>1, <6>1, <6>2
          <5> QED
            BY <3>6, <5>1, <5>2
        <4>2. ASSUME NEW a \in 1..(n + 1), s[a] \in T
              PROVE  \E i \in 1..Len(r) : r[i] = s[a]
          <5>1. CASE a = n + 1
            BY <3>2, <3>5, <3>6, <5>1
          <5>2. CASE a \in 1..n
            <6>1. PICK i \in 1..Len(q) : q[i] = s[a]
              BY <3>4, <4>2, <5>2
            <6> QED
              BY <3>2, <3>6, <6>1
          <5> QED
            BY <2>1, <5>1, <5>2
        <4> QED
          BY <4>1, <4>2
      <3>8. Sorts(R, r, T)
        <4> SUFFICES ASSUME NEW j \in 1..Len(r), NEW i \in 1..(j - 1),
                            r[i] \in T, r[j] \in T
                     PROVE  <<r[i], r[j]>> \in R
          BY DEF Sorts
        <4>1. CASE j \in 1..Len(q)
          <5>1. i \in 1..Len(q) /\ r[i] = q[i] /\ r[j] = q[j]
            BY <3>2, <4>1
          <5> QED
            BY <3>4, <4>1, <5>1 DEF Sorts
        <4>2. CASE j = Len(q) + 1
          <5>1. i \in 1..Len(q) /\ r[i] = q[i] /\ r[j] = x
            BY <3>2, <4>2
          <5>2. PICK a \in 1..n : s[a] = q[i]
            BY <3>4, <5>1
          <5>3. a \in 1..((n + 1) - 1) /\ n + 1 \in 1..Len(s)
            BY <2>1
          <5>4. s[a] \in T /\ s[n + 1] \in T
            BY <5>1, <5>2, <3>5
          <5>5. <<s[a], s[n + 1]>> \in R
            BY <5>3, <5>4 DEF Sorts
          <5> QED
            BY <5>1, <5>2, <5>5, <3>5
        <4> QED
          BY <3>6, <4>1, <4>2
      <3> QED
        BY <3>3, <3>7, <3>8
    <2> QED
      BY <2>4, <2>5
  <1>5. U = Nat
    <2>1. U \subseteq Nat
      OBVIOUS
    <2> HIDE DEF U
    <2> QED
      BY <1>3, <1>4, <2>1, NatSetInduction
  <1>6. Good(Len(s))
    <2>1. Len(s) \in U /\ Len(s) <= Len(s)
      <3> HIDE DEF U
      <3> QED
        BY <1>2, <1>5
    <2> HIDE DEF Good
    <2> QED
      BY <2>1
  <1>7. k[Len(s)] \in Seq(S)
    BY <1>1, <1>2
  <1> QED
    BY <1>1, <1>6, <1>7, SMTT(60)

\* A strict order; a sequence whose members are in T and in another sequence.
StrictOn(R, T) ==
  /\ \A x \in T : <<x, x>> \notin R
  /\ \A x, y, z \in T : <<x, y>> \in R /\ <<y, z>> \in R => <<x, z>> \in R
Within(a, b, T) ==
  \A i \in 1..Len(a) : a[i] \in T /\ \E j \in 1..Len(b) : b[j] = a[i]

\* Sequences of the same, each in the same strict order, are equal.
LEMMA SameOrder ==
  ASSUME NEW S, NEW R, NEW a \in Seq(S), NEW b \in Seq(S), NEW T,
         Sorts(R, a, T), Sorts(R, b, T), Within(a, b, T), Within(b, a, T),
         StrictOn(R, T)
  PROVE  a = b
  <1> USE DEF Within, StrictOn
  <1>1. Len(a) \in Nat /\ Len(b) \in Nat
    BY LenProperties
  <1>2. /\ \A i, j \in 1..Len(a) : i < j => <<a[i], a[j]>> \in R
        /\ \A i, j \in 1..Len(b) : i < j => <<b[i], b[j]>> \in R
    <2>1. \A n \in Nat : \A i, j \in 1..n : i < j => i \in 1..(j - 1)
      OBVIOUS
    <2> QED
      BY <1>1, <2>1 DEF Sorts
  <1> DEFINE D == {i \in Nat : \/ i \in 1..Len(a) /\ (i \in 1..Len(b) => a[i] # b[i])
                               \/ i \in 1..Len(b) /\ (i \in 1..Len(a) => a[i] # b[i])}
  <1>3. ASSUME D # {} PROVE FALSE
    <2>1. PICK n \in D : \A m \in D : n <= m
      <3>1. D \in SUBSET Nat /\ D # {}
        BY <1>3
      <3> HIDE DEF D
      <3> QED
        BY <3>1, LeastNatural
    <2>2. n \in Nat
      OBVIOUS
    <2>3. /\ \A m \in 1..Len(a) : m < n => m \in 1..Len(b) /\ a[m] = b[m]
          /\ \A m \in 1..Len(b) : m < n => m \in 1..Len(a) /\ a[m] = b[m]
      <3>1. \A m \in Nat : m < n => m \notin D
        <4> HIDE DEF D
        <4> QED
          BY <2>1, <2>2
      <3>2. /\ \A m \in 1..Len(a) : m \in Nat
            /\ \A m \in 1..Len(b) : m \in Nat
        BY <1>1
      <3> QED
        BY <3>1, <3>2, Zenon
    <2>4. ASSUME n \in 1..Len(a), n \in 1..Len(b) => a[n] # b[n] PROVE FALSE
      <3>1. PICK j \in 1..Len(b) : b[j] = a[n]
        BY <2>4
      <3>2. ~(j < n)
        BY <1>2, <2>3, <2>4, <3>1
      <3>3. n \in 1..Len(b) /\ n < j
        <4>1. j # n
          BY <2>4, <3>1
        <4>2. n < j /\ n >= 1 /\ j <= Len(b)
          BY <1>1, <2>2, <2>4, <3>1, <3>2, <4>1
        <4> QED
          BY <1>1, <2>2, <3>1, <4>2
      <3>4. PICK k \in 1..Len(a) : a[k] = b[n]
        BY <3>3
      <3>5. ~(k < n) /\ k # n
        BY <1>2, <2>3, <2>4, <3>3, <3>4, ZenonT(60)
      <3>6. n < k
        BY <1>1, <2>2, <3>4, <3>5
      <3>7. <<a[n], b[n]>> \in R /\ <<b[n], a[n]>> \in R
        BY <1>2, <2>4, <3>1, <3>3, <3>4, <3>6
      <3> QED
        BY <2>4, <3>3, <3>7
    <2>5. ASSUME n \in 1..Len(b), n \in 1..Len(a) => a[n] # b[n] PROVE FALSE
      <3>1. PICK j \in 1..Len(a) : a[j] = b[n]
        BY <2>5
      <3>2. ~(j < n)
        BY <1>2, <2>3, <2>5, <3>1
      <3>3. n \in 1..Len(a) /\ n < j
        <4>1. j # n
          BY <2>5, <3>1
        <4>2. n < j /\ n >= 1 /\ j <= Len(a)
          BY <1>1, <2>2, <2>5, <3>1, <3>2, <4>1
        <4> QED
          BY <1>1, <2>2, <3>1, <4>2
      <3> QED
        BY <2>4, <2>5, <3>3
    <2> QED
      BY <2>1, <2>4, <2>5
  <1>4. /\ \A i \in 1..Len(a) : i \in 1..Len(b) /\ a[i] = b[i]
        /\ \A i \in 1..Len(b) : i \in 1..Len(a)
    <2>1. /\ \A i \in 1..Len(a) : i \in Nat /\ i \notin D
          /\ \A i \in 1..Len(b) : i \in Nat /\ i \notin D
      <3> HIDE DEF D
      <3> QED
        BY <1>1, <1>3
    <2> QED
      BY <2>1, Zenon
  <1>6. Len(a) = Len(b)
    <2>1. Len(a) = 0 \/ Len(a) \in 1..Len(a)
      BY <1>1
    <2>2. Len(b) = 0 \/ Len(b) \in 1..Len(b)
      BY <1>1
    <2>3. Len(a) <= Len(b)
      BY <1>1, <1>4, <2>1
    <2>4. Len(b) <= Len(a)
      BY <1>1, <1>4, <2>2
    <2> QED
      BY <1>1, <2>3, <2>4
  <1> QED
    BY <1>4, <1>6, SeqEqual
-----------------------------------------------------------------------------
(* Flat partials are complete.                                             *)

LEMMA MarksType ==
  ASSUME NEW s \in Marks
  PROVE  /\ s[1] \in {"write", "end"} /\ s[2] \in Nodes /\ s = <<s[1], s[2]>>
         /\ kind[s[2]] = "element" \/ (kind[s[2]] = "text" /\ s[1] = "write")
         /\ s \in Markup /\ s \in Statements
  BY DEF Marks, Markup, Statements, IsMarkup

\* What is done when a walk has entered, skipped or left a node.
LEMMA DoneEntered ==
  ASSUME IInv, NEW n \in Nodes, NEW k \in Kinds, Reach(n, k), Enter(n),
         UNCHANGED tree, NEW s \in Marks
  PROVE  Done(s)' <=> Done(s) \/ s = <<"write", n>>
  <1>1. /\ s[1] \in {"write", "end"} /\ s[2] \in Nodes /\ s = <<s[1], s[2]>>
        /\ s[2] \in Nat /\ n \in Nat
    BY MarksType, NodesType
  <1>2. Passed(s[2])' <=> Passed(s[2])
    BY <1>1, Entered
  <1>3. at = n /\ at' = n + 1
    BY DEF Reach, Enter
  <1> QED
    BY <1>1, <1>2, <1>3 DEF Done

LEMMA DoneSkipped ==
  ASSUME IInv, NEW n \in Nodes, NEW k \in Kinds, Reach(n, k), Skip(n),
         UNCHANGED tree, NEW s \in Marks
  PROVE  Done(s)' <=> Done(s) \/ s[2] = n \/ Encloses(n, s[2])
  <1>1. /\ s[1] \in {"write", "end"} /\ s[2] \in Nodes
        /\ s[2] \in Nat /\ n \in Nat /\ last[n] \in Nat /\ n <= last[n]
    BY MarksType, NodesType, TreeType DEF IInv, IsTree
  <1>2. Passed(s[2])' <=> Passed(s[2]) \/ s[2] = n \/ Encloses(n, s[2])
    BY <1>1, SkippedOpen
  <1>3. at = n /\ at' = last[n] + 1
    BY DEF Reach, Skip
  <1> QED
    BY <1>1, <1>2, <1>3 DEF Done, Encloses

LEMMA DoneLeft ==
  ASSUME IInv, NEW n \in Nodes, NEW k \in Kinds, Leave(n, k),
         UNCHANGED tree, NEW s \in Marks
  PROVE  Done(s)' <=> Done(s) \/ s = <<"end", n>>
  <1>1. /\ s[1] \in {"write", "end"} /\ s[2] \in Nodes /\ s = <<s[1], s[2]>>
        /\ s[2] \in Nat /\ n \in Nat /\ last[n] \in Nat /\ n <= last[n]
    BY MarksType, NodesType, TreeType DEF IInv, IsTree
  <1>2. Passed(s[2])' <=> Passed(s[2]) \/ s[2] = n
    BY <1>1, LeftOpen
  <1>3. at = last[n] + 1 /\ at' = at
    BY DEF Leave
  <1> QED
    BY <1>1, <1>2, <1>3 DEF Done

\* What is done comes before what a walk writes next.
LEMMA StartsAfter ==
  ASSUME IInv, NEW n \in Nodes, NEW k \in Kinds, Reach(n, k),
         NEW s \in Marks, Done(s)
  PROVE  Before(s, <<"write", n>>)
  <1> DEFINE m == s[2]
  <1>1. /\ s[1] \in {"write", "end"} /\ m \in Nodes
        /\ m \in Nat /\ n \in Nat /\ last[m] \in Nat /\ at = n
    BY MarksType, NodesType, TreeType DEF IInv, Reach
  <1> HIDE DEF m
  <1>2. CASE s[1] = "write"
    BY <1>1, <1>2 DEF Done, Before, First, m
  <1>3. CASE s[1] = "end"
    <2>1. m < n /\ ~Open(m)
      BY <1>1, <1>3 DEF Done, Passed, m
    <2>2. ~Encloses(m, n)
      BY <1>1, <2>1, OpenAt DEF Reach, Open
    <2>3. last[m] < n
      BY <1>1, <2>1, <2>2 DEF Encloses
    <2> QED
      BY <1>3, <2>3 DEF Before, First, m
  <1> QED
    BY <1>1, <1>2, <1>3

LEMMA EndsAfter ==
  ASSUME IInv, NEW n \in Nodes, NEW k \in Kinds, Leave(n, k),
         NEW s \in Marks, Done(s)
  PROVE  Before(s, <<"end", n>>)
  <1> DEFINE m == s[2]
  <1>1. /\ s[1] \in {"write", "end"} /\ m \in Nodes
        /\ m \in Nat /\ n \in Nat /\ last[m] \in Nat /\ last[n] \in Nat
        /\ at = last[n] + 1 /\ n <= last[n] /\ Size \in Nat /\ n <= Size /\ m <= Size
    BY MarksType, NodesType, TreeType DEF IInv, IsTree, Leave
  <1> HIDE DEF m
  <1>2. CASE s[1] = "write"
    <2>1. m <= last[n]
      BY <1>1, <1>2 DEF Done, m
    <2>2. First(s) = m /\ Second(s) = 0
      BY <1>2 DEF First, Second, m
    <2>3. First(<<"end", n>>) = last[n] /\ Second(<<"end", n>>) = Size + 1 - n
      BY DEF First, Second
    <2> QED
      BY <1>1, <2>1, <2>2, <2>3 DEF Before
  <1>3. CASE s[1] = "end"
    <2>1. m < at /\ ~Open(m)
      BY <1>3 DEF Done, Passed, m
    <2>2. ~Encloses(m, n) /\ m # n
      BY <1>1, <2>1 DEF Leave, Open
    <2>3. First(s) = last[m] /\ Second(s) = Size + 1 - m
      BY <1>3 DEF First, Second, m
    <2>4. First(<<"end", n>>) = last[n] /\ Second(<<"end", n>>) = Size + 1 - n
      BY DEF First, Second
    <2>5. CASE m < n
      <3>1. last[m] < n
        BY <1>1, <2>2, <2>5 DEF Encloses
      <3> QED
        BY <1>1, <2>3, <2>4, <3>1 DEF Before
    <2>6. CASE n < m
      <3>1. last[m] <= last[n]
        BY <1>1, <2>1, <2>6 DEF IInv, IsTree
      <3> QED
        BY <1>1, <2>3, <2>4, <2>6, <3>1 DEF Before
    <2> QED
      BY <1>1, <2>2, <2>5, <2>6
  <1> QED
    BY <1>1, <1>2, <1>3

\* What a walk emits is added to its own output.
Appended(p, t) == /\ out[p] \in Seq(Statements)
                  /\ Len(out'[p]) = Len(out[p]) + 1
                  /\ \A i \in 1..Len(out[p]) : out'[p][i] = out[p][i]
                  /\ out'[p][Len(out[p]) + 1] = t

LEMMA EmitAppends ==
  ASSUME IInv, NEW cond \in BOOLEAN, NEW n \in Nodes,
         NEW what \in {"write", "end", "code", "begin", "close"},
         Emit(cond, what, n), NEW p \in {0} \cup Nodes, p = target, cond
  PROVE  Appended(p, <<what, n>>)
  <1>1. out \in [{0} \cup Nodes -> Seq(Statements)] /\ out[p] \in Seq(Statements)
        /\ <<what, n>> \in Statements
    BY DEF IInv, TypeOK, Statements
  <1>2. out'[p] = Append(out[p], <<what, n>>)
    BY <1>1 DEF Emit
  <1> QED
    BY <1>1, <1>2, AppendProperties, LenProperties DEF Appended

LEMMA EmitWrote ==
  ASSUME IInv, NEW cond \in BOOLEAN, NEW n \in Nodes,
         NEW what \in {"write", "end", "code", "begin", "close"},
         Emit(cond, what, n), NEW p \in {0} \cup Nodes
  PROVE  /\ out[p] \in Seq(Statements)
         /\ p # target \/ ~cond => out'[p] = out[p]
         /\ p = target /\ cond =>
              /\ Len(out'[p]) = Len(out[p]) + 1
              /\ \A i \in 1..Len(out[p]) : out'[p][i] = out[p][i]
              /\ out'[p][Len(out[p]) + 1] = <<what, n>>
         /\ \A s : Wrote(p, s)' <=> \/ Wrote(p, s)
                                    \/ cond /\ p = target /\ s = <<what, n>>
  <1>1. out \in [{0} \cup Nodes -> Seq(Statements)] /\ out[p] \in Seq(Statements)
        /\ <<what, n>> \in Statements
    BY DEF IInv, TypeOK, Statements
  <1>2. CASE p # target \/ ~cond
    <2>1. out'[p] = out[p]
      BY <1>1, <1>2 DEF Emit
    <2> QED
      BY <1>1, <1>2, <2>1 DEF Wrote
  <1>3. CASE p = target /\ cond
    <2> DEFINE q == out[p]
               r == out'[p]
    <2>1. Appended(p, <<what, n>>)
      BY <1>3, EmitAppends
    <2>2. /\ Len(q) \in Nat /\ Len(r) = Len(q) + 1
          /\ \A i \in 1..Len(q) : r[i] = q[i]
          /\ r[Len(q) + 1] = <<what, n>>
      BY <1>1, <2>1, LenProperties DEF Appended
    <2> HIDE DEF q, r
    <2>3. /\ \A i \in 1..Len(r) : i = Len(q) + 1 \/ i \in 1..Len(q)
          /\ \A i \in 1..Len(q) : i \in 1..Len(r)
          /\ Len(q) + 1 \in 1..Len(r)
      BY <2>2
    <2>4. ASSUME NEW s
          PROVE  (\E i \in 1..Len(r) : r[i] = s) <=>
                   (\E i \in 1..Len(q) : q[i] = s) \/ s = <<what, n>>
      BY <2>2, <2>3
    <2> QED
      BY <1>1, <1>3, <2>2, <2>4 DEF Wrote, q, r
  <1> QED
    BY <1>2, <1>3

\* Markup that is emitted after all that has been written keeps the order.
LEMMA EmitOrdered ==
  ASSUME IInv, Ordered, UNCHANGED tree, NEW cond \in BOOLEAN, NEW n \in Nodes,
         NEW what \in {"write", "end", "code", "begin", "close"},
         Emit(cond, what, n),
         cond /\ <<what, n>> \in Markup =>
           /\ <<what, n>> \in Marks
           /\ \A s \in Marks : Wrote(target, s) => Before(s, <<what, n>>)
  PROVE  Ordered'
  <1> DEFINE t == <<what, n>>
  <1>1. Marks' = Marks /\ \A a, b : Before(a, b)' <=> Before(a, b)
    BY SameTree
  <1>2. Markup' = Markup
    BY DEF Markup, IsMarkup, Statements
  <1>3. ASSUME NEW p \in {0} \cup Nodes
        PROVE  /\ \A i \in 1..Len(out'[p]) : out'[p][i] \in Markup => out'[p][i] \in Marks
               /\ \A j \in 1..Len(out'[p]) : \A i \in 1..(j - 1) :
                    out'[p][i] \in Markup /\ out'[p][j] \in Markup =>
                      Before(out'[p][i], out'[p][j])
    <2>1. CASE p # target \/ ~cond
      <3>1. out'[p] = out[p]
        BY <2>1, EmitWrote
      <3> QED
        BY <3>1 DEF Ordered
    <2>2. CASE p = target /\ cond
      <3> DEFINE q == out[p]
                 r == out'[p]
      <3>1. /\ q \in Seq(Statements) /\ Len(r) = Len(q) + 1
            /\ \A i \in 1..Len(q) : r[i] = q[i]
            /\ r[Len(q) + 1] = t
        <4>1. /\ out[p] \in Seq(Statements)
              /\ Len(out'[p]) = Len(out[p]) + 1
              /\ \A i \in 1..Len(out[p]) : out'[p][i] = out[p][i]
              /\ out'[p][Len(out[p]) + 1] = <<what, n>>
          <5>1. Appended(p, <<what, n>>)
            BY <2>2, EmitAppends
          <5> QED
            BY <5>1 DEF Appended
        <4> QED
          BY <4>1
      <3>2. /\ \A i \in 1..Len(q) : q[i] \in Markup => q[i] \in Marks
            /\ \A j \in 1..Len(q) : \A i \in 1..(j - 1) :
                 q[i] \in Markup /\ q[j] \in Markup => Before(q[i], q[j])
        BY DEF Ordered
      <3>3. ASSUME NEW i \in 1..Len(q), q[i] \in Markup, t \in Markup
            PROVE  Before(q[i], t)
        <4>1. q[i] \in Marks /\ Wrote(target, q[i])
          BY <2>2, <3>2, <3>3 DEF Wrote
        <4> QED
          BY <2>2, <3>3, <4>1
      <3>4. t \in Markup => t \in Marks
        BY <2>2
      <3> HIDE DEF q, r, t
      <3>5. Len(q) \in Nat
        BY <3>1, LenProperties
      <3>6. \A i \in 1..Len(r) : i = Len(q) + 1 \/ i \in 1..Len(q)
        BY <3>1, <3>5
      <3>7. \A i \in 1..Len(r) : r[i] \in Markup => r[i] \in Marks
        BY <3>1, <3>2, <3>4, <3>6
      <3>8. ASSUME NEW j \in 1..Len(r), NEW i \in 1..(j - 1),
                   r[i] \in Markup, r[j] \in Markup
            PROVE  Before(r[i], r[j])
        <4>1. CASE j \in 1..Len(q)
          <5>1. i \in 1..Len(q) /\ r[i] = q[i] /\ r[j] = q[j]
            BY <3>1, <3>5, <4>1
          <5> QED
            BY <3>2, <3>8, <4>1, <5>1
        <4>2. CASE j = Len(q) + 1
          <5>1. i \in 1..Len(q) /\ r[i] = q[i] /\ r[j] = t
            BY <3>1, <3>5, <4>2
          <5> QED
            BY <3>3, <3>8, <5>1
        <4> QED
          BY <3>6, <4>1, <4>2
      <3> QED
        BY <3>7, <3>8 DEF q, r
    <2> QED
      BY <2>1, <2>2
  <1> QED
    BY <1>1, <1>2, <1>3 DEF Ordered

\* The walk of a partial has it as its target; what it has written is done.
LEMMA Current ==
  ASSUME FInv
  PROVE  /\ phase = "page" => target = 0
         /\ phase = "partial" => /\ target \in Nodes /\ turn \in 1..Len(partials)
                                 /\ turn \in Nat /\ target = partials[turn]
                                 /\ kind[target] = "partial" /\ ~Hidden(target)
         /\ phase \in {"page", "partial"} => \A s \in Marks : Wrote(target, s) => Done(s)
  <1>1. phase = "page" => target = 0
    BY DEF FInv, CInv, IInv, Targets
  <1>2. ASSUME phase = "partial"
        PROVE  /\ target \in Nodes /\ turn \in 1..Len(partials) /\ turn \in Nat
               /\ target = partials[turn]
               /\ kind[target] = "partial" /\ ~Hidden(target)
    <2>1. /\ turn # 0 /\ target = partials[turn] /\ turn \in 0..Len(partials)
          /\ partials \in Seq(Nodes)
      BY <1>2 DEF FInv, CInv, IInv, TypeOK, Turns
    <2>2. turn \in 1..Len(partials) /\ turn \in Nat /\ target \in Nodes
      BY <2>1, LenProperties, ElementOfSeq
    <2>3. Found(target) # {}
      BY <2>1, <2>2 DEF Found
    <2> QED
      BY <1>2, <2>1, <2>2, <2>3 DEF FInv, CInv, Collected
  <1> QED
    BY <1>1, <1>2 DEF FInv, PageWritten, PartialWritten

\* A step of a walk: what it comes past is written, or not to be.
LEMMA WalkStep ==
  ASSUME FInv, phase \in {"collect", "page", "partial"},
         UNCHANGED <<tree, phase, turn, target>>,
         phase # "collect" => UNCHANGED partials,
         NEW cond \in BOOLEAN, NEW n \in Nodes,
         NEW what \in {"write", "end", "code", "begin", "close"},
         Emit(cond, what, n), cond => phase # "collect",
         cond /\ <<what, n>> \in Markup =>
           /\ <<what, n>> \in Marks /\ ~Hidden(n) /\ Done(<<what, n>>)'
           /\ \A s \in Marks : Done(s) => Before(s, <<what, n>>),
         \A s \in Marks : Done(s) => Done(s)',
         \A s \in Marks : Done(s)' =>
           \/ Done(s)
           \/ cond /\ s = <<what, n>>
           \/ /\ phase = "page" => Hidden(s[2])
              /\ phase = "partial" /\ Flat(target) => ~Encloses(target, s[2]),
         phase = "partial" /\ Flat(target) => (scope' <=> Open(target)')
  PROVE  Ordered' /\ Turns' /\ PageWritten' /\ PartialWritten' /\ PartialsWritten'
  <1> DEFINE t == <<what, n>>
  <1>1. /\ Marks' = Marks
        /\ \A m : (Hidden(m)' <=> Hidden(m)) /\ (Flat(m)' <=> Flat(m))
        /\ \A m, p : Encloses(m, p)' <=> Encloses(m, p)
    BY SameTree
  <1>2. IInv /\ Ordered
    BY DEF FInv, CInv
  <1>3. ASSUME NEW p \in {0} \cup Nodes, NEW s
        PROVE  Wrote(p, s)' <=> Wrote(p, s) \/ (cond /\ p = target /\ s = t)
    BY <1>2, EmitWrote
  <1>4. ASSUME NEW p \in {0} \cup Nodes, p # target \/ ~cond
        PROVE  out'[p] = out[p]
    <2>1. p # target \/ ~cond => out'[p] = out[p]
      BY <1>2, EmitWrote
    <2> QED
      BY <1>4, <2>1
  <1>5. 0 \notin Nodes
    BY NodesType
  <1>6. Ordered'
    <2>1. cond => \A s \in Marks : Wrote(target, s) => Done(s)
      BY Current
    <2> QED
      BY <1>2, <2>1, EmitOrdered
  <1>7. Turns'
    <2>1. phase = "collect" => out[0] = <<>> /\ ~cond
      BY DEF FInv, Turns
    <2>2. phase = "collect" => out'[0] = <<>>
      BY <1>4, <2>1
    <2>3. ASSUME NEW p \in Nodes, \A i \in 1..turn' : partials'[i] # p
          PROVE  out'[p] = <<>>
      <3>1. CASE phase = "collect"
        <4>1. turn = 0 /\ out[p] = <<>>
          BY <3>1 DEF FInv, Turns
        <4> QED
          BY <1>4, <2>1, <3>1, <4>1
      <3>2. CASE phase = "page"
        <4>1. out[p] = <<>> /\ target = 0
          BY <2>3, <3>2, Current DEF FInv, Turns
        <4> QED
          BY <1>4, <1>5, <4>1
      <3>3. CASE phase = "partial"
        <4>1. out[p] = <<>>
          BY <2>3, <3>3 DEF FInv, Turns
        <4>2. p # target
          <5>1. turn \in 1..turn
            BY <3>3, Current
          <5> QED
            BY <2>3, <3>3, <5>1, Current
        <4> QED
          BY <1>4, <4>1, <4>2
      <3> QED
        BY <3>1, <3>2, <3>3
    <2>4. /\ phase' \in {"collect", "page"} => turn' = 0
          /\ phase' \in {"partial", "panicked"} => turn' # 0 /\ target' = partials'[turn']
      BY DEF FInv, Turns
    <2> QED
      BY <2>2, <2>3, <2>4 DEF Turns
  <1>8. PageWritten'
    <2>1. ASSUME phase # "collect", NEW s \in Marks
          PROVE  Wrote(0, s)' <=> ~Hidden(s[2]) /\ (phase = "page" => Done(s)')
      <3>1. Wrote(0, s) <=> ~Hidden(s[2]) /\ (phase = "page" => Done(s))
        BY <2>1 DEF FInv, PageWritten
      <3>2. CASE phase = "page"
        <4>1. target = 0 /\ (Wrote(0, s)' <=> Wrote(0, s) \/ (cond /\ s = t))
          BY <1>3, <3>2, Current
        <4>2. t[2] = n
          OBVIOUS
        <4>3. cond /\ s = t => t \in Markup
          BY MarksType
        <4> QED
          BY <3>1, <3>2, <4>1, <4>2, <4>3
      <3>3. CASE phase = "partial"
        <4>1. Wrote(0, s)' <=> Wrote(0, s)
          <5>1. target # 0
            BY <1>5, <3>3, Current
          <5> QED
            BY <1>3, <5>1
        <4> QED
          BY <3>1, <3>3, <4>1
      <3> QED
        BY <2>1, <3>2, <3>3
    <2> QED
      BY <1>1, <2>1 DEF PageWritten
  <1>9. PartialWritten'
    <2> SUFFICES ASSUME phase = "partial"
                 PROVE  /\ \A s \in Marks : Wrote(target, s)' => Done(s)'
                        /\ Flat(target) => \A s \in Marks :
                             Encloses(target, s[2]) /\ Done(s)' => Wrote(target, s)'
      BY <1>1 DEF PartialWritten
    <2>1. target \in {0} \cup Nodes
      BY Current
    <2>2. \A s : Wrote(target, s)' <=> Wrote(target, s) \/ (cond /\ s = t)
      BY <1>3, <2>1, SMTT(60) DEF Wrote
    <2>3. \A s \in Marks : s \in Markup
      BY MarksType
    <2> QED
      BY <2>2, <2>3 DEF FInv, PartialWritten
  <1>10. PartialsWritten'
    <2> SUFFICES ASSUME NEW p \in Nodes, Generated(p)', Flat(p), NEW s \in Marks,
                        Encloses(p, s[2])
                 PROVE  Wrote(p, s)'
      BY <1>1 DEF PartialsWritten
    <2>1. Generated(p)
      <3>1. CASE phase = "collect"
        <4>1. turn = 0
          BY <3>1 DEF FInv, Turns
        <4> QED
          BY <4>1 DEF Generated
      <3>2. CASE phase # "collect"
        BY <3>2 DEF Generated
      <3> QED
        BY <3>1, <3>2
    <2>2. Wrote(p, s)
      BY <2>1 DEF FInv, PartialsWritten
    <2> QED
      BY <1>3, <2>2
  <1> QED
    BY <1>6, <1>7, <1>8, <1>9, <1>10

\* Where nothing is written, nothing of a flat target is missed.
LEMMA Unwritten ==
  ASSUME FInv, NEW n \in Nodes, NEW k \in Kinds, Reach(n, k) \/ Leave(n, k), ~Writes
  PROVE  /\ phase # "page"
         /\ phase = "partial" /\ Flat(target) => ~Encloses(target, n)
  <1>1. phase # "page"
    BY DEF Writes
  <1>2. ASSUME phase = "partial", Flat(target), Encloses(target, n) PROVE FALSE
    <2>1. target \in Nodes
      BY <1>2, Current
    <2>2. Open(target)
      BY <1>2, <2>1, OpenAt DEF Reach, Leave, Open, FInv, CInv
    <2>3. scope
      BY <1>2, <2>2 DEF FInv, PartialWritten
    <2> QED
      BY <1>2, <2>3 DEF Writes
  <1> QED
    BY <1>1, <1>2

\* Into a node that is not the target, and out of one.
LEMMA SameScope ==
  ASSUME FInv, UNCHANGED <<tree, phase, target, scope>>, NEW n \in Nodes,
         NEW k \in Kinds \ {"partial"},
         \/ Reach(n, k) /\ (Enter(n) \/ Skip(n))
         \/ Leave(n, k)
  PROVE  phase = "partial" /\ Flat(target) => (scope' <=> Open(target)')
  <1> SUFFICES ASSUME phase = "partial", Flat(target) PROVE scope' <=> Open(target)'
    OBVIOUS
  <1>1. target \in Nodes /\ kind[target] = "partial" /\ (scope <=> Open(target))
    BY Current DEF FInv, PartialWritten
  <1>2. kind[n] = k
    BY DEF Reach, Leave
  <1>3. ASSUME NEW m \in Nodes, m # n PROVE Open(m)' <=> Open(m)
    BY <1>3, Entered, SkippedOpen, LeftOpen DEF FInv, CInv
  <1>4. (Open(target))' <=> Open(target)
    BY <1>1, <1>2, <1>3
  <1>5. Open(target)' <=> (Open(target))'
    OBVIOUS
  <1> QED
    BY <1>1, <1>4, <1>5

LEMMA TextWrites ==
  ASSUME FInv, NEW n \in Nodes, VisitText(n)
  PROVE  Ordered' /\ Turns' /\ PageWritten' /\ PartialWritten' /\ PartialsWritten'
  <1> USE DEF VisitText, Kinds, Leaves
  <1> DEFINE t == <<"write", n>>
  <1>1. /\ Reach(n, "text") /\ Skip(n) /\ \A m \in Nodes : ~Encloses(n, m)
        /\ phase \in {"collect", "page", "partial"} /\ kind[n] = "text"
    BY PassedLeaf DEF FInv, CInv, IInv, TypeOK, Reach
  <1>2. \A s \in Marks : Done(s)' <=> Done(s) \/ s = t
    <2> SUFFICES ASSUME NEW s \in Marks PROVE Done(s)' <=> Done(s) \/ s = t
      OBVIOUS
    <2>1. s[2] \in Nodes /\ s = <<s[1], s[2]>> /\ (kind[s[2]] = "text" => s[1] = "write")
      BY MarksType
    <2>2. Done(s)' <=> Done(s) \/ s[2] = n \/ Encloses(n, s[2])
      BY <1>1, DoneSkipped DEF FInv, CInv
    <2>3. s[2] = n <=> s = t
      BY <1>1, <2>1
    <2> QED
      BY <1>1, <2>1, <2>2, <2>3
  <1>3. t \in Marks
    BY <1>1 DEF Marks, Markup, Statements, IsMarkup
  <1>4. ~Hidden(n)
    BY <1>1, OpenNotHidden DEF FInv, CInv, TopSection
  <1>5. \A s \in Marks : Done(s) => Before(s, t)
    BY <1>1, StartsAfter DEF FInv, CInv
  <1>6. ~Writes => /\ phase # "page"
                   /\ phase = "partial" /\ Flat(target) => ~Encloses(target, n)
    BY <1>1, Unwritten
  <1>7. phase = "partial" /\ Flat(target) => (scope' <=> Open(target)')
    BY <1>1, SameScope
  <1>8. Writes \in BOOLEAN /\ (Writes => phase # "collect")
    BY DEF Writes, FInv, CInv, IInv, TypeOK
  <1>9. \A s \in Marks : Done(s)' =>
           \/ Done(s)
           \/ Writes /\ s = t
           \/ /\ phase = "page" => Hidden(s[2])
              /\ phase = "partial" /\ Flat(target) => ~Encloses(target, s[2])
    BY <1>2, <1>6
  <1>10. Done(t)' /\ \A s \in Marks : Done(s) => Done(s)'
    BY <1>2, <1>3
  <1>11. Emit(Writes, "write", n) /\ UNCHANGED <<tree, phase, partials, turn, target>>
    OBVIOUS
  <1> QED
    BY <1>1, <1>3, <1>4, <1>5, <1>7, <1>8, <1>9, <1>10, <1>11, WalkStep

LEMMA ElementWrites ==
  ASSUME FInv, NEW n \in Nodes, EnterElement(n)
  PROVE  Ordered' /\ Turns' /\ PageWritten' /\ PartialWritten' /\ PartialsWritten'
  <1> USE DEF EnterElement, Kinds, Leaves
  <1> DEFINE t == <<"write", n>>
  <1>1. /\ Reach(n, "element") /\ Enter(n) /\ kind[n] = "element"
        /\ phase \in {"collect", "page", "partial"}
    BY DEF FInv, CInv, IInv, TypeOK, Reach
  <1>2. \A s \in Marks : Done(s)' <=> Done(s) \/ s = t
    BY <1>1, DoneEntered DEF FInv, CInv
  <1>3. t \in Marks
    BY <1>1 DEF Marks, Markup, Statements, IsMarkup
  <1>4. ~Hidden(n)
    BY <1>1, OpenNotHidden DEF FInv, CInv, TopSection
  <1>5. \A s \in Marks : Done(s) => Before(s, t)
    BY <1>1, StartsAfter DEF FInv, CInv
  <1>6. ~Writes => /\ phase # "page"
                   /\ phase = "partial" /\ Flat(target) => ~Encloses(target, n)
    BY <1>1, Unwritten
  <1>7. phase = "partial" /\ Flat(target) => (scope' <=> Open(target)')
    BY <1>1, SameScope
  <1>8. Writes \in BOOLEAN /\ (Writes => phase # "collect")
    BY DEF Writes, FInv, CInv, IInv, TypeOK
  <1>9. \A s \in Marks : Done(s)' =>
           \/ Done(s)
           \/ Writes /\ s = t
           \/ /\ phase = "page" => Hidden(s[2])
              /\ phase = "partial" /\ Flat(target) => ~Encloses(target, s[2])
    BY <1>2, <1>6
  <1>10. Done(t)' /\ \A s \in Marks : Done(s) => Done(s)'
    BY <1>2, <1>3
  <1>11. Emit(Writes, "write", n) /\ UNCHANGED <<tree, phase, partials, turn, target>>
    OBVIOUS
  <1> QED
    BY <1>1, <1>3, <1>4, <1>5, <1>7, <1>8, <1>9, <1>10, <1>11, WalkStep

LEMMA ElementEnds ==
  ASSUME FInv, NEW n \in Nodes, LeaveElement(n)
  PROVE  Ordered' /\ Turns' /\ PageWritten' /\ PartialWritten' /\ PartialsWritten'
  <1> USE DEF LeaveElement, Kinds, Leaves
  <1> DEFINE t == <<"end", n>>
  <1>1. /\ Leave(n, "element") /\ kind[n] = "element"
        /\ phase \in {"collect", "page", "partial"}
    BY DEF FInv, CInv, IInv, TypeOK, Leave
  <1>2. \A s \in Marks : Done(s)' <=> Done(s) \/ s = t
    BY <1>1, DoneLeft DEF FInv, CInv
  <1>3. t \in Marks
    BY <1>1 DEF Marks, Markup, Statements, IsMarkup
  <1>4. ~Hidden(n)
    BY <1>1, OpenNotHidden DEF FInv, CInv, TopSection
  <1>5. \A s \in Marks : Done(s) => Before(s, t)
    BY <1>1, EndsAfter DEF FInv, CInv
  <1>6. ~Writes => /\ phase # "page"
                   /\ phase = "partial" /\ Flat(target) => ~Encloses(target, n)
    BY <1>1, Unwritten
  <1>7. phase = "partial" /\ Flat(target) => (scope' <=> Open(target)')
    BY <1>1, SameScope
  <1>8. Writes \in BOOLEAN /\ (Writes => phase # "collect")
    BY DEF Writes, FInv, CInv, IInv, TypeOK
  <1>9. \A s \in Marks : Done(s)' =>
           \/ Done(s)
           \/ Writes /\ s = t
           \/ /\ phase = "page" => Hidden(s[2])
              /\ phase = "partial" /\ Flat(target) => ~Encloses(target, s[2])
    BY <1>2, <1>6
  <1>10. Done(t)' /\ \A s \in Marks : Done(s) => Done(s)'
    BY <1>2, <1>3
  <1>11. Emit(Writes, "end", n) /\ UNCHANGED <<tree, phase, partials, turn, target>>
    OBVIOUS
  <1> QED
    BY <1>1, <1>3, <1>4, <1>5, <1>7, <1>8, <1>9, <1>10, <1>11, WalkStep

LEMMA Nested ==
  ASSUME IInv, NEW a \in Nodes, NEW b \in Nodes, NEW m \in Nodes,
         Encloses(a, m), m = b \/ Encloses(b, m)
  PROVE  a = b \/ Encloses(a, b) \/ Encloses(b, a)
  <1>1. /\ a \in Nat /\ b \in Nat /\ m \in Nat
        /\ last[a] \in Nat /\ last[b] \in Nat
    BY NodesType, TreeType DEF IInv
  <1> QED
    BY <1>1 DEF Encloses

\* A step that writes no markup.
LEMMA QuietStep ==
  ASSUME FInv, phase \in {"collect", "page", "partial"},
         UNCHANGED <<tree, phase, turn, target>>,
         phase # "collect" => UNCHANGED partials,
         NEW cond \in BOOLEAN, NEW n \in Nodes, NEW what \in {"code", "begin", "close"},
         Emit(cond, what, n), cond => phase # "collect",
         \A s \in Marks : Done(s) => Done(s)',
         \A s \in Marks : Done(s)' =>
           \/ Done(s)
           \/ /\ phase = "page" => Hidden(s[2])
              /\ phase = "partial" /\ Flat(target) => ~Encloses(target, s[2]),
         phase = "partial" /\ Flat(target) => (scope' <=> Open(target)')
  PROVE  Ordered' /\ Turns' /\ PageWritten' /\ PartialWritten' /\ PartialsWritten'
  <1>1. <<what, n>> \notin Markup
    BY DEF Markup, IsMarkup
  <1>2. what \in {"write", "end", "code", "begin", "close"}
    OBVIOUS
  <1> QED
    BY <1>1, <1>2, WalkStep

\* A block that is no element has no markup of its own.
LEMMA BlockWrites ==
  ASSUME FInv, NEW n \in Nodes,
         EnterIf(n) \/ LeaveIf(n) \/ EnterFor(n) \/ LeaveFor(n)
           \/ EnterSection(n) \/ LeaveSection(n) \/ VisitCode(n)
  PROVE  Ordered' /\ Turns' /\ PageWritten' /\ PartialWritten' /\ PartialsWritten'
  <1> USE DEF Kinds, Leaves
  <1> DEFINE ks == {"if", "for", "section", "code"}
  <1>1. PICK k \in ks : \/ Reach(n, k) /\ (Enter(n) \/ (k = "code" /\ Pass(n)))
                        \/ Leave(n, k)
    BY DEF EnterIf, LeaveIf, EnterFor, LeaveFor, EnterSection, LeaveSection, VisitCode
  <1>2. Reach(n, k) /\ k = "code" /\ Pass(n) =>
          Skip(n) /\ \A m \in Nodes : ~Encloses(n, m)
    BY PassedLeaf DEF FInv, CInv
  <1>3. UNCHANGED <<tree, phase, partials, turn, target, scope>>
    BY DEF EnterIf, LeaveIf, EnterFor, LeaveFor, EnterSection, LeaveSection, VisitCode
  <1>4. phase \in {"collect", "page", "partial"} /\ kind[n] = k
    BY <1>1 DEF FInv, CInv, IInv, TypeOK, Reach, Leave
  <1>5. PICK what \in {"code", "begin", "close"} :
          Emit(Generates, what, n) \/ Emit(FALSE, what, n)
    BY DEF EnterIf, LeaveIf, EnterFor, LeaveFor, EnterSection, LeaveSection, VisitCode,
       Emit
  <1>6. PICK cond \in BOOLEAN : Emit(cond, what, n) /\ (cond => phase # "collect")
    BY <1>5 DEF Generates
  <1>7. ASSUME NEW s \in Marks PROVE Done(s)' <=> Done(s)
    <2>1. s[2] \in Nodes /\ s[2] # n /\ s # <<"write", n>> /\ s # <<"end", n>>
      BY <1>4, MarksType
    <2>2. CASE Reach(n, k) /\ Enter(n)
      BY <1>3, <2>1, <2>2, DoneEntered DEF FInv, CInv
    <2>3. CASE Reach(n, k) /\ k = "code" /\ Pass(n)
      BY <1>2, <1>3, <2>1, <2>3, DoneSkipped DEF FInv, CInv
    <2>4. CASE Leave(n, k)
      BY <1>3, <2>1, <2>4, DoneLeft DEF FInv, CInv
    <2> QED
      BY <1>1, <2>2, <2>3, <2>4
  <1>8. phase = "partial" /\ Flat(target) => (scope' <=> Open(target)')
    BY <1>1, <1>2, <1>3, SameScope
  <1> QED
    BY <1>3, <1>4, <1>6, <1>7, <1>8, QuietStep

\* What is skipped is hidden or in a loop that no flat target is in.
LEMMA SkipWrites ==
  ASSUME FInv, NEW n \in Nodes, SkipSection(n) \/ SkipFor(n)
  PROVE  Ordered' /\ Turns' /\ PageWritten' /\ PartialWritten' /\ PartialsWritten'
  <1> USE DEF Kinds, Leaves
  <1>1. PICK k \in {"section", "for"} : /\ Reach(n, k) /\ Skip(n)
                                        /\ k = "section" => parent[n] = 0
                                        /\ k = "for" => phase = "partial" /\ ~scope
    BY DEF SkipSection, SkipFor
  <1>2. UNCHANGED <<tree, phase, partials, turn, target, scope, out>>
    BY DEF SkipSection, SkipFor
  <1>3. phase \in {"collect", "page", "partial"} /\ kind[n] = k
    BY <1>1 DEF FInv, CInv, IInv, TypeOK, Reach
  <1>4. Emit(FALSE, "code", n)
    BY <1>2 DEF Emit
  <1>5. \A s \in Marks : Done(s)' <=> Done(s) \/ s[2] = n \/ Encloses(n, s[2])
    BY <1>1, <1>2, DoneSkipped DEF FInv, CInv
  <1>6. ASSUME NEW m \in Nodes, m = n \/ Encloses(n, m)
        PROVE  /\ phase = "page" => Hidden(m)
               /\ phase = "partial" /\ Flat(target) => ~Encloses(target, m)
    <2>1. k = "section" => TopSection(n)
      BY <1>1, <1>3 DEF TopSection
    <2>2. phase = "page" => Hidden(m)
      BY <1>1, <1>6, <2>1 DEF Hidden
    <2>3. ASSUME phase = "partial", Flat(target), Encloses(target, m) PROVE FALSE
      <3>1. target \in Nodes /\ kind[target] = "partial" /\ ~Hidden(target)
        BY <2>3, Current
      <3>2. Encloses(target, n) \/ Encloses(n, target)
        BY <1>3, <1>6, <2>3, <3>1, Nested DEF FInv, CInv
      <3>3. CASE k = "section"
        <4>1. Encloses(target, n)
          BY <2>1, <3>1, <3>2, <3>3 DEF Hidden
        <4>2. target <= 0
          BY <1>1, <3>1, <3>3, <4>1 DEF Encloses, FInv, CInv, IInv, IsTree
        <4> QED
          BY <3>1, <4>2, NodesType
      <3>4. CASE k = "for"
        <4>1. ~Writes
          BY <1>1, <2>3, <3>4 DEF Writes
        <4>2. ~Encloses(target, n)
          BY <1>1, <2>3, <4>1, Unwritten
        <4>3. InLoop(target)
          BY <1>3, <3>2, <3>4, <4>2 DEF InLoop
        <4> QED
          BY <2>3, <4>3 DEF Flat
      <3> QED
        BY <3>3, <3>4
    <2> QED
      BY <2>2, <2>3
  <1>7. \A s \in Marks : s[2] \in Nodes
    BY MarksType
  <1>8. phase = "partial" /\ Flat(target) => (scope' <=> Open(target)')
    BY <1>1, <1>2, SameScope
  <1>9. \A s \in Marks : Done(s)' =>
           \/ Done(s)
           \/ /\ phase = "page" => Hidden(s[2])
              /\ phase = "partial" /\ Flat(target) => ~Encloses(target, s[2])
    BY <1>5, <1>6, <1>7
  <1> QED
    BY <1>2, <1>3, <1>4, <1>5, <1>8, <1>9, QuietStep

\* The walk of a flat partial is in scope from where it enters the partial
\* until it leaves it.
LEMMA PartialWrites ==
  ASSUME FInv, NEW n \in Nodes, EnterPartial(n) \/ LeavePartial(n)
  PROVE  Ordered' /\ Turns' /\ PageWritten' /\ PartialWritten' /\ PartialsWritten'
  <1> USE DEF Kinds, Leaves
  <1>1. /\ \/ /\ Reach(n, "partial") /\ Enter(n)
              /\ scope' = (scope \/ (phase = "partial" /\ n = target))
           \/ Leave(n, "partial") /\ scope' = FALSE
        /\ UNCHANGED <<tree, phase, turn, target, out>>
        /\ phase # "collect" => UNCHANGED partials
    BY DEF EnterPartial, LeavePartial
  <1>2. phase \in {"collect", "page", "partial"} /\ kind[n] = "partial"
    BY <1>1 DEF FInv, CInv, IInv, TypeOK, Reach, Leave
  <1>3. Emit(FALSE, "code", n)
    BY <1>1 DEF Emit
  <1>4. ASSUME NEW s \in Marks PROVE Done(s)' <=> Done(s)
    <2>1. s # <<"write", n>> /\ s # <<"end", n>>
      BY <1>2, MarksType
    <2> QED
      BY <1>1, <2>1, DoneEntered, DoneLeft DEF FInv, CInv
  <1>5. ASSUME phase = "partial", Flat(target) PROVE scope' <=> Open(target)'
    <2>1. target \in Nodes /\ (scope <=> Open(target)) /\ target' = target
      BY <1>1, <1>5, Current DEF FInv, PartialWritten
    <2>2. CASE Reach(n, "partial") /\ Enter(n)
               /\ scope' = (scope \/ (phase = "partial" /\ n = target))
      <3>1. (Open(target))' <=> Open(target) \/ target = n
        BY <1>1, <2>1, <2>2, Entered DEF FInv, CInv
      <3> QED
        BY <1>5, <2>1, <2>2, <3>1
    <2>3. CASE Leave(n, "partial") /\ scope' = FALSE
      <3>1. (Open(target))' <=> Open(target) /\ target # n
        BY <1>1, <2>1, <2>3, LeftOpen DEF FInv, CInv
      <3>2. ~Encloses(target, n)
        BY <1>2, <1>5, <2>1 DEF Flat, Nests
      <3>3. Open(target) => target = n
        BY <2>3, <3>2 DEF Open, Leave
      <3> QED
        BY <2>3, <3>1, <3>3
    <2> QED
      BY <1>1, <2>2, <2>3
  <1> QED
    BY <1>1, <1>2, <1>3, <1>4, <1>5, QuietStep

LEMMA VisitWrites ==
  ASSUME FInv, NEW n \in Nodes, Visit(n)
  PROVE  Ordered' /\ Turns' /\ PageWritten' /\ PartialWritten' /\ PartialsWritten'
  <1>1. CASE SectionPanics(n)
    <2>1. /\ phase = "partial" /\ phase' = "panicked"
          /\ UNCHANGED <<tree, partials, turn, target, out>>
      BY <1>1 DEF SectionPanics
    <2>2. Ordered'
      BY <2>1, SameTree DEF FInv, Ordered, Markup, IsMarkup, Statements
    <2>3. Turns' /\ PageWritten' /\ PartialWritten'
      BY <2>1, SameTree DEF FInv, Turns, PageWritten, PartialWritten, Wrote
    <2>4. PartialsWritten'
      BY <2>1, SameTree DEF FInv, PartialsWritten, Generated, Wrote
    <2> QED
      BY <2>2, <2>3, <2>4
  <1> QED
    BY <1>1, TextWrites, ElementWrites, ElementEnds, BlockWrites, SkipWrites,
       PartialWrites DEF Visit

\* A walk that ends has completed its output; the next begins with none.
LEMMA NextWalkWrites ==
  ASSUME FInv, NextWalk
  PROVE  Ordered' /\ Turns' /\ PageWritten' /\ PartialWritten' /\ PartialsWritten'
  <1>1. /\ UNCHANGED <<tree, partials, cur, scope, out>> /\ at' = 1
        /\ cur = 0 /\ at = Size + 1 /\ phase \in {"collect", "page", "partial"}
    BY DEF NextWalk
  <1>2. /\ Marks' = Marks /\ \A p, s : Wrote(p, s)' <=> Wrote(p, s)
        /\ \A m : (Hidden(m)' <=> Hidden(m)) /\ (Flat(m)' <=> Flat(m))
        /\ \A m, p : Encloses(m, p)' <=> Encloses(m, p)
    BY <1>1, SameTree DEF Wrote
  <1>3. \A s \in Marks : Done(s)
    <2> SUFFICES ASSUME NEW s \in Marks PROVE Done(s)
      OBVIOUS
    <2>1. s[2] \in Nodes /\ Size \in Nat /\ s[2] \in Nat /\ s[2] <= Size
      BY MarksType, NodesType
    <2>2. Passed(s[2])
      BY <1>1, <2>1, AllPassed DEF FInv, CInv
    <2> QED
      BY <1>1, <2>1, <2>2 DEF Done
  <1>4. \A s \in Marks : ~Done(s)'
    <2> SUFFICES ASSUME NEW s \in Marks, Done(s)' PROVE FALSE
      OBVIOUS
    <2>1. s[2] \in Nat /\ 1 <= s[2]
      BY MarksType, NodesType
    <2> QED
      BY <1>1, <2>1 DEF Done, Passed
  <1>5. Ordered'
    BY <1>1, SameTree DEF FInv, Ordered, Markup, IsMarkup, Statements
  <1>6. phase # "collect" => \A s \in Marks : Wrote(0, s) <=> ~Hidden(s[2])
    BY <1>3 DEF FInv, PageWritten
  <1>7. CASE phase = "collect"
    <2>1. phase' = "page" /\ turn' = 0 /\ target' = target /\ turn = 0
      BY <1>7 DEF NextWalk, FInv, Turns
    <2>2. Turns'
      BY <1>1, <1>7, <2>1 DEF FInv, Turns
    <2>3. \A s : ~Wrote(0, s)
      BY <1>7 DEF FInv, Turns, Wrote
    <2>4. PageWritten' /\ PartialWritten'
      BY <1>2, <1>4, <2>1, <2>3 DEF PageWritten, PartialWritten
    <2>5. PartialsWritten'
      BY <2>1 DEF PartialsWritten, Generated
    <2> QED
      BY <1>5, <2>2, <2>4, <2>5
  <1>8. CASE phase # "collect"
    <2>1. partials \in Seq(Nodes) /\ turn \in 0..Len(partials)
      BY DEF FInv, CInv, IInv, TypeOK
    <2>2. turn \in Nat /\ Len(partials) \in Nat
      BY <2>1, LenProperties
    \* The walk that ends is the page's, or has completed its partial.
    <2>3. ASSUME NEW p \in Nodes, Flat(p), NEW i \in 1..turn, partials[i] = p,
                 NEW s \in Marks, Encloses(p, s[2])
          PROVE  Wrote(p, s)
      <3>1. CASE i < turn
        <4>1. Generated(p)
          BY <2>3, <3>1 DEF Generated
        <4> QED
          BY <2>3, <4>1 DEF FInv, PartialsWritten
      <3>2. CASE i = turn
        <4>1. phase = "partial"
          BY <1>1, <1>8, <2>2, <3>2 DEF FInv, Turns
        <4>2. target = p
          BY <2>3, <3>2, <4>1 DEF FInv, Turns
        <4> QED
          BY <1>3, <2>3, <4>1, <4>2 DEF FInv, PartialWritten
      <3> QED
        BY <2>2, <3>1, <3>2
    <2>4. CASE turn < Len(partials)
      <3>1. phase' = "partial" /\ turn' = turn + 1 /\ target' = partials[turn + 1]
        BY <1>8, <2>4 DEF NextWalk
      <3>2. turn + 1 \in 1..Len(partials) /\ turn + 1 # 0
        BY <2>2, <2>4
      <3>3. target' \in Nodes
        BY <2>1, <3>1, <3>2
      <3>4. \A i \in 1..turn : partials[i] # target'
        <4>1. turn + 1 \in Found(target')
          BY <3>1, <3>2 DEF Found
        <4>2. \E i \in Found(target') : Found(target') = {i}
          BY <3>3, <4>1 DEF FInv, CInv, Collected
        <4>3. \A i \in 1..turn : i # turn + 1 /\ i \in 1..Len(partials)
          BY <2>2, <2>4
        <4>4. \A i \in 1..Len(partials) : partials[i] = target' => i \in Found(target')
          BY DEF Found
        <4> QED
          BY <4>1, <4>2, <4>3, <4>4
      <3>5. out[target'] = <<>>
        BY <3>3, <3>4 DEF FInv, Turns
      <3>6. \A s : ~Wrote(target', s)
        BY <3>5 DEF Wrote
      <3>7. ~scope' /\ ~(Open(target))'
        <4>1. ~scope
          BY <1>1 DEF FInv, CInv, IInv, InScope
        <4>2. target' \in Nat /\ target' # 0 /\ cur' = 0
          BY <1>1, <3>3, NodesType
        <4>3. ~(target' < 0)
          BY <4>2
        <4> QED
          BY <1>1, <4>1, <4>2, <4>3 DEF Open, Encloses
      <3>8. Turns'
        <4>1. \A i \in 1..turn : i \in 1..(turn + 1)
          BY <2>2
        <4> QED
          BY <1>1, <3>1, <3>2, <4>1 DEF FInv, Turns
      <3>9. PageWritten'
        BY <1>2, <1>6, <1>8, <3>1 DEF PageWritten
      <3>10. PartialWritten'
        <4>1. \A s : ~(Wrote(target, s))'
          <5>1. \A s : (Wrote(target, s))' <=> Wrote(target', s)
            BY <1>1 DEF Wrote
          <5> QED
            BY <3>6, <5>1
        <4> QED
          BY <1>2, <1>4, <3>7, <4>1 DEF PartialWritten
      <3>11. PartialsWritten'
        <4>1. \A p \in Nodes : Generated(p)' => \E i \in 1..turn : partials[i] = p
          <5>1. \A i \in 1..(turn + 1) : i < turn + 1 => i \in 1..turn
            BY <2>2
          <5> QED
            BY <1>1, <3>1, <5>1 DEF Generated
        <4> QED
          BY <1>2, <2>3, <4>1 DEF PartialsWritten
      <3> QED
        BY <1>5, <3>8, <3>9, <3>10, <3>11
    <2>5. CASE ~(turn < Len(partials))
      <3>1. phase' = "done" /\ UNCHANGED <<turn, target>>
        BY <1>8, <2>5 DEF NextWalk
      <3>2. Turns'
        BY <1>1, <3>1 DEF FInv, Turns
      <3>3. PageWritten' /\ PartialWritten'
        BY <1>2, <1>6, <1>8, <3>1 DEF PageWritten, PartialWritten
      <3>4. \A p \in Nodes : Generated(p)' => \E i \in 1..turn : partials[i] = p
        BY <1>1, <3>1 DEF Generated
      <3>5. PartialsWritten'
        BY <1>2, <2>3, <3>4 DEF PartialsWritten
      <3> QED
        BY <1>5, <3>2, <3>3, <3>5
    <2> QED
      BY <2>4, <2>5
  <1> QED
    BY <1>7, <1>8

LEMMA InitWrites ==
  ASSUME Init PROVE Ordered /\ Turns /\ PageWritten /\ PartialWritten /\ PartialsWritten
  <1>1. /\ \A p \in {0} \cup Nodes : out[p] = <<>> /\ Len(out[p]) = 0
        /\ phase = "collect" /\ turn = 0
    BY DEF Init
  <1>2. Ordered
    BY <1>1 DEF Ordered
  <1>3. Turns
    BY <1>1 DEF Turns
  <1> QED
    BY <1>1, <1>2, <1>3 DEF PageWritten, PartialWritten, PartialsWritten, Generated

LEMMA StutterWrites ==
  ASSUME FInv, UNCHANGED vars
  PROVE  Ordered' /\ Turns' /\ PageWritten' /\ PartialWritten' /\ PartialsWritten'
  <1>1. UNCHANGED <<tree, phase, partials, turn, target, at, cur, scope, out>>
    BY DEF vars
  <1>2. Ordered' /\ Turns'
    BY <1>1, SameTree DEF FInv, Ordered, Turns, Markup, IsMarkup, Statements
  <1>3. \A s : (Done(s)' <=> Done(s)) /\ \A p : (Wrote(p, s)' <=> Wrote(p, s))
    BY <1>1 DEF Done, Passed, Open, Encloses, tree, Wrote
  <1>4. (Open(target)' <=> Open(target)) /\ (Wrote(0, target)' <=> Wrote(0, target))
    BY <1>1 DEF Open, Encloses, tree, Wrote
  <1>5. \A s : (Wrote(target, s))' <=> Wrote(target, s)
    BY <1>1 DEF Wrote
  <1>6. \A p : Generated(p)' <=> Generated(p)
    BY <1>1 DEF Generated
  <1> QED
    BY <1>1, <1>2, <1>3, <1>4, <1>5, <1>6, SameTree DEF FInv, PageWritten,
       PartialWritten, PartialsWritten

LEMMA FInvariance == Spec => []FInv
  <1>1. Init => FInv
    BY InitInv, InitFound, InitWrites DEF FInv, CInv
  <1>2. FInv /\ [Next]_vars => FInv'
    <2> SUFFICES ASSUME FInv, [Next]_vars PROVE FInv'
      OBVIOUS
    <2>1. IInv'
      BY NextWalkStep, VisitStep, StutterStep DEF Next, Finished, CInv, FInv
    <2>2. Visible' /\ Collected'
      BY NextWalkFound, VisitFound, StutterFound DEF Next, Finished, FInv
    <2>3. Ordered' /\ Turns' /\ PageWritten' /\ PartialWritten' /\ PartialsWritten'
      BY NextWalkWrites, VisitWrites, StutterWrites DEF Next, Finished
    <2> QED
      BY <2>1, <2>2, <2>3 DEF FInv, CInv
  <1> QED
    BY <1>1, <1>2, PTL DEF Spec

\* Nothing that a listed partial encloses is hidden.
LEMMA EnclosedNotHidden ==
  ASSUME IInv, NEW p \in Nodes, kind[p] = "partial", ~Hidden(p),
         NEW n \in Nodes, Encloses(p, n)
  PROVE  ~Hidden(n)
  <1> SUFFICES ASSUME NEW m \in Nodes, TopSection(m), m = n \/ Encloses(m, n)
               PROVE  FALSE
    BY DEF Hidden
  <1>1. p = m \/ Encloses(p, m) \/ Encloses(m, p)
    BY Nested
  <1>2. p # m /\ ~Encloses(m, p)
    BY DEF TopSection, Hidden
  <1>3. p <= parent[m] /\ parent[m] = 0
    BY <1>1, <1>2 DEF Encloses, IInv, IsTree, TopSection
  <1> QED
    BY <1>3, NodesType

\* The order of the document is a strict order.
LEMMA BeforeOrder ==
  ASSUME IInv
  PROVE  /\ \A x \in Marks : ~Before(x, x)
         /\ \A x, y, z \in Marks : Before(x, y) /\ Before(y, z) => Before(x, z)
  <1>1. ASSUME NEW x \in Marks PROVE First(x) \in Int /\ Second(x) \in Int
    <2>1. /\ x[2] \in Nat /\ Size \in Nat /\ last[x[2]] \in Nat
      BY MarksType, NodesType, TreeType DEF IInv
    <2> QED
      BY <2>1 DEF First, Second
  <1> QED
    BY <1>1 DEF Before

LEMMA FlatInv == FInv => FlatPartialsComplete
  <1> SUFFICES ASSUME FInv, NEW p \in Nodes, Generated(p), Flat(p)
               PROVE  Content(p) = Fragment(p)
    BY DEF FlatPartialsComplete, Flat
  <1> DEFINE R == {r \in Marks \X Marks : Before(r[1], r[2])}
             T == {s \in Markup : Encloses(p, s[2])}
             M == {s \in Marks : Encloses(p, s[2])}
  <1>1. IInv /\ Ordered /\ out[p] \in Seq(Statements) /\ out[0] \in Seq(Statements)
    BY DEF FInv, CInv, IInv, TypeOK
  <1>2. \A s, t \in Marks : Before(s, t) => <<s, t>> \in R
    OBVIOUS
  <1>3. Sorts(R, out[p], Markup) /\ Sorts(R, out[0], T)
    <2>1. ASSUME NEW q \in {0} \cup Nodes, NEW j \in 1..Len(out[q]),
                 NEW i \in 1..(j - 1), out[q][i] \in Markup, out[q][j] \in Markup
          PROVE  <<out[q][i], out[q][j]>> \in R
      <3>1. Len(out[q]) \in Nat
        BY <1>1, LenProperties DEF FInv, CInv, IInv, TypeOK
      <3>2. i \in 1..Len(out[q])
        BY <3>1
      <3>3. out[q][i] \in Marks /\ out[q][j] \in Marks /\ Before(out[q][i], out[q][j])
        BY <1>1, <2>1, <3>2 DEF Ordered
      <3> QED
        BY <1>2, <3>3
    <2> HIDE DEF R
    <2>2. T \subseteq Markup
      OBVIOUS
    <2> HIDE DEF T
    <2> QED
      BY <2>1, <2>2 DEF Sorts
  <1>4. partials \in Seq(Nodes) /\ turn \in 0..Len(partials)
    BY <1>1 DEF IInv, TypeOK
  <1>5. /\ phase # "collect" /\ phase # "page"
        /\ kind[p] = "partial" /\ ~Hidden(p)
    <2>1. PICK i \in 1..turn : partials[i] = p
      BY DEF Generated
    <2>2. turn # 0 /\ i \in 1..Len(partials)
      BY <1>4, <2>1, LenProperties
    <2>3. i \in Found(p)
      BY <2>1, <2>2 DEF Found
    <2> QED
      BY <2>2, <2>3 DEF FInv, Turns, CInv, Collected
  \* What is written in the partial, by its responder and by the page's.
  <1>6. ASSUME NEW s \in M PROVE Wrote(p, s) /\ Wrote(0, s) /\ s \in Markup /\ s \in T
    <2>1. s \in Marks /\ Encloses(p, s[2]) /\ s[2] \in Nodes /\ s \in Markup
      BY MarksType
    <2>2. ~Hidden(s[2])
      BY <1>1, <1>5, <2>1, EnclosedNotHidden
    <2> QED
      BY <1>5, <2>1, <2>2 DEF FInv, PageWritten, PartialsWritten
  <1>7. ASSUME NEW s, s \in Markup, Wrote(p, s) PROVE s \in M
    <2>1. PICK i \in 1..Len(out[p]) : out[p][i] = s
      BY <1>7 DEF Wrote
    <2>2. s \in Marks /\ Encloses(p, s[2])
      BY <1>1, <1>7, <2>1 DEF Ordered, IInv, ScopedOutput, Markup
    <2> QED
      BY <2>2
  <1>8. ASSUME NEW s, s \in T, Wrote(0, s) PROVE s \in M
    <2>1. PICK i \in 1..Len(out[0]) : out[0][i] = s
      BY <1>8 DEF Wrote
    <2>2. s \in Marks /\ Encloses(p, s[2])
      BY <1>1, <1>8, <2>1 DEF Ordered
    <2> QED
      BY <2>2
  <1> DEFINE a == Select(out[p], Markup)
             b == Select(out[0], T)
  <1>9. a = Content(p) /\ b = Fragment(p)
    BY DEF Content, Fragment
  <1> HIDE DEF a, b
  <1>10. StrictOn(R, M)
    BY <1>1, BeforeOrder DEF StrictOn
  <1> HIDE DEF R, T, M
  <1>11. /\ a \in Seq(Statements) /\ Sorts(R, a, Markup)
         /\ \A x : (\E i \in 1..Len(a) : a[i] = x) <=> x \in Markup /\ Wrote(p, x)
    <2> DEFINE s == out[p]
    <2>1. Sorts(R, s, Markup) /\ s \in Seq(Statements)
      BY <1>1, <1>3
    <2>2. \A x : Wrote(p, x) <=> \E i \in 1..Len(s) : s[i] = x
      BY DEF Wrote
    <2>3. a = Select(s, Markup)
      BY DEF a
    <2> HIDE DEF s
    <2>4. /\ Select(s, Markup) \in Seq(Statements)
          /\ \A x : (\E i \in 1..Len(Select(s, Markup)) : Select(s, Markup)[i] = x)
                      <=> x \in Markup /\ \E i \in 1..Len(s) : s[i] = x
          /\ Sorts(R, Select(s, Markup), Markup)
      BY <2>1, SelectIs
    <2> QED
      BY <2>2, <2>3, <2>4
  <1>12. /\ b \in Seq(Statements) /\ Sorts(R, b, T)
         /\ \A x : (\E i \in 1..Len(b) : b[i] = x) <=> x \in T /\ Wrote(0, x)
    <2> DEFINE s == out[0]
    <2>1. Sorts(R, s, T) /\ s \in Seq(Statements)
      BY <1>1, <1>3
    <2>2. \A x : Wrote(0, x) <=> \E i \in 1..Len(s) : s[i] = x
      BY DEF Wrote
    <2>3. b = Select(s, T)
      BY DEF b
    <2> HIDE DEF s
    <2>4. /\ Select(s, T) \in Seq(Statements)
          /\ \A x : (\E i \in 1..Len(Select(s, T)) : Select(s, T)[i] = x)
                      <=> x \in T /\ \E i \in 1..Len(s) : s[i] = x
          /\ Sorts(R, Select(s, T), T)
      BY <2>1, SelectIs
    <2> QED
      BY <2>2, <2>3, <2>4
  <1>13. Sorts(R, a, M) /\ Sorts(R, b, M)
    BY <1>6, <1>11, <1>12 DEF Sorts
  <1>14. Within(a, b, M)
    <2> SUFFICES ASSUME NEW i \in 1..Len(a)
                 PROVE  a[i] \in M /\ \E j \in 1..Len(b) : b[j] = a[i]
      BY DEF Within
    <2>1. a[i] \in Markup /\ Wrote(p, a[i])
      BY <1>11
    <2>2. a[i] \in M
      BY <1>7, <2>1
    <2> QED
      BY <1>6, <1>12, <2>2
  <1>15. Within(b, a, M)
    <2> SUFFICES ASSUME NEW i \in 1..Len(b)
                 PROVE  b[i] \in M /\ \E j \in 1..Len(a) : a[j] = b[i]
      BY DEF Within
    <2>1. b[i] \in T /\ Wrote(0, b[i])
      BY <1>12
    <2>2. b[i] \in M
      BY <1>8, <2>1
    <2> QED
      BY <1>6, <1>11, <2>2
  <1>16. a = b
    BY <1>10, <1>11, <1>12, <1>13, <1>14, <1>15, SameOrder
  <1> QED
    BY <1>9, <1>16

\* The responder generated for a partial that encloses no partial and is in no
\* loop writes all that the page writes in it, in the same order.
THEOREM FlatPartialsAreComplete == Spec => []FlatPartialsComplete
  BY FInvariance, FlatInv, PTL
=============================================================================
