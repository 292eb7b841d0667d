----------------------------- MODULE PartialGen -----------------------------
(***************************************************************************)
(* From the syntax tree of a page to the code of its responders: one for   *)
(* the page and one for each inline partial, which is to respond with the  *)
(* part of the page it encloses.                                           *)
(*                                                                         *)
(* The nodes of the tree are numbered in document order; node n encloses   *)
(* n + 1 .. last[n].  Three walks go over them: newPageFromTree lists the  *)
(* partials, genNode generates the page, genNodePartial one partial.  Of a *)
(* statement of the generated code only its kind and its node are kept; an *)
(* expression is like text, and of an ^if only one block is kept.          *)
(***************************************************************************)
EXTENDS Naturals, Sequences

CONSTANT Size      \* bound: nodes of the tree

ASSUME SizeAssumption == Size \in Nat

Nodes == 1..Size

Leaves == {"text", "code"}
Kinds == Leaves \cup {"element", "if", "for", "section", "partial"}

VARIABLES
  kind, last, parent,   \* the tree; parent 0 for nodes at the top
  phase,     \* "collect", "page", "partial", "done" or "panicked"
  partials,  \* page.partials
  turn,      \* how many of them have been generated or are being generated
  target,    \* the partial being generated, 0 in other walks
  at,        \* the next node of the walk
  cur,       \* the innermost node it is in, 0 at the top
  scope,     \* state = stateInPartialScope
  out        \* statements generated, per partial; out[0] for the page

tree == <<kind, last, parent>>
vars == <<tree, phase, partials, turn, target, at, cur, scope, out>>

\* What the parser can produce: blocks within blocks, in document order.
IsTree ==
  \A n \in Nodes :
    /\ n <= last[n]
    /\ parent[n] < n
    /\ parent[n] # 0 => last[n] <= last[parent[n]]
    /\ \A m \in Nodes : m < n /\ n <= last[m] =>
         m <= parent[n] /\ last[n] <= last[m]
    /\ kind[n] \in Leaves => last[n] = n

Init ==
  /\ parent \in [Nodes -> 0..Size]
  /\ \A n \in Nodes : parent[n] < n
  /\ last \in [Nodes -> Nodes]
  /\ kind \in [Nodes -> Kinds]
  /\ IsTree
  /\ phase = "collect"
  /\ partials = <<>>
  /\ turn = 0
  /\ target = 0
  /\ at = 1
  /\ cur = 0
  /\ scope = FALSE
  /\ out = [p \in {0} \cup Nodes |-> <<>>]

\* The walk comes to node n, of kind k, and goes into it, past it, or past
\* all it encloses; it comes out of node n.
Reach(n, k) == phase \notin {"done", "panicked"} /\ at = n /\ parent[n] = cur
               /\ kind[n] = k
Enter(n) == at' = n + 1 /\ cur' = n
Pass(n) == at' = n + 1 /\ UNCHANGED cur
Skip(n) == at' = last[n] + 1 /\ UNCHANGED cur
Leave(n, k) == /\ phase \notin {"done", "panicked"}
               /\ cur = n /\ at = last[n] + 1 /\ kind[n] = k
               /\ cur' = parent[n] /\ UNCHANGED at

\* Go code and control flow are generated in and out of the partial's scope,
\* markup only in it.
Generates == phase # "collect"
Writes == phase = "page" \/ (phase = "partial" /\ scope)

Emit(cond, what, n) ==
  out' = IF cond THEN [out EXCEPT ![target] = Append(@, <<what, n>>)] ELSE out

-----------------------------------------------------------------------------
(* The code with one mistake each, for the mutation runs only.             *)

\* The state is not reset after a partial.
LeavePartialInScope(n) ==
  /\ Leave(n, "partial")
  /\ partials' = IF phase = "collect" THEN Append(partials, n) ELSE partials
  /\ UNCHANGED <<tree, phase, turn, target, scope, out>>

\* Elements reset the state as partials do.
LeaveElementResets(n) ==
  /\ Leave(n, "element")
  /\ Emit(Writes, "end", n)
  /\ scope' = FALSE
  /\ UNCHANGED <<tree, phase, partials, turn, target>>

\* The pass for partials does not look into ^if.
EnterIfNot(n) ==
  /\ Reach(n, "if")
  /\ IF phase = "collect" THEN Skip(n) ELSE Enter(n)
  /\ Emit(Generates, "begin", n)
  /\ UNCHANGED <<tree, phase, partials, turn, target, scope>>

\* The walks do not stop after the last partial.
NextWalkStays ==
  /\ phase \in {"collect", "page", "partial"}
  /\ cur = 0 /\ at = Size + 1
  /\ phase' = "page"
  /\ turn' = turn + 1
  /\ target' = 0
  /\ at' = 1
  /\ UNCHANGED <<tree, partials, cur, scope, out>>
-----------------------------------------------------------------------------
(* The walks.  newPageFromTree has taken the sections at the top out of    *)
(* page.nodes: no walk goes into them.                                     *)

SkipSection(n) ==
  /\ Reach(n, "section")
  /\ parent[n] = 0
  /\ Skip(n)
  /\ UNCHANGED <<tree, phase, partials, turn, target, scope, out>>

VisitText(n) ==
  /\ Reach(n, "text")
  /\ Pass(n)
  /\ Emit(Writes, "write", n)
  /\ UNCHANGED <<tree, phase, partials, turn, target, scope>>

VisitCode(n) ==
  /\ Reach(n, "code")
  /\ Pass(n)
  /\ Emit(Generates, "code", n)
  /\ UNCHANGED <<tree, phase, partials, turn, target, scope>>

\* The start tag with its attributes.
EnterElement(n) ==
  /\ Reach(n, "element")
  /\ Enter(n)
  /\ Emit(Writes, "write", n)
  /\ UNCHANGED <<tree, phase, partials, turn, target, scope>>

\* The end tag, when the state after the children is still in scope.
LeaveElement(n) ==
  /\ Leave(n, "element")
  /\ Emit(Writes, "end", n)
  /\ UNCHANGED <<tree, phase, partials, turn, target, scope>>

EnterIf(n) ==
  /\ Reach(n, "if")
  /\ Enter(n)
  /\ Emit(Generates, "begin", n)
  /\ UNCHANGED <<tree, phase, partials, turn, target, scope>>

LeaveIf(n) ==
  /\ Leave(n, "if")
  /\ Emit(Generates, "close", n)
  /\ UNCHANGED <<tree, phase, partials, turn, target, scope>>

EnterFor(n) ==
  /\ Reach(n, "for")
  /\ phase = "partial" => scope
  /\ Enter(n)
  /\ Emit(Generates, "begin", n)
  /\ UNCHANGED <<tree, phase, partials, turn, target, scope>>

\* genNodePartial leaves out a loop that it meets out of scope.
SkipFor(n) ==
  /\ Reach(n, "for")
  /\ phase = "partial" /\ ~scope
  /\ Skip(n)
  /\ UNCHANGED <<tree, phase, partials, turn, target, scope, out>>

LeaveFor(n) ==
  /\ Leave(n, "for")
  /\ Emit(Generates, "close", n)
  /\ UNCHANGED <<tree, phase, partials, turn, target, scope>>

EnterSection(n) ==
  /\ Reach(n, "section")
  /\ parent[n] # 0 /\ phase # "partial"
  /\ Enter(n)
  /\ UNCHANGED <<tree, phase, partials, turn, target, scope, out>>

LeaveSection(n) ==
  /\ Leave(n, "section")
  /\ UNCHANGED <<tree, phase, partials, turn, target, scope, out>>

\* genNodePartial has no case for sections.
SectionPanics(n) ==
  /\ Reach(n, "section")
  /\ parent[n] # 0 /\ phase = "partial"
  /\ phase' = "panicked"
  /\ UNCHANGED <<tree, partials, turn, target, at, cur, scope, out>>

EnterPartial(n) ==
  /\ Reach(n, "partial")
  /\ Enter(n)
  /\ scope' = (scope \/ (phase = "partial" /\ n = target))
  /\ UNCHANGED <<tree, phase, partials, turn, target, out>>

\* Every partial, not the target alone, resets the state.
LeavePartial(n) ==
  /\ Leave(n, "partial")
  /\ scope' = FALSE
  /\ partials' = IF phase = "collect" THEN Append(partials, n) ELSE partials
  /\ UNCHANGED <<tree, phase, turn, target, out>>

\* genCodePage: the page, then each of its partials.
NextWalk ==
  /\ phase \in {"collect", "page", "partial"}
  /\ cur = 0 /\ at = Size + 1
  /\ IF phase = "collect"
     THEN phase' = "page" /\ UNCHANGED <<turn, target>>
     ELSE IF turn < Len(partials)
     THEN phase' = "partial" /\ turn' = turn + 1 /\ target' = partials[turn + 1]
     ELSE phase' = "done" /\ UNCHANGED <<turn, target>>
  /\ at' = 1
  /\ UNCHANGED <<tree, partials, cur, scope, out>>

Visit(n) ==
  \/ SkipSection(n) \/ VisitText(n) \/ VisitCode(n)
  \/ EnterElement(n) \/ LeaveElement(n) \/ EnterIf(n) \/ LeaveIf(n)
  \/ EnterFor(n) \/ SkipFor(n) \/ LeaveFor(n)
  \/ EnterSection(n) \/ LeaveSection(n) \/ SectionPanics(n)
  \/ EnterPartial(n) \/ LeavePartial(n)

\* The code has been generated, or the compiler has panicked.
Finished == phase \in {"done", "panicked"} /\ UNCHANGED vars

Next == NextWalk \/ Finished \/ \E n \in Nodes : Visit(n)

Spec == Init /\ [][Next]_vars
-----------------------------------------------------------------------------
(* Properties. *)

Statements == {"write", "end", "code", "begin", "close"} \X Nodes

\* The type invariant.  Statements belong to a node each.
TypeOK ==
  /\ kind \in [Nodes -> Kinds]
  /\ last \in [Nodes -> Nodes]
  /\ parent \in [Nodes -> 0..Size]
  /\ phase \in {"collect", "page", "partial", "done", "panicked"}
  /\ partials \in Seq(Nodes)
  /\ turn \in 0..Len(partials)
  /\ target \in 0..Size
  /\ at \in 1..(Size + 1)
  /\ cur \in 0..Size
  /\ scope \in BOOLEAN
  /\ out \in [{0} \cup Nodes -> Seq(Statements)]

Encloses(p, n) == p < n /\ n <= last[p]

IsMarkup(s) == s[1] \in {"write", "end"}
Markup == {s \in Statements : IsMarkup(s)}

\* The statements of s that are in T.
Select(s, T) ==
  LET kept[i \in 0..Len(s)] ==
        IF i = 0 THEN <<>>
        ELSE IF s[i] \in T THEN Append(kept[i - 1], s[i]) ELSE kept[i - 1]
  IN kept[Len(s)]

\* What the responder of partial p writes, and what the page's writes there.
Content(p) == Select(out[p], Markup)
Fragment(p) == Select(out[0], {s \in Markup : Encloses(p, s[2])})

Generated(p) == \E i \in 1..turn : partials[i] = p /\ (i < turn \/ phase = "done")
InLoop(p) == \E n \in Nodes : kind[n] = "for" /\ Encloses(n, p)
Nests(p) == \E n \in Nodes : kind[n] = "partial" /\ Encloses(p, n)

\* Node n is part of a section at the top.
TopSection(m) == kind[m] = "section" /\ parent[m] = 0
Hidden(n) == \E m \in Nodes : TopSection(m) /\ (m = n \/ Encloses(m, n))

Found(n) == {i \in 1..Len(partials) : partials[i] = n}

\* newPageFromTree finds every partial that is left in page.nodes, whatever it
\* is nested in, lists nothing else, and nothing twice.
PartialsFound ==
  phase # "collect" =>
    /\ \A n \in Nodes : kind[n] = "partial" /\ ~Hidden(n) => Found(n) # {}
    /\ \A i \in 1..Len(partials) :
         kind[partials[i]] = "partial" /\ Found(partials[i]) = {i}

\* The responder of a partial writes nothing from outside the partial: the
\* state genNodePartial keeps is never left behind in scope.
ScopedOutput ==
  \A p \in Nodes : \A i \in 1..Len(out[p]) :
    IsMarkup(out[p][i]) => Encloses(p, out[p][i][2])

\* A partial that encloses no partial and is in no loop responds with all of
\* its part of the page.
FlatPartialsComplete ==
  \A p \in Nodes : Generated(p) /\ ~InLoop(p) /\ ~Nests(p)
                     => Content(p) = Fragment(p)

\* What the README says of every partial.
PartialsComplete ==
  \A p \in Nodes : Generated(p) => Content(p) = Fragment(p)
-----------------------------------------------------------------------------
(* The inductive invariant behind ScopedOutput.                            *)

\* The walk is inside cur or just past it.
Position == cur # 0 => cur < at /\ at <= last[cur] + 1

\* Only partials are listed and generated, in their own phase.
Targets ==
  /\ \A i \in 1..Len(partials) : kind[partials[i]] = "partial"
  /\ target # 0 => kind[target] = "partial"
  /\ phase \in {"collect", "page"} => target = 0

\* In scope, the walk is inside the target.
InScope ==
  scope => /\ phase \in {"partial", "panicked"} /\ target # 0 /\ cur # 0
           /\ target = cur \/ Encloses(target, cur)

IInv == TypeOK /\ IsTree /\ Position /\ Targets /\ InScope /\ ScopedOutput
-----------------------------------------------------------------------------
(* The inductive invariant behind PartialsFound.                           *)

\* The walk is inside node n; it has come past it.
Open(n) == n = cur \/ Encloses(n, cur)
Passed(n) == n < at /\ ~Open(n)

\* No walk is in a section at the top.
Visible == \A n \in Nodes : Open(n) => ~TopSection(n)

Collected ==
  \A n \in Nodes :
    IF kind[n] = "partial" /\ ~Hidden(n) /\ (phase = "collect" => Passed(n))
    THEN \E i \in Found(n) : Found(n) = {i}
    ELSE Found(n) = {}

CInv == IInv /\ Visible /\ Collected
-----------------------------------------------------------------------------
(* The inductive invariant behind FlatPartialsComplete.                    *)

\* The markup there is: text, start tags and end tags.
Marks == {s \in Markup : \/ kind[s[2]] = "element"
                         \/ kind[s[2]] = "text" /\ s[1] = "write"}

\* Markup in the order of the document; an end tag comes after what its
\* element encloses, and inner end tags before outer ones.
First(s) == IF s[1] = "write" THEN s[2] ELSE last[s[2]]
Second(s) == IF s[1] = "write" THEN 0 ELSE Size + 1 - s[2]
Before(s, t) == \/ First(s) < First(t)
                \/ First(s) = First(t) /\ Second(s) < Second(t)

\* The walk has come past the place of s; s has been written to p.
Done(s) == IF s[1] = "write" THEN s[2] < at ELSE Passed(s[2])
Wrote(p, s) == \E i \in 1..Len(out[p]) : out[p][i] = s

\* Markup is written once, in the order of the document.
Ordered ==
  \A p \in {0} \cup Nodes :
    /\ \A i \in 1..Len(out[p]) : out[p][i] \in Markup => out[p][i] \in Marks
    /\ \A j \in 1..Len(out[p]) : \A i \in 1..(j - 1) :
         out[p][i] \in Markup /\ out[p][j] \in Markup =>
           Before(out[p][i], out[p][j])

\* Each walk has its own output.
Turns ==
  /\ phase \in {"collect", "page"} => turn = 0
  /\ phase \in {"partial", "panicked"} => turn # 0 /\ target = partials[turn]
  /\ phase = "collect" => out[0] = <<>>
  /\ \A p \in Nodes : (\A i \in 1..turn : partials[i] # p) => out[p] = <<>>

\* The page has what is not hidden, as far as its walk has come.
PageWritten ==
  phase # "collect" =>
    \A s \in Marks : Wrote(0, s) <=> ~Hidden(s[2]) /\ (phase = "page" => Done(s))

Flat(p) == ~InLoop(p) /\ ~Nests(p)

\* So has a flat partial, and its walk is in scope while it is in the target.
PartialWritten ==
  phase = "partial" =>
    /\ \A s \in Marks : Wrote(target, s) => Done(s)
    /\ Flat(target) =>
         /\ scope <=> Open(target)
         /\ \A s \in Marks : Encloses(target, s[2]) /\ Done(s) => Wrote(target, s)

\* What has been generated is complete.
PartialsWritten ==
  \A p \in Nodes : Generated(p) /\ Flat(p) =>
    \A s \in Marks : Encloses(p, s[2]) => Wrote(p, s)

FInv == /\ CInv
        /\ Ordered /\ Turns /\ PageWritten /\ PartialWritten /\ PartialsWritten
=============================================================================
