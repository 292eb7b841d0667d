------------------------------ MODULE Routing ------------------------------
(***************************************************************************)
(* From the files of a project's pages to the responders of requests: the  *)
(* dev server's builds write a Go file for each page into a directory they *)
(* do not clear, the Go files register the routes of pages and partials,   *)
(* and a request is answered by the most specific route that matches it.   *)
(*                                                                         *)
(* A page is the sequence of the names of its directories and its base; a  *)
(* path is the sequence of what its slashes separate, so that one that     *)
(* ends with a slash ends with the empty segment.  What is done to the     *)
(* characters of a name is given by constants.                             *)
(***************************************************************************)
EXTENDS Naturals, Sequences, FiniteSets

CONSTANTS
  Names,      \* of directories, pages and partials, without the extension
  Index,      \* the name "index"
  Slash,      \* the empty segment, after a trailing slash
  Dynamic,    \* names that begin with a dollar sign
  Digits,     \* names that begin with a digit
  Reserved,   \* segments the application's mux handles by itself
  Segments,   \* what paths are made of, other than Slash
  Regex,      \* what a name matches as it is put into the route's expression
  Pieces,     \* a name in a Go file's name, split at "__"
  Words,      \* a name in a Go type's name, cut so that sequences of words
              \* are equal when the type names are
  Walk,       \* the candidate pages in the order fs.WalkDir lists them
  Sorted,     \* their Go files in the order the go tool initialises them
  Ignored,    \* Go files it leaves out, by their names: _windows, _arm
  Partials,   \* of each page: the url paths of its partials, in order
  Paths,      \* paths that are asked for
  MaxPages,   \* bound: pages at the start
  MaxEdits    \* bound: pages written or deleted after it

Files == {Walk[i] : i \in DOMAIN Walk}
GoFiles == {Sorted[i] : i \in DOMAIN Sorted}

ASSUME RoutingAssumption ==
  /\ Dynamic \subseteq Names /\ Index \in Names \ Dynamic
  /\ Slash \notin Names \cup Segments
  /\ Regex \in [Names \ Dynamic -> SUBSET Segments]
  /\ Walk \in Seq(Seq(Names) \ {<<>>})
  /\ Partials \in [Files -> Seq(Seq(Names) \ {<<>>})]
  /\ Paths \subseteq Seq(Segments \cup {Slash})
  /\ MaxPages \in Nat /\ MaxEdits \in Nat

VARIABLES
  pages,    \* the files of the pages
  changed,  \* a page has been written since the last scan
  edits,    \* how often pages were written or deleted
  phase,    \* "compile", "serving" or "failed": pushup has returned an error
  todo,     \* pages of the scan that have not been compiled
  outs,     \* the Go files in the output directory, and their pages
  routes,   \* the routes of the application
  stage,    \* the request: "idle", "asked", "found", "missing" or "other"
  path,     \* its path
  answer,   \* the index of the route that answered, or 0
  params    \* what getParam returns to it

project == <<pages, changed, edits>>
request == <<stage, path, answer, params>>
vars == <<project, phase, todo, outs, routes, request>>

-----------------------------------------------------------------------------
(* Names. *)

Front(s) == SubSeq(s, 1, Len(s) - 1)
Last(s) == s[Len(s)]

\* The concatenation of what p has for the members of s.
Concat(p, s) ==
  LET joined[i \in 0..Len(s)] ==
        IF i = 0 THEN <<>> ELSE joined[i - 1] \o p[s[i]]
  IN joined[Len(s)]

\* Pages in the order of the walk.
Listed(S) == Concat([f \in Files |-> IF f \in S THEN <<f>> ELSE <<>>], Walk)

\* compiledOutputPath
Out == [f \in Files |-> Concat(Pieces, f)]

\* The go tool knows where each Go file comes.
ASSUME SortedAssumption ==
  /\ Sorted \in Seq(GoFiles)
  /\ \A f \in Files : Out[f] \in GoFiles

\* routeForPage: the path of an index ends with a slash.
RoutePath(f) == IF Last(f) = Index THEN Append(Front(f), Slash) ELSE f

\* routeForPartial
PartialPath(f, q) == RoutePath((IF Last(f) = Index THEN Front(f) ELSE f) \o q)

\* generatedTypename, generatedTypenamePartial
TypeName(r) == <<Concat(Words, r.page \o r.part), r.part = <<>> >>

\* The routes that the Go file of page f adds in its init.
RoutesOf ==
  [f \in Files |->
     <<[path |-> RoutePath(f), page |-> f, part |-> <<>>]>>
       \o [i \in DOMAIN Partials[f] |->
             [path |-> PartialPath(f, Partials[f][i]),
              page |-> f, part |-> Partials[f][i]]]]

\* All of them, in the order of the Go files.
RoutesIn(o) ==
  Concat([g \in GoFiles |->
            IF g \in DOMAIN o \ Ignored THEN RoutesOf[o[g]] ELSE <<>>], Sorted)
-----------------------------------------------------------------------------
(* Matching. *)

\* A segment of a route is compiled to a group or, unquoted, to itself.
Covers(n) == IF n \in Dynamic THEN Segments
             ELSE IF n = Slash THEN {Slash} ELSE Regex[n]

Fits(r, p) == Len(r) = Len(p) /\ \A i \in DOMAIN r : p[i] \in Covers(r[i])

SlugsAt(r) == {i \in DOMAIN r : r[i] \in Dynamic}
Slugs(i) == Cardinality(SlugsAt(routes[i].path))

Matching(p) == {i \in DOMAIN routes : Fits(routes[i].path, p)}

-----------------------------------------------------------------------------
(* Matching and scanning with one mistake each, for the mutation runs only. *)

\* A more general route is taken.
FirstMatch(m) == CHOOSE i \in m : \A j \in m : i <= j

\* The list of files is not read again.
ScanOuts == LET Known == IF outs = <<>> THEN pages
                         ELSE {f \in Files : /\ Out[f] \in DOMAIN outs
                                             /\ outs[Out[f]] = f}
            IN Listed(Known)
-----------------------------------------------------------------------------
\* mostSpecificMatch: the first of those with the fewest slugs.
MostSpecific(m) ==
  CHOOSE i \in m : \A j \in m :
    Slugs(i) < Slugs(j) \/ (Slugs(i) = Slugs(j) /\ i <= j)

\* zipMap of the slugs and the groups: the last of equal slugs prevails.
Zip(r, p) ==
  [s \in {r[i] : i \in SlugsAt(r)} |->
     p[CHOOSE i \in SlugsAt(r) :
         r[i] = s /\ \A j \in SlugsAt(r) : r[j] = s => j <= i]]

\* rescanProjectFiles
Scan == Listed(pages)

Init ==
  /\ pages \in SUBSET Files /\ Cardinality(pages) \in 1..MaxPages
  /\ changed = FALSE
  /\ edits = 0
  /\ phase = "compile"
  /\ outs = <<>>
  /\ todo = Scan
  /\ routes = <<>>
  /\ stage = "idle"
  /\ path = <<>>
  /\ answer = 0
  /\ params = <<>>
-----------------------------------------------------------------------------
(* Steps with one mistake each, for the mutation runs only.                *)

\* Pages are compiled as the project's own Go files are copied.
CompileToBase ==
  /\ phase = "compile" /\ todo # <<>>
  /\ Head(todo) \in pages /\ Head(todo)[1] \notin Digits
  /\ LET g == <<Last(Head(todo))>>
     IN outs' = [h \in DOMAIN outs \cup {g} |->
                   IF h = g THEN Head(todo) ELSE outs[h]]
  /\ todo' = Tail(todo)
  /\ UNCHANGED <<project, phase, routes, request>>

\* The redirect keeps the slash.
RedirectToItself ==
  /\ phase = "serving" /\ stage = "asked"
  /\ path[1] \notin Reserved
  /\ Matching(path) = {} /\ Last(path) = Slash
  /\ Matching(Front(path)) # {}
  /\ path' = path
  /\ UNCHANGED <<project, phase, todo, outs, routes, stage, answer, params>>
-----------------------------------------------------------------------------
(* The developer. *)

\* A page is created or renamed to, which the file watcher notices.
Write(f) ==
  /\ edits < MaxEdits /\ f \notin pages
  /\ pages' = pages \cup {f}
  /\ changed' = TRUE
  /\ edits' = edits + 1
  /\ UNCHANGED <<phase, todo, outs, routes, request>>

\* A page is deleted or renamed from, which it ignores.
Delete(f) ==
  /\ edits < MaxEdits /\ f \in pages /\ pages # {f}
  /\ pages' = pages \ {f}
  /\ edits' = edits + 1
  /\ UNCHANGED <<changed, phase, todo, outs, routes, request>>

\* Pushup is started again: buildCmd.do removes the output directory.
Restart ==
  /\ phase = "failed"
  /\ phase' = "compile"
  /\ todo' = Scan
  /\ outs' = <<>>
  /\ changed' = FALSE
  /\ UNCHANGED <<pages, edits, routes, request>>
-----------------------------------------------------------------------------
(* The dev loop's builds. *)

\* The next iteration of runCmd.do; what has been answered is forgotten, and
\* a request not answered waits for the next application.
Rebuild ==
  /\ phase = "serving" /\ changed
  /\ phase' = "compile"
  /\ todo' = Scan
  /\ changed' = FALSE
  /\ stage' = IF stage = "asked" THEN "asked" ELSE "idle"
  /\ answer' = 0
  /\ params' = <<>>
  /\ UNCHANGED <<pages, edits, outs, routes, path>>

\* compileUpFile
CompileFile ==
  /\ phase = "compile" /\ todo # <<>>
  /\ Head(todo) \in pages /\ Head(todo)[1] \notin Digits
  /\ outs' = [g \in DOMAIN outs \cup {Out[Head(todo)]} |->
                IF g = Out[Head(todo)] THEN Head(todo) ELSE outs[g]]
  /\ todo' = Tail(todo)
  /\ UNCHANGED <<project, phase, routes, request>>

\* The page has gone, or gofmt rejects the name of its type.
CompileFails ==
  /\ phase = "compile" /\ todo # <<>>
  /\ Head(todo) \notin pages \/ Head(todo)[1] \in Digits
  /\ phase' = "failed"
  /\ UNCHANGED <<project, todo, outs, routes, request>>

Types(rs) == {TypeName(rs[i]) : i \in DOMAIN rs}
TypesClash(rs) == Cardinality(Types(rs)) # Len(rs)

\* buildProject, and the start of the application.
GoBuild ==
  /\ phase = "compile" /\ todo = <<>>
  /\ LET all == RoutesIn(outs) IN ~TypesClash(all) /\ routes' = all
  /\ phase' = "serving"
  /\ UNCHANGED <<project, todo, outs, request>>

\* The go tool rejects two types of one name.
GoBuildFails ==
  /\ phase = "compile" /\ todo = <<>>
  /\ TypesClash(RoutesIn(outs))
  /\ phase' = "failed"
  /\ UNCHANGED <<project, todo, outs, routes, request>>
-----------------------------------------------------------------------------
(* Requests. *)

Ask(p) ==
  /\ phase = "serving" /\ stage # "asked"
  /\ stage' = "asked"
  /\ path' = p
  /\ answer' = 0
  /\ params' = <<>>
  /\ UNCHANGED <<project, phase, todo, outs, routes>>

\* The mux hands the request to Respond.
Responding == phase = "serving" /\ stage = "asked" /\ path[1] \notin Reserved

\* The mux hands it to the static files' handler.
AnswerOther ==
  /\ phase = "serving" /\ stage = "asked" /\ path[1] \in Reserved
  /\ stage' = "other"
  /\ UNCHANGED <<project, phase, todo, outs, routes, path, answer, params>>

Answer ==
  /\ Responding
  /\ Matching(path) # {}
  /\ stage' = "found"
  /\ answer' = MostSpecific(Matching(path))
  /\ params' = Zip(routes[answer'].path, path)
  /\ UNCHANGED <<project, phase, todo, outs, routes, path>>

\* The client follows the redirect to the path without the trailing slash.
Redirect ==
  /\ Responding
  /\ Matching(path) = {} /\ Last(path) = Slash
  /\ Matching(Front(path)) # {}
  /\ path' = Front(path)
  /\ UNCHANGED <<project, phase, todo, outs, routes, stage, answer, params>>

NotFound ==
  /\ Responding
  /\ Matching(path) = {}
  /\ Last(path) = Slash => Matching(Front(path)) = {}
  /\ stage' = "missing"
  /\ UNCHANGED <<project, phase, todo, outs, routes, path, answer, params>>
-----------------------------------------------------------------------------
BuildStep == CompileFile \/ CompileFails \/ GoBuild \/ GoBuildFails
RequestStep == AnswerOther \/ Answer \/ Redirect \/ NotFound

Next == \/ \E f \in Files : Write(f) \/ Delete(f)
        \/ Restart \/ Rebuild
        \/ BuildStep \/ RequestStep
        \/ \E p \in Paths : Ask(p)

\* A build that has begun goes on, and requests are handled; nobody has to
\* edit, ask or start Pushup again.
Spec == Init /\ [][Next]_vars /\ WF_vars(BuildStep) /\ WF_vars(RequestStep)
-----------------------------------------------------------------------------
(* Properties. *)

IsRoute(r) ==
  /\ DOMAIN r = {"path", "page", "part"}
  /\ r.page \in Files
  /\ r \in {RoutesOf[r.page][i] : i \in DOMAIN RoutesOf[r.page]}

\* The type invariant: every Go file is where its page's name puts it, every
\* route is one its page registers, and a request is found by a route or not.
TypeOK ==
  /\ pages \subseteq Files
  /\ changed \in BOOLEAN
  /\ edits \in 0..MaxEdits
  /\ phase \in {"compile", "serving", "failed"}
  /\ \A i \in DOMAIN todo : todo[i] \in Files
  /\ \A g \in DOMAIN outs : outs[g] \in Files /\ Out[outs[g]] = g
  /\ \A i \in DOMAIN routes : IsRoute(routes[i])
  /\ stage \in {"idle", "asked", "found", "missing", "other"}
  /\ path \in Seq(Segments \cup {Slash})
  /\ answer \in 0..Len(routes)
  /\ stage = "found" <=> answer # 0
  /\ DOMAIN params \subseteq Dynamic

\* The page's Go file is part of the build and not overwritten by another.
Built(f) == Out[f] \in DOMAIN outs \ Ignored /\ outs[Out[f]] = f
Static(f) == \A i \in DOMAIN f : f[i] \notin Dynamic

\* Each page on disk that has not been overwritten or left out is served, and
\* each of its partials, by exactly one route.
PagesRouted ==
  phase = "serving" /\ ~changed =>
    \A f \in pages : Out[f] \in DOMAIN outs
      /\ (Built(f) =>
            \A r \in {RoutesOf[f][k] : k \in DOMAIN RoutesOf[f]} :
              Cardinality({i \in DOMAIN routes : routes[i] = r}) = 1)

\* A request for the path of a page without dynamic parts is never answered by
\* a dynamic page nor with an error, and by another static page or a partial
\* only if it has the same path, as a page's partial may, or a name that means
\* more as a regular expression than it says.
StaticFirst ==
  phase = "serving" /\ ~changed /\ stage \in {"found", "missing"} =>
    \A f \in pages :
      Built(f) /\ Static(f) /\ path = RoutePath(f) /\ Fits(path, path) =>
        /\ stage = "found"
        /\ LET r == routes[answer] IN
           /\ SlugsAt(r.path) = {}
           /\ r.page # f => r.part # <<>> \/ r.path # path

\* Every request is answered, unless Pushup stops; redirects do not go round.
AnswersCome == stage = "asked" ~> stage # "asked" \/ phase = "failed"
-----------------------------------------------------------------------------
(* The inductive invariant behind the three.                               *)

Routed == [path : Seq(Names \cup {Slash}), page : Files, part : Seq(Names)]

\* What is listed is listed as a sequence.
Lists == todo \in Seq(Files) /\ routes \in Seq(Routed)

\* If nothing has been written since the scan, what is on disk has been
\* compiled or is still to be.
Scanned == phase # "failed" /\ ~changed =>
             \A f \in pages : \/ Out[f] \in DOMAIN outs
                             \/ \E i \in DOMAIN todo : todo[i] = f

\* The application is the one that has been built last.
Serves == phase = "serving" =>
            todo = <<>> /\ routes = RoutesIn(outs) /\ ~TypesClash(routes)

\* Answers are those of the application that runs.
Answered ==
  /\ phase # "serving" => stage \in {"idle", "asked"}
  /\ stage = "found" => /\ Matching(path) # {}
                        /\ answer = MostSpecific(Matching(path))
  /\ stage = "missing" => Matching(path) = {}

IInv == TypeOK /\ Lists /\ Scanned /\ Serves /\ Answered
=============================================================================
