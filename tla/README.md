# Pushup in TLA+

Pushup compiles pages (`.up` files: HTML mixed with Go) to a Go web server,
builds it with the go tool and runs it; `pushup run -dev` starts over whenever a
file changes and reloads the developer's browser.  This directory models the
parts of Pushup that a test hardly reaches, checks the models with TLC on small
instances, and proves some of the results for every instance with TLAPS.

All paths below are relative to `src/`.

    tlc -config PageRender.cfg MCPageRender      # model-check a run
    tlapm PageRenderProofs.tla                   # check a module's proofs

`PROJECT.json` lists the runs, the lines each definition stands for, the hazards
with the properties that cover them, the disagreements found and the theorems.

## The system

| Part | Where | State | Operations | Hard because | Correct when |
|---|---|---|---|---|---|
| Page rendering | `codegen.go` (the generated `Respond`), `_runtime/pushup_support.go` (`getLayout`, `nilLayout`), `_runtime/cmd/main.go` (handlers) | one channel per part, WaitGroup, context, `panicked`, what has been written | goroutines for layout, contents and each section; deadline; reply | unbuffered channels, panics, a deadline, all at once | one answer per request; a page that is answered is whole; nothing runs on after `Respond` |
| Dev loop | `main.go` (`runCmd.do`, `runProject`) | channel of signals, context and its cause, child process | compile, build, run, select, interrupt | signals, file events and exits in any order | one application at a time; interrupts end it |
| File watcher | `reloader.go` (`watchForReload`, `debounceEvents`) | fsnotify watcher, its directories, timers | event, timer, add, close | timers outlive the iteration and the watcher that armed them | changes are compiled; nothing else restarts |
| Live reload proxy | `reloader.go` (`devReloader`, `startReloadRevProxy`) | condition variable, event streams | wait, broadcast, keep-alive, disconnect | lost wake-ups, clients that have gone | pages reload once for a new build, and not for ever |
| Routing | `_runtime/pushup_support.go` | table of routes | add, match, redirect, parameters | routes overlap, order of registration | the most specific page answers, with its parameters |
| Project scan and driver | `compiler.go`, `main.go` (`rescanProjectFiles`, `buildProject`), `codegen.go` (names) | output directory | scan, compile each file, go build | the directory keeps what earlier builds left; names collide | what is on disk is what is served |
| Code generator | `codegen.go` (`newPageFromTree`, `genNode`, `genNodePartial`) | tree, partials, a flag for the scope | three walks over the tree | one flag for arbitrarily nested partials | a partial responds with what it encloses |
| Open tag lexer | `lexer.go` | state, return state, character to consume again, attributes | one character at a time | characters left to another state, references, end of input | every tag is read to its end, names and values are where it says |
| Parser | `parser.go` | offset, the Go parser's base, accepted and lookahead token; in a tag, an offset and what is left of a text | HTML and Go parsers that call each other | two tokenizers move one offset, tokens read ahead, end of input | every input ends, nothing of it is lost or read twice, errors are syntax errors |
| Optimizer | `ast.go` (`coalesceLiterals`) | the tree | merge neighbouring literals | - | nothing of the tree is lost, and its order stays (`Compile` of `Parser`) |
| Application server | `_runtime/cmd/main.go`, `main.go` (`runCmd.do` without `-dev`, `runProject`) | listening socket and its file, server, requests | bind or inherit, serve, signal, shut down | requests in flight, two processes with one socket, ends without deferred calls | clients that wait in a shared socket stay there, all of them are answered or turned away, the socket can be bound again |
| Command line, scaffold | `main.go`, `version.go`, `debug.go` | files | copy, print | - | - |

How they interact: the dev loop scans, compiles (parser, then optimizer, then
code generator), builds and starts the application as a child process.  The
application's mux hands a request to routing, which calls the generated
`Respond` of a page or a partial.  Without `-dev`,
`pushup run` starts the application once and hands it its listener.  The
watcher sends to the dev loop on the channel `reload`; the dev loop tells the proxy of a build by broadcasting on the
condition variable `buildComplete`; the proxy forwards requests to the
application and keeps an event stream to each page on display.

## Modules

| Module | Contents |
|---|---|
| `PageReply` | what a browser may rely on: one answer, whole, or none |
| `PageRender` | one request: handler, goroutines, channels, deadline, reply; implements `PageReply` |
| `DevLoop` | the dev loop with the watchers and timers of all its iterations |
| `LiveReload` | the proxy's event streams, the browser's tabs, builds |
| `PartialGen` | the walks of the code generator over a page's tree |
| `Routing` | builds that write Go files, the routes they register, requests |
| `Parser` | the HTML and the Go parser on one source, with the calls between them |
| `StartTag` | a start tag, read by the lexer and cut into nodes by the parser |
| `AppServer` | the application's process, its socket and its requests, alone or under `pushup run` |
| `MC*` | the values of the constants for TLC |
| `*Proofs` | theorems and their proofs |
| `ParserInvariants` | the inductive invariants of `Parser`, for `ParserProofs` |

Definitions keep the names of the code where they can.  Some definitions stand
beside the ones the specification uses with one mistake each (`StartLayoutUncounted`,
`FirstMatch`, ...); they are there to confirm that a property fails when the
code has that mistake, and no specification uses them.

### PageRender and PageReply

The variables follow `Respond`'s: `wg` is the WaitGroup's counter, `panicked`
the shared variable, `closed` whether the channels have been closed, `cancelled`
whether `cancel` has been called, `expired` whether the parent context is done.
`main`, `layout` and `part[p]` are where the goroutine of `Respond`, of the
layout and of each part (the contents and every `^section`) is.  An unbuffered
send and its receive are one step, `Deliver`.  A goroutine's deferred calls
(recover, `cancel`, `wg.Done`) are steps of their own, in their order, because
the others run in between; the recover's test of `panicked` and its assignment
are two steps, `RecoverCancels` and `RecoverStores`, since nothing protects
the variable.  The test is for nil in the contents' goroutine and for not nil
in a section's, as in the code (`Records`).

A layout is the sequence of what it does: literal output, `outputSection`, or
`outputSection` within `sectionDefined`.  `written` and `sent` are sets of
positions in that sequence, which tells a whole page from a part of one.  A
layout that loops, or that outputs a section under a condition of its own, and
a section called "contents", which would replace the contents, are not
modelled.  User code ends, in the page's `^handler` by replying, with an error,
with a panic or by falling through, in a part by a panic or a rendering, in a
layout by an error or a panic (`LayoutFails`: nothing recovers, the process
dies with the request).

`Expire` and `ReplyTimeout` are `http.TimeoutHandler`, modelled from its use:
its buffer is either sent whole or replaced by the 503, and the goroutine
behind it runs on.  A layout the project does not have makes `getLayout` panic
in the goroutine of `Respond`, where the middleware answers for it.

`PageReply` is the abstract specification.  `ImplementsPageReply` maps its
`due` to the operations of the layout that apply to the page, its `body` to
`sent`, its `answer` to `reply`, or to "lost" when the process has died.

### DevLoop

One action per step of `runCmd.do`'s loop, of `runProject`, of the goroutine
that selects on `reload` and `signals`, and of `debounceEvents` and its timers.
Variables that the code declares in the loop's body (watcher, its directories,
queued events, timers) are functions of the iteration, since those of earlier
iterations live on.  A file is `dirty` from its change until `compileProject`
reads it.  Writing a file arms the timer of its path again, as `timers` does; an
armed timer fires at any later moment.  A timer's call for a directory adds it
and what is below it, one directory per step; for a file it sends on `reload`
and then closes the watcher.  What the select has received (`selected`) and the
cancellation of the context (`Cancel`) are two steps: the timer whose send was
received may close the watcher in between.  `watcher.Add` on a closed watcher
panics ("crashed"); so does a watcher that cannot be made, or an `Add` that
fails for a reason of the system's, at any time ("panicked": `WatchFails`,
`AddFails`).

The first build, before the loop, is not modelled; neither is a run without
`-dev`.  The watcher ignores deletions and renames and files of other kinds, so
they are left out.  Two iterations' executables are not told apart.

### LiveReload

`waiter[k]` is the goroutine `devReloader.ServeHTTP` starts for connection `k`,
`handler[k]` the handler itself; a broadcast moves every goroutine that is in
`Wait` to "woken" and none that is not.  The event is written (`Hand`) and
flushed by a later keep-alive (`Flush`).  The browser is external: a tab asks
for a page, shows it, runs the script if the proxy has added it, and asks anew
when told to.  The dev loop is there by its effects: the application is killed
with requests in flight, built, and started.  The HTML the proxy rewrites is
reduced to whether it has the script.

### PartialGen

Nodes are numbered in document order and the tree is chosen in `Init` among all
trees of `Size` nodes.  `newPageFromTree` (collect), `genNode` (page) and
`genNodePartial` (partial) walk the same tree with the inspector of `ast.go`;
each `Enter...`, `Leave...`, `Skip...` is what the three do at that kind of
node, `scope` the flag `state == stateInPartialScope`, which every partial
resets when it is left.  `out[0]` is the generated code of the page, `out[p]`
that of partial `p`, as statements of a kind and a node.  Expressions are like
literals; of an `^if` one block is kept; an element's start tag is one write;
sections' contents are generated by separate walks, like the page, and left out.

### Routing

A page is a sequence of names (directories and base), a path a sequence of
segments.  `CompileFile` writes one Go file, named by `Out`, into the output
directory, which only a restart of Pushup clears; `GoBuild` registers the
routes of the files that are there in the order of their names.  `Answer`,
`Redirect` and `NotFound` are `getRouteFromPath`.  What is done to characters is
given by constants: what a name matches as a regular expression, how it is cut
at `__`, which words it has in a type name, which file names the go tool
ignores.  A dot matches no slash here; names whose expression is invalid, an
index page at the root, and the mux's other handlers than the static one are
left out.  Only the names of pages matter, not their contents.

### StartTag

`phase` is "lex" while `scanAttrs` reads the tag and "emit" while `parseStartTag`
cuts it.  One action per state of `scan`; `Char` and `Pos` are what
`consumeNextInputChar` returns and leaves, `again` is `provideCurrInputChar`.
`NamedCharRef` is its whole loop; `NumericCharRef` and `AmbiguousAmpersand` are
states `scan` enters but has no case for.  The parser's actions are what it does
before an attribute (`Gap`), between its name and value (`Between`), for a text
without the transition symbol (`Verbatim`), for each round of the loop over the
symbols of one (`Escape`, `Transition`, `LoopDone`), and at the end (`Rest`).

A character is a class: a letter stands for any that goes on a name and an
expression, a space for a tab, a newline or a space, which lexer, tokenizer and
Go scanner skip alike.  The carriage return is a class of its own (`"\r"`): white space to
the tokenizer and the scanner, but no case in any of the lexer's states; the
form feed, which the scanner does not skip, is left out.  A name or value is the sequence of the
places its characters come from, which tells a text in its place from one that
is not, and a character lost from one read twice; 0 stands for what a
reference decodes to.  An expression is a lone identifier, the longest that
follows the symbol.  The character classes that scan's states do not
distinguish, upper case, and duplicate names (`cmpAttrName` compares pointers to
buffers, and so finds none) are left out.

An error of `scanAttrs` goes to `p.err`, which is not read for a start tag: such a
tag has no attributes and becomes one literal, its expressions with it (`Error`,
`Rest`).  The vendored HTML tokenizer (`ReadOn`, from its `readTag`) says where a
tag ends (`Whole`) and whether it has attributes, without which it is not
scanned (`HasAttr`).

### Parser

A source is a sequence of lexemes of length one: a start, self-closing or end
tag with its element's name, a comment, a doctype, a blank, a newline, a word, a
sign.  The HTML tokenizer takes all that lies between two tags for one text
(`HtmlAt`); a tag that does not end before the source does is dropped by it without
an error (`parser.go:288-290`), and is no lexeme.  A word of its own, "layouts", stands
for those that begin like `^layout`, of which the code tests the prefix
(`LayoutAt`).  The Go scanner skips blanks and puts a semicolon at a newline
after a word or a closing sign (`Scan`, `InsertsSemi`).  `offset` is the
parser's; `html` the HTML parser's current token; `code` the Go parser's `baseOffset`,
`lookaheadToken` and `acceptedToken`, whose offsets count from the base
(`TokenOffset`).  `Reset`, `Look` (`peek`), `Sync`, `Advance` are the code's;
`peek` fills the lookahead without being a step.

Each function of `parser.go` that is on the Go call stack is a frame of `stack`;
its `pc` is where it is in it, and in loops that count brackets its `depth`.
`parseDocument` is `Tokenize` and the `Document...` actions, `parseChildren` the
`Child...` actions, `parseElement` the end of `BlockMarkup` and `ElementEnd`,
`parseCode` is `Keyword`, and the four loops that scan to a closing token are
`ScanToken` with `CondDone`, `ClauseDone`, `CodeDone` and `ExprDone`.  `nodes` is
what the functions make, in the order in which they make it: flat, with an
element's start and end as two.  What `go/parser` accepts is a
constant, `GoExprs`.  An error ends the parser ("error", a `syntaxError` that
`parse` returns); any other panic is "crashed".  `Compile` is the part of `compile`
that may apply the optimizer: `CoalesceLiterals` joins the literals at the top
of the tree, and begins a new one anywhere, as a lexeme stands for a text that may be
longer than the 512 bytes at which it does.

A value in an attribute is parsed by a parser of its own with one call of
`transition`: that is the other initial state.  Left out: raw-text elements, whose
contents the HTML tokenizer does not tokenize; the element `<text>`; comments in
Go code; the syntax of clauses and code, which the parser does not check.

### AppServer

`app` is where the application's main goroutine is: "starting", "listening" with
its listener, "announced" once it has printed that it is ready and has called
`go srv.Serve(ln)`, "waiting" after `NotifyContext`, "stopping" when a signal has
come, "stopped" after `stop()`, "draining" in `Shutdown`, "over".  `serve` is the
goroutine of `Serve`.  `pushup` is the process of `pushup run` without `-dev`.
`held` is the set of processes that hold the listening socket: it is there, and
connections queue in it, as long as one does.  `path` is the Unix socket's
file, which only the listener that has bound it removes (`Unlink`), and only
when closed.  `ends` remembers how processes have ended.

Any end of a process is `Ends`: its sockets are closed, without deferred calls
unless `main` returns (`Exit`).  A signal goes to one process or, from a
terminal, to both.  `Listen` may end in a crash where it takes the parent's
socket, as `fd, err :=` declares another `err` and the check after it sees the
outer one.  `Shutdown` closes the listener only when `Serve` has been called with
it; `Serve` after `Shutdown` returns at once.  The server's handlers are those
behind the `TimeoutHandler` (`Limited`), which are answered within five seconds,
and the others, which have no limit; what a page does within is `PageRender`'s,
here it is an answer, a timeout, or a panic in the layout's goroutine (`Crash`),
which may come after the 503 of the timeout, as the page's goroutines go on then
("expired").  That `Shutdown` returns when no request is handled any more
(`Drained`) is net/http's contract.

When the application has ended, `pushup run` does not return (`Abandon`): it holds
the socket until Go's collector closes the files nobody refers to any more, or,
built without cgo, is ended by Go's runtime as all its goroutines sleep.  Both
may come at any time or not for long, so neither is fair.

## Runs

| Run | Configuration | Shows |
|---|---|---|
| `page_render` | 7 layouts, pages with 0 to 2 sections | below |
| `dev_loop` | 2 files, 2 directories, 2 edits, 1 interrupt: 3 iterations | below |
| `live_reload` | 2 tabs, each opened by hand for its first page, 3 builds | below |
| `partial_gen` | every tree of 4 nodes | below |
| `routing` | 10 pages of which 1 or 2 are there at first, 2 edits, 6 paths | below |
| `start_tag` | 20 772 tags | below |
| `parser` | 43 919 sources: pages, and what follows a symbol in an attribute | below |
| `app_server` | 2 pages and a request without limit, 2 starts, 3 signals | below |
| `page_panic`, `live_stale`, `partial_content`, `parser_crash` | the same constants | what the code does against what a comment, an assertion or the README says, see "Disagreements" |

**`page_render`.**  For every interleaving: `ReturnsLast` (no goroutine uses the
ResponseWriter or a closed channel after `Respond` has returned); `NothingLost`
(`Respond` returns nil only with every part that did not panic in what was
written); `HangNeedsCause` (exactly which pages make `Respond` wait for ever:
those that do not fit the layout, those with a panic, and those without a layout
that miss the deadline).  Under fairness, `FittingPageReturns`, and
`ImplementsPageReply`.  `WaitCounts`, `PageComplete`, `ContentsPanicReported`,
`GarbledNeedsOmission` and `HangIsForever` are proved (below) and not run.
Seven layouts are enough for each way a layout and a page can fail to fit: a
section guarded or not, before or after the contents, twice, not at all; two
sections are enough for two goroutines other than the contents' to race.

**`dev_loop`.**  `OneApp`: the application is never running while the project is
compiled or its executable replaced.  `RestartsHaveReasons`: timers left from
earlier iterations never restart a later one.  `CrashNeedsReload`: a
directory is added to a closed watcher, which makes Pushup panic, only after
the watcher's iteration has received a change of a file, though perhaps before
that has cancelled its context.  `NoticedIsCompiled`:
a change the current watcher was told of is compiled, unless Pushup ends.
`InterruptEnds`: a caught interrupt ends Pushup unless a file was faster, in
which case the loop drops it.  Two edits give the three iterations it takes for
a timer to outlive one iteration and meet the next two; the directory that is
made while Pushup runs, with a file in it, gives the race of two timers.

**`live_reload`.**  `NoReloadLoop`: a page is told to reload only if a later build
than its own has completed, so that reloading ends (that each connection gets
one event at most, `OneEvent`, is proved and not run).  `WokenPagesReload`: the event, written but not flushed, gets
there with the keep-alive.  `AbandonedWaitersEnd`: the goroutines left by closed
pages end with the next build.  Three builds let a page be served by one, miss
the second and hear of the third; two tabs show that streams do not disturb
each other.

**`partial_gen`.**  `PartialsFound`, `ScopedOutput` and `FlatPartialsComplete`:
every partial that is not in a section at the top is listed (see "Disagreements"), none twice and nothing
else; the responder of one writes nothing from outside it and,
if it has no partial within and is in no loop, all that the page writes there.  Four nodes hold a
partial in a partial in a block with something after, and every pair of blocks
around or in a partial.

**`routing`.**  `PagesRouted`: after any sequence of builds in one directory, each
page on disk has one route, and each of its partials.  `StaticFirst`: no project
makes a dynamic page, or "not found", answer for the path of a static one; and
if another static route does, it has the same path or a name that is not meant
literally.  `AnswersCome`: redirects do not go round, also with
a build in between.  The ten pages overlap in pairs (a partial and a page with
one route; `a.b`, whose dot matches `a-b`; `a__b`, whose Go file is that of
`a/b`; a name the go tool ignores; a name that is no Go identifier; a dynamic
directory), so projects of up to four of them meet every overlap.

**`start_tag`.**  `AttrAtHand`: no state writes to an attribute before there is
one.  `InPlace`: the text of each name, and of each value without references, is
in the tag at the offset given with it.  `EveryCharacterRead`: in a tag without
single quotes and carriage returns that is read without an error, each symbol
after the tag's name, and each letter where there are no references, is in one
name or value, once.  `KeptIfPlain`: when
names and values are in their places and have one expression each at most,
after doubled symbols only, the nodes are the tag, each character once and in
order, and expressions begin where the tag has a symbol that is not doubled.
`Ends`: lexer and parser end on every tag.  Five kinds of tags: any four
characters of seven classes after the name, with an end or without; one
value, quoted or not, of up to five characters with references in it; two attributes with
symbols in their names and values; one value of up to eight letters and symbols,
which is what it takes for the parser to get past the end of the tag; carriage
returns after the name, any four of six classes, and within a value.

**`parser`.**  `InOrder`: the pieces of the tree do not overlap and come in the
source's order, but for the path of an import with a name, which is not consumed
and so read again as text.  `WordsKept`: every word and tag of a page is in the
tree that the parser makes, but for a text in an element whose first symbol is doubled, which
`parseChildren` drops as a whole (`Escaped`: elements are open, nothing has been made
of the text, and the doubled symbol is the first after the word, or before it);
for the text up to the symbol of a `^layout` (`BeforeLayout`; only at the top, and
no tag or other symbol in it); and for the end of an expression that has blanks before a
bracket or a period (`CutOff`, see "Disagreements").  At the top a text with a doubled
symbol is kept like any other.  That the optimizer then loses none of it is proved
(`OptimizerLosesNothing`), so that the words are in the compiled page too.
`SymbolsAct`: what follows a symbol does not come into the tree as text or a tag, whatever has been parsed so
far, with three exceptions: a symbol on the line on which a block ends, taken for
that of an `else` (`AfterBlock`); a symbol that is itself text, as a
doubled one follows in the same text at the top (`InText`, `Paired`, see "Disagreements"); and a tag after the last symbol of a
text that is dropped for a doubled one (`AtEnd`).  `Balanced`: elements in blocks
nest and end with their own names, void ones without an end, with and without the
optimizer, as is `InOrder`.  `Ends`: parsing
ends on every source, but in the loop of `parseHandlerKeyword` at the end of the
input.  The sources: three of fourteen fragments (text, elements, each kind of
expression and block) in a row; up to four of seven lexemes; blocks of up to
four of eight; what follows an `^if` block; what is scanned for braces; names
with brackets; imports.  Each of the code's loops and returns is reached, with
what follows it directly or after a blank or newline.

**`app_server`.**  `SharedSocketKeepsClients`: clients that wait in the socket of
`pushup run` are not turned away as the application ends, in whatever way, nor as
`pushup run` ends while the application accepts; each of the two closes only its own
copy of the socket, the application's at up to four places.  `RestartsBind`: a second
start on the same Unix socket fails only if an application was killed or
crashed, or `pushup run` ended.  `ClientsGetAnswers`: a client that has connected
is answered, or its connection reset, except when `pushup run` stays on without
the application.  Two starts are one that leaves the file and one that meets it;
three signals end `pushup run`, start the shutdown and arrive during it.

Bounds: `MaxEdits` and `MaxSignals` (DevLoop), `MaxOpens` and `MaxBuilds`
(LiveReload), `Size` (PartialGen), `MaxPages` and
`MaxEdits` (Routing), `MaxStarts` and `MaxSignals` (AppServer), the lengths in
`MCStartTag` and `MCParser`.
`CHECK_DEADLOCK FALSE` is set where the system stops by design: a request that
has been answered (or hangs: that is what `HangNeedsCause` is about), a dev server
that has returned or waits for the next edit, tabs that have been closed, an
application without further requests, a process that nobody starts again.
PartialGen, StartTag and Parser have a stuttering step for a compiler that is
done.

### Fairness

Weak fairness only, on steps the Go scheduler, timers or the operating system
take by themselves: goroutines that can run do, an armed timer fires, a killed
process dies, the keep-alive's ticker ticks, a deadline passes.  It is stated
per goroutine, so that none may starve another.  Nothing is assumed of
people (edits, interrupts, opened pages, requests) or of failures (panics,
builds that fail, clients that go).  That user code ends is assumed.
StartTag and Parser are sequential: that they go on while they can is all that
is assumed.  In AppServer pages are answered at their deadline at the latest,
and other requests end by themselves; pages need not end otherwise.

### Disagreements

* `page_panic`: a section's `recover` tests `panicked != nil` where the contents'
  tests `panicked == nil`, so a section's panic alone is forgotten and `Respond`
  returns nil (`codegen.go:833`, against the comment at `codegen.go:849`).
* `live_stale`: the condition variable is waited on without a predicate; a page
  that comes to wait after the broadcast stays as it is (`reloader.go:194`).
* `partial_content`: partials in loops are empty, and what follows a nested partial
  is missing from the enclosing one (`codegen.go:618`, against `README.md:695`).
* `parser_crash`: the length of a clause is computed back from the token before
  the brace, and is negative for `^for {` (`parser.go:857`) and `^handler { }`
  (`parser.go:924`); the column of an error in an empty source, which only an
  attribute has, is computed from its last character (`parser.go:97`).  `parse` panics with the runtime error,
  where the fuzz test expects a syntax error (`parser_test.go:517`).

The models show more that no run is spent on:

* a section at the top is taken out of the page before partials are looked for, so
  that a partial in it has no route and no responder (`codegen.go:377`, against
  `README.md:695`); the search goes down into sections (`codegen.go:419`), but meets
  only those within blocks (the exception `Hidden` in `PartialsFound`);
* timers are not stopped when the watcher is closed: a directory made together
  with a file's change makes Pushup panic (`AddDir`, `reloader.go:41`), even before
  the change has cancelled the iteration;
* a change after its file was compiled and before it is watched is neither
  compiled nor noticed (`Scan`, `Watch`, `main.go:486`);
* after an expression in an attribute, what is left to read begins with the
  expression's last character, as the symbol before it is not counted; with a
  second symbol in the attribute, characters of the tag are repeated or dropped,
  or the compiler panics (`Transition`, `parser.go:207`);
* `^handler {` without its brace makes the compiler loop for ever, and so does the
  page being typed under `-dev` (`EndsScan`, `parser.go:911`);
* in a text at the top in which there is a doubled symbol, all before it is text, with
  its other symbols: `^x ^^` shows "^x ^" and evaluates nothing
  (`DocumentEscape`, `parser.go:302-311`); in an element such a text is dropped as a
  whole, with what precedes and follows the doubled symbol, if that is its first (`ChildDropped`,
  `parser.go:513`, with a TODO);
* after the block of an `^if`, a symbol on the same line is consumed to look for
  `else` and lost: `^if c { <p></p> } ^name` shows the word "name" (`Else`,
  `parser.go:823`);
* the path of `^import . "strings"` is also shown as text (`Import`,
  `parser.go:1026`); `^{}` makes `}` its code (`MaxRead`, `parser.go:996`); calls within
  an argument, `^f(g(x))`, and a blank before the parenthesis, `^f(x )`, are syntax errors
  (`Arguments`, `parser.go:1104`);
* the end of an expression is counted by the lengths of its tokens, without the
  blanks the scanner has skipped between them: `^x( )( ).x` is taken for
  `x( )( )`, with which go/parser agrees, and what has been read beyond that is
  lost, neither code nor text (the exception `CutOff` in `WordsKept`,
  `parser.go:1112`);
* an empty expression in an attribute, `b="^"`, panics while its error is being
  made (`NoExpr`, `parser.go:97`);
* the error of `net.FileListener` is assigned to a variable nobody reads, so that the
  application dereferences a nil listener (`Listen`, `_runtime/cmd/main.go:59`);
* an application says that it is ready, and serves, before it handles signals: an
  interrupt then kills it with its requests (`Announce`, `Notify`,
  `_runtime/cmd/main.go:87`);
* `pushup run` without `-dev` does not return when the application has ended, and
  keeps the socket, in which clients wait until it is collected (the exception in
  `ClientsGetAnswers`, `Abandon`, `main.go:852`); its Unix socket's file is never removed, so that it does not start
  again (the exceptions in `RestartsBind`, `main.go:501`);
* `Shutdown` gives up after one second on pages that may take five, which are
  then reset (`DrainTimesOut`, `_runtime/cmd/main.go:98`);
* an application killed with a request in flight, or an answer without a media
  type, leaves the tab a page without the script, which is never reloaded (`Kill`
  and `Serve` of LiveReload, `reloader.go:140`);
* a section within a block, in a page with a partial, reaches the compiler's
  "internal error: unhandled node type" (`SectionPanics`, `codegen.go:665`);
* builds of the dev loop keep Go files of pages that have been deleted or
  renamed, which stay part of the application (`Scan`, `Out`, `main.go:454`);
* a single-quoted value ends at a double quote, so that the lexer mostly fails on
  its tag, whose expressions are then not evaluated (`Quoted`, `lexer.go:345`);
* a carriage return ends a name for the HTML tokenizer
  (`vendor/golang.org/x/net/html/token.go:891`, 920, 985) and not for the lexer, which
  has no case for it (`lexer.go:232`, 252, 268, 292, 310, 361, 384): the lexer takes all of
  `<a\r^b>` for the tag's name, without an error, and the expression is not
  evaluated (`TagName`; the tags that `EveryCharacterRead` leaves out);
* a partial `b` of page `a` answers for the page `a/b`, and `v1.0.up` for `/v1x0`
  (the exceptions in `StaticFirst`); `404.up` gets a type name that is not Go,
  and `foo-bar.up` and `foo_bar.up` get the same one (the guards of
  `CompileFails` and `GoBuildFails`).

## Proofs

For every value of the constants that the named assumptions allow, by an
inductive invariant in each module (initially true, kept by each step, one
lemma or step per action), which is defined at the end of the module it is about
or, for the parsers, in `ParserInvariants`. Leaves that a prover needs
seconds for name the prover and a limit (`SMTT(60)`, `ZenonT(60)`), so that the
proofs do not depend on the speed of the machine:

| Module | Proved | The invariant says, beyond types |
|---|---|---|
| `PageRenderProofs` | `TypeOK`, `WaitCounts`, `ReturnsLast`, `PageComplete`, `NothingLost`, `ContentsPanicReported`, `GarbledNeedsOmission`, `HangNeedsCause`, `HangIsForever`, and that every step is one of `PageReply`'s or a stutter | `Stages`: which goroutines exist at each step of `Respond`; `Progress`: what the layout has written at each position; `Endings`: how a part's goroutine ends, and when its panic is recorded; `Causes`: why the context is cancelled; `Replies` |
| `DevLoopProofs` | `TypeOK`, `OneApp`, `RestartsHaveReasons`, `CrashNeedsReload` | `Iterations`: later iterations have no watcher yet, the current one only from its `watch` on; `Pending`: all that is on its way to `reload` is dirty; `Closings`: watchers are closed after the select has received a change; `Walked`: directories are added to a watcher that exists |
| `LiveReloadProofs` | `TypeOK`, `OneEvent`, `NoReloadLoop` | `Unserved`: a connection belongs to a page that has been served; `Woken`: a build after the page's woke its goroutine |
| `PartialGenProofs` | `TypeOK`, `ScopedOutput`, `PartialsFound`, `FlatPartialsComplete` | `IInv`, `CInv`, `FInv`: below |
| `RoutingProofs` | `TypeOK`, `PagesRouted`, `StaticFirst` | `Scanned`: what is on disk has been compiled or is still on the list; `Serves`: the routes are those of the files of the last build, without a clash; `Answered`: the answer is the most specific match of the application that runs |
| `AppServerProofs` | `TypeOK`, `SharedSocketKeepsClients`, `RestartsBind` | `Serves`: requests are handled only while the application serves; `Holders`: which processes hold the socket at each stage; `FileOwned`: the socket's file belongs to a process that runs, or to one that could not remove it; `Parents` |
| `StartTagProofs` | `TypeOK`, `AttrAtHand`, `InPlace`, `EveryCharacterRead`, `KeptIfPlain` | `Hand`, `PlaceInv`, `ReadInv`, `KeptInv`: below |
| `ParserProofs` | `TypeOK`, `InOrder`, `WordsKept`, `OptimizerKeeps`, `Balanced`, `SymbolsAct` | `TInv`, `OInv`, `WInv`, `BInv`, `SInv`: below |

None of the properties above is inductive by itself.  `WaitCounts`, for one,
needs to know that a goroutine that calls `wg.Done()` is one that has been
counted, and `NothingLost` that a part that has ended without a panic is in what
was written, which only `Progress` and `Endings` together give.  Each invariant
has been checked by TLC on the run's constants before it was proved.

**PartialGen.**  `ScopedOutput` needs `Position` (where the walk is in the tree),
`Targets` and `InScope` (in scope means inside the target).  For `PartialsFound`
the first walk has found exactly the partials it has passed or is in that no section
at the top hides (`Collected`).  `FlatPartialsComplete` compares two outputs.  Both are shown to be
the same set of marks in one order: text, start tags and end tags are totally
ordered by where they stand in the document (`Before`), each walk writes in that
order (`Ordered`), and it has written, of what is its own, exactly what its walk
has come past (`PageWritten`, `PartialWritten`).  Two sequences that are
ordered alike and have the same members are equal, which `SelectIs` and an
induction give.

**Routing.**  The names and the list of routes are built by a recursive function
that concatenates; `ConcatMembers` says what it holds for any number of files.
`MostSpecificIs` says that the choice among the routes that match is defined, for
any non-empty set of them, and picks one with the fewest slugs; that the path's own static
route is among them is what the assumption on the order of file names
(`SortedAssumption`: the go tool compiles in some order all files there may be)
and `Serves` give.

**StartTag.**  `Hand`: the one state reached without an attribute from which a
state that writes to one follows, `AfterAttrName`, is then about to read a character
that leads elsewhere.  `PlaceInv`: a text that can still grow is not begun or ends
where the lexer is.  `ReadInv` is for `EveryCharacterRead`: what the lexer is
through with (`Taken`, one less while a character is to be consumed again) has been
given to attributes, once, and nothing beyond (`Given`).  To show that the lexer does
not stop before the tag's end it is run side by side with the HTML tokenizer that has
cut the tag out of the page: `InStep` says which of the tokenizer's
states (`ReadOf`) each state of the lexer can meet, and `Whole`, in the
assumption on the tags, that the tokenizer ends a tag at the first `>` that is not
between quotes.  That is how golang.org/x/net/html reads a tag, and the code
never lexes a text that has not come from it.  Tags with a single quote or a carriage
return are left out of the property (`Alike`): there the two do not agree where a value
ends, or what is white space.

`KeptInv`, for `KeptIfPlain`, has a part for each of the two loops.  `SpreadInv`: the lexer gives out
the tag's characters in its order, so that attributes do not overlap, and what it
has `Handed` out lies before what it is about to read, less the ampersand of a reference; between
a name and its value there is an equals sign.  With that the offsets of all texts
are ordered (`Layout`), and `EmitInv` can say what the parser has at each place: the
pieces so far are the tag up to `read`, without gap or overlap (`Tiled`), `read` has
not passed what comes next, and the expressions begun, with the symbol that
what is left of the text still holds, are those that are due (`Due`).  A doubled
symbol changes neither what is left over nor whether it is odd (`PairTaken`);
a single one is the last, and not the last character (`OneTaken`), so there is
something to read an expression from, and `NoExpr` is an error and never a panic.

**Parser.**  `TInv` says what the code never says: where the two parsers are with
respect to each other at each place of the call stack.  `Linked`: which function
can have called which, so that one that returns finds a caller that goes on from
there.  `GoodLook`: the Go parser's token read ahead is in the source, and only blanks lie
between the offset and it.  `Placed`: the token has not been read where the next
step reads it (`Unread`), or has been, where no one needs it any more
(`JustRead`); the HTML parser's token ends at the offset; a scan for a brace began
before its token.  `OInv` adds that all nodes made so far end before a
`Floor`, which depends on where the parser is (the start of the current HTML
token, of the expression that is being read, the offset), and which no step
lowers.  A step then either makes no node, or one or two from the floor on
(`Orderly`), and `OrderStep` is the one place where that is turned into
`InOrder`.  `CoalesceOrdered` is the optimizer's part, for any tree.

`WInv`, for `WordsKept`, runs in the opposite direction: each word before a
`WFloor` is kept or has been left out (`KeptTo`), and each step that raises `WFloor` keeps what it passes:
it makes a node of it, or what it passes is no word (`KeepsWords`, one
lemma per action).  `WFloor` is the start of the current text or expression, or the
offset.  What has been left out must stay so as the tree grows: the word and the
doubled symbol both lie between two nodes, and behind the last one only as far as the
floor, which later nodes do not precede (`LeftForGood`, `EscapesOn`).  Four steps depend on
more.  A text is only left out where elements are open: that the tree says so
wherever the children of an element are read follows from `BInv` (`Opened`,
`ChildrenOpened`), so `WordsAreKept` rests on `IInv`, `BInv` and `WInv` together.  A text in an element is dropped or given to
a node as one token, which must be the one that begins at `html.start`.  The
frame of an implicit expression knows where the expression would end, `Top.end`, and
by how much the lengths it adds up are short of the offset: what lies between
consists of names, brackets and blanks (`Trails`), and is empty or blank unless a
blank within the expression has not been counted (`Cuts`).  That is `Behind`; it is
what makes `CutOff` the only exception, and shows that nothing but the end of such an
expression is lost there.  `OptimizerLosesNothing` is the optimizer's part: each
node is in one it has been joined to (`CoalesceKeeps`), for which a literal must
not end before it begins (`Forward`).

`BInv`, for `Balanced`, relates the tree to the call stack: the names of the elements
that are open in the tree so far (`Nested`) are those that the frames hold, from the
first frame to the last (`Held`).  `Nested` gives each piece a height and says that
each end tag ends the last element that is open; `NestedAppend` is what one piece more
does, by whether it opens an element, closes one or neither (`Moves`).  The names are
spread over the frames of `parseChildren` and of the element's own call, and the
frames of Go code between them hold none (`Holding`), so the document, where a page
ends, holds nothing.  Only at the end of the source the two part: the children of an element
that is not closed return and forget what they hold (`Unended`), on the way to the syntax error
that `parseElement` raises.  The optimizer joins literals, which does not change what is
nested (`CoalesceNested`); and that no sum of opened and closed elements
in `Balanced` says anything else than the heights is `BalanceIs`.

`SInv`, for `SymbolsAct`, turns a claim about finished trees into one about each
node when it is made (`Acted`): no text or tag begins right after a `Bare` symbol, which is
one that is neither text nor at the end of one that is dropped, nor after a block;
and with each symbol that is in a text there is, or follows in it, a doubled one (`Neat`).  That is
enough (`ActedTells`): a node that holds what follows the symbol, and not the symbol, begins there.  Where
text may begin is known from the place of the call stack, and so is what has been
read there last (`Seen`): no bare symbol is right before the offset in a document, or before
the HTML token in an element; a block's body and a name begin behind a
brace or a keyword; and where an `else` is looked for, only spaces lie between the
end of the block and what is read.  For the last, `OverElse` says that nothing but
the block is called before that.  A symbol that is bare stays so only until a
node covers it, and never becomes bare once covered (`BareStays`, from the
`KeepsWords` part of `WInv`'s proof), hence the theorem rests on `IInv`, `BInv`, `WInv` and
`SInv` together.  The optimizer comes after all this: `SymbolsAct` is about the
tree that it is given.

tlapm's library states induction with an operator as a parameter, which the
provers here cannot instantiate.  What the recursive functions of Parser,
PartialGen and Routing compute is proved nevertheless, from induction over a
subset of Nat (`NatSetInduction`, `UpToInduction`): a set is a parameter the provers
can instantiate, and the set of the numbers for which the claim holds is defined
in the proof.

Model-checked only: liveness and `PageReply`'s fairness, which tlapm cannot
prove.  Every invariant and action property of the passing runs is proved.

## Not modelled

Command line, scaffold, version, debug output and example applications:
sequential input and output.  The table of named character references is
generated.  What the vendored HTML tokenizer does is modelled from its source,
`HtmlAt` and `ReadOn`; fsnotify and modfile, also vendored, and net/http are not,
but for what the code takes from them.
Durations: a timer or deadline may come at any moment.  Of the application's
server: connections that are kept alive, clients too slow for its timeouts, a
`PUSHUP_LISTENER_FD` set by hand, a TCP port that another program has, and a
connection that is accepted in the very moment `Shutdown` closes the listener.  The text of generated
code, of Go and of HTML.

## Plan

Done: `PageReply`, `PageRender`, `DevLoop`, `LiveReload`, `PartialGen`, `Routing`,
`StartTag`, `Parser`, `AppServer`.  Next, in this order:

1. `DevReload`: `DevLoop` and `LiveReload` composed, so that a build is the dev
   loop's own; `LiveReload`'s dev loop as its abstraction, by refinement.
2. `PathPrefix`: `displayPartialHere` and `matchURLPathSegmentPrefix` against a
   reference definition.
