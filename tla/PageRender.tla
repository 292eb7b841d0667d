----------------------------- MODULE PageRender -----------------------------
(***************************************************************************)
(* One request for a Pushup page, from the route's responder to the reply. *)
(*                                                                         *)
(* The code generated for a page runs the user's handler and then renders  *)
(* in parallel: one goroutine for the layout, one for the page's contents, *)
(* one per ^section.  Each rendered part travels to the layout over an     *)
(* unbuffered channel of the map `sections`.  Respond waits for all of     *)
(* them on a WaitGroup and turns a recorded panic into an error.  Around   *)
(* it net/http's TimeoutHandler races the answer against a deadline.       *)
(*                                                                         *)
(* A layout is abstracted to the sequence of the operations its Respond    *)
(* performs (literal output, outputSection, outputSection guarded by       *)
(* sectionDefined); a rendered part to its name.                           *)
(***************************************************************************)
EXTENDS Naturals, Sequences, FiniteSets

CONSTANTS
  SectionNames,   \* the names a page may give to its ^section blocks
  Contents,       \* the key "contents" of the map sections
  Layouts,        \* the layouts of the project, as sequences of LayoutOp
  NoPanic         \* the nil value of Respond's variable panicked

Parts == SectionNames \cup {Contents}

\* An operation of a layout: literal output, `^outputSection(name)`, or the
\* same inside `^if sectionDefined(name)`.
LayoutOp == [op : {"text", "output", "outputIfDefined"}, name : Parts]

\* nilLayout takes the contents and nothing else.
NilPlan == <<[op |-> "output", name |-> Contents]>>

ASSUME PartsAssumption ==
  /\ IsFiniteSet(SectionNames)
  /\ Contents \notin SectionNames
  /\ NoPanic \notin Parts
  /\ Layouts \subseteq Seq(LayoutOp)

VARIABLES
  kind,       \* "nil" (^layout !), "generated", or "missing" from layouts
  plan,       \* the operations of the page's layout
  defined,    \* the keys of the map sections
  main,       \* where the goroutine running Respond is
  toStart,    \* the parts Respond has not started a goroutine for yet
  layout,     \* where the layout's goroutine is
  pos,        \* the operation of plan it is at
  part,       \* where the goroutine of each part is
  wg,         \* the counter of the WaitGroup
  cancelled,  \* cancel() of the request's context has been called
  expired,    \* the parent context is done: deadline, or client gone
  panicked,   \* the panic Respond will report
  closed,     \* the channels have been closed
  threw,      \* history: the parts whose rendering panicked
  written,    \* the operations of plan whose output has been written
  reply,      \* what the client got, or "pending"
  sent        \* the operations of plan whose output is in that reply

page    == <<kind, plan, defined>>
render  == <<layout, pos, part, written, threw>>
control == <<wg, cancelled, panicked, closed>>
answer  == <<expired, reply, sent>>
vars == <<page, main, toStart, render, control, answer>>

LayoutAt == {"none", "run", "receive", "returned", "cancelled", "done"}
PartAt == {"none", "render", "send", "recover", "store", "exit", "done"}
MainAt == {"handler", "start", "spawn", "wait",
           "own", "ok", "error", "panic", "crashed"}
Returned == {"own", "ok", "error", "panic"}

\* The operations the layout's guards skip for this page, and the others.
Skipped(i) == plan[i].op = "outputIfDefined" /\ plan[i].name \notin defined
Due == {i \in 1..Len(plan) : ~Skipped(i)}

\* req.Context() inside the layout is done.
CtxDone == cancelled \/ expired

Init ==
  /\ \/ kind = "nil" /\ plan = NilPlan
     \/ kind = "generated" /\ plan \in Layouts
     \/ kind = "missing" /\ plan = << >>
  /\ defined \in {S \cup {Contents} : S \in SUBSET SectionNames}
  /\ main = "handler"
  /\ toStart = defined
  /\ layout = "none"
  /\ pos = 1
  /\ part = [p \in Parts |-> "none"]
  /\ wg = 0
  /\ cancelled = FALSE
  /\ expired = FALSE
  /\ panicked = NoPanic
  /\ closed = FALSE
  /\ threw = {}
  /\ written = {}
  /\ reply = "pending"
  /\ sent = {}
-----------------------------------------------------------------------------
(* The code with one mistake each: these replace an action below in the    *)
(* mutation runs and are used nowhere else.                                *)

\* No wg.Add(1) before the layout's goroutine.
StartLayoutUncounted ==
  /\ main = "start"
  /\ kind # "missing"
  /\ main' = "spawn"
  /\ layout' = "run"
  /\ UNCHANGED <<page, toStart, pos, part, written, threw, control, answer>>

\* outputSection receives whether or not the section is defined.
AskUndefined ==
  /\ layout = "run"
  /\ pos <= Len(plan)
  /\ plan[pos].op # "text"
  /\ layout' = "receive"
  /\ UNCHANGED <<page, main, toStart, pos, part, written, threw, control,
                 answer>>

\* A part does not send any more once the context is done.
RenderPartUnlessDone(p) ==
  /\ part[p] = "render"
  /\ part' = [part EXCEPT ![p] = IF CtxDone THEN "exit" ELSE "send"]
  /\ UNCHANGED <<page, main, toStart, layout, pos, written, threw, control,
                 answer>>

\* The deadline's reply carries what the layout has written so far.
ReplyTimeoutPartial ==
  /\ reply = "pending"
  /\ main # "crashed"
  /\ expired
  /\ reply' = "timeout"
  /\ sent' = written
  /\ UNCHANGED <<page, main, toStart, render, control, expired>>
-----------------------------------------------------------------------------
(* The goroutine running the page's Respond. *)

\* The user's ^handler replies itself and returns nil, returns an error,
\* panics, or falls through to the rendering.
Handler ==
  /\ main = "handler"
  /\ main' \in {"own", "error", "panic", "start"}
  /\ UNCHANGED <<page, toStart, render, control, answer>>

\* layout := getLayout(name) panics for a name that is not in layouts.
NoSuchLayout ==
  /\ main = "start"
  /\ kind = "missing"
  /\ main' = "panic"
  /\ UNCHANGED <<page, toStart, render, control, answer>>

\* wg.Add(1); go layout.Respond(...)
StartLayout ==
  /\ main = "start"
  /\ kind # "missing"
  /\ main' = "spawn"
  /\ layout' = "run"
  /\ wg' = wg + 1
  /\ UNCHANGED <<page, toStart, pos, part, written, threw, cancelled,
                 panicked, closed, answer>>

\* wg.Add(1); go render(p): the contents first, then the sections in the
\* order of Go's map iteration.
StartPart(p) ==
  /\ main = "spawn"
  /\ p \in toStart
  /\ p = Contents \/ Contents \notin toStart
  /\ toStart' = toStart \ {p}
  /\ main' = IF toStart' = {} THEN "wait" ELSE "spawn"
  /\ part' = [part EXCEPT ![p] = "render"]
  /\ wg' = wg + 1
  /\ UNCHANGED <<page, layout, pos, written, threw, cancelled, panicked,
                 closed, answer>>

\* wg.Wait() returns; a recorded panic closes the channels and becomes the
\* error Respond returns.
Wait ==
  /\ main = "wait"
  /\ wg = 0
  /\ main' = IF panicked # NoPanic THEN "error" ELSE "ok"
  /\ closed' = (panicked # NoPanic)
  /\ UNCHANGED <<page, toStart, render, wg, cancelled, panicked, answer>>
-----------------------------------------------------------------------------
(* The goroutine of the layout. *)

WriteText ==
  /\ layout = "run"
  /\ pos <= Len(plan)
  /\ plan[pos].op = "text"
  /\ written' = written \cup {pos}
  /\ pos' = pos + 1
  /\ UNCHANGED <<page, main, toStart, layout, part, threw, control, answer>>

\* `^if sectionDefined(name)` is false.
SkipSection ==
  /\ layout = "run"
  /\ pos <= Len(plan)
  /\ Skipped(pos)
  /\ pos' = pos + 1
  /\ UNCHANGED <<page, main, toStart, layout, part, written, threw, control,
                 answer>>

\* outputSection(name) starts to receive from sections[name]; with no such
\* key that is the nil channel, on which nobody ever sends.
AskSection ==
  /\ layout = "run"
  /\ pos <= Len(plan)
  /\ plan[pos].op # "text"
  /\ ~Skipped(pos)
  /\ layout' = "receive"
  /\ UNCHANGED <<page, main, toStart, pos, part, written, threw, control,
                 answer>>

\* The rendezvous on sections[p]: the sender goes on to its deferred calls,
\* the layout escapes and writes what it got.
Deliver(p) ==
  /\ layout = "receive"
  /\ plan[pos].name = p
  /\ part[p] = "send"
  /\ part' = [part EXCEPT ![p] = "exit"]
  /\ written' = written \cup {pos}
  /\ pos' = pos + 1
  /\ layout' = "run"
  /\ UNCHANGED <<page, main, toStart, threw, control, answer>>

\* Only nilLayout selects on the context; it then returns without output.
GiveUp ==
  /\ layout = "receive"
  /\ kind = "nil"
  /\ CtxDone
  /\ layout' = "returned"
  /\ UNCHANGED <<page, main, toStart, pos, part, written, threw, control,
                 answer>>

LayoutReturns ==
  /\ layout = "run"
  /\ pos > Len(plan)
  /\ layout' = "returned"
  /\ UNCHANGED <<page, main, toStart, pos, part, written, threw, control,
                 answer>>

\* defer cancel(), which runs before the deferred wg.Done().
LayoutCancels ==
  /\ layout = "returned"
  /\ layout' = "cancelled"
  /\ cancelled' = TRUE
  /\ UNCHANGED <<page, main, toStart, pos, part, written, threw, wg,
                 panicked, closed, answer>>

LayoutDone ==
  /\ layout = "cancelled"
  /\ layout' = "done"
  /\ wg' = wg - 1
  /\ UNCHANGED <<page, main, toStart, pos, part, written, threw, cancelled,
                 panicked, closed, answer>>

\* The user's code in a layout returns an error or panics.  Its goroutine
\* has no recover, so the process dies with every goroutine in it.
LayoutFails ==
  /\ layout = "run"
  /\ kind = "generated"
  /\ main' = "crashed"
  /\ toStart' = {}
  /\ layout' = "none"
  /\ part' = [p \in Parts |-> "none"]
  /\ wg' = 0
  /\ UNCHANGED <<page, pos, written, threw, cancelled, panicked, closed,
                 answer>>
-----------------------------------------------------------------------------
(* The goroutine of a part: the contents or a section. *)

RenderPart(p) ==
  /\ part[p] = "render"
  /\ part' = [part EXCEPT ![p] = "send"]
  /\ UNCHANGED <<page, main, toStart, layout, pos, written, threw, control,
                 answer>>

PartPanics(p) ==
  /\ part[p] = "render"
  /\ part' = [part EXCEPT ![p] = "recover"]
  /\ threw' = threw \cup {p}
  /\ UNCHANGED <<page, main, toStart, layout, pos, written, control, answer>>

\* The deferred recover tests panicked before it records the panic: for nil
\* in the contents' goroutine, for not nil in a section's.
Records(p) == IF p = Contents THEN panicked = NoPanic ELSE panicked # NoPanic

RecoverCancels(p) ==
  /\ part[p] = "recover"
  /\ Records(p)
  /\ cancelled' = TRUE
  /\ part' = [part EXCEPT ![p] = "store"]
  /\ UNCHANGED <<page, main, toStart, layout, pos, written, threw, wg,
                 panicked, closed, answer>>

RecoverIgnores(p) ==
  /\ part[p] = "recover"
  /\ ~Records(p)
  /\ part' = [part EXCEPT ![p] = "exit"]
  /\ UNCHANGED <<page, main, toStart, layout, pos, written, threw, control,
                 answer>>

RecoverStores(p) ==
  /\ part[p] = "store"
  /\ panicked' = p
  /\ part' = [part EXCEPT ![p] = "exit"]
  /\ UNCHANGED <<page, main, toStart, layout, pos, written, threw, wg,
                 cancelled, closed, answer>>

\* The deferred wg.Done(), last of all.
PartDone(p) ==
  /\ part[p] = "exit"
  /\ part' = [part EXCEPT ![p] = "done"]
  /\ wg' = wg - 1
  /\ UNCHANGED <<page, main, toStart, layout, pos, written, threw, cancelled,
                 panicked, closed, answer>>
-----------------------------------------------------------------------------
(* The server around Respond: pushupHandler, requestLogMiddleware, the     *)
(* TimeoutHandler and panicRecoveryMiddleware.                             *)

\* The deadline passes, or the client goes away.
Expire ==
  /\ reply = "pending"
  /\ main # "crashed"
  /\ ~expired
  /\ expired' = TRUE
  /\ UNCHANGED <<page, main, toStart, render, control, reply, sent>>

\* TimeoutHandler writes 503 and drops what was buffered.
ReplyTimeout ==
  /\ reply = "pending"
  /\ main # "crashed"
  /\ expired
  /\ reply' = "timeout"
  /\ UNCHANGED <<page, main, toStart, render, control, expired, sent>>

\* pushupHandler returned: what was buffered is the reply.  http.Error sets
\* status 500 only when nothing has been written before it.
ReplyDone ==
  /\ reply = "pending"
  /\ main \in {"own", "ok", "error"}
  /\ reply' = CASE main = "own" -> "own"
                [] main = "ok" -> "page"
                [] main = "error" -> IF written = {} THEN "error"
                                                     ELSE "garbled"
  /\ sent' = written
  /\ UNCHANGED <<page, main, toStart, render, control, expired>>

\* TimeoutHandler re-raises the panic and panicRecoveryMiddleware answers
\* with status 500.
ReplyPanic ==
  /\ reply = "pending"
  /\ main = "panic"
  /\ reply' = "error"
  /\ UNCHANGED <<page, main, toStart, render, control, expired, sent>>
-----------------------------------------------------------------------------
MainStep == Handler \/ NoSuchLayout \/ StartLayout \/ Wait
            \/ \E p \in Parts : StartPart(p)

LayoutStep == WriteText \/ SkipSection \/ AskSection \/ GiveUp
              \/ LayoutReturns \/ LayoutCancels \/ LayoutDone
              \/ \E p \in Parts : Deliver(p)

PartStep(p) == RenderPart(p) \/ PartPanics(p) \/ RecoverCancels(p)
               \/ RecoverIgnores(p) \/ RecoverStores(p) \/ PartDone(p)

ServerStep == ReplyTimeout \/ ReplyDone \/ ReplyPanic

Next == MainStep \/ LayoutStep \/ LayoutFails
        \/ (\E p \in Parts : PartStep(p)) \/ Expire \/ ServerStep

\* The Go scheduler runs what can run, the user's code terminates (in a send
\* or in a panic), and the deadline passes.  No layout has to fail.
Fairness ==
  /\ WF_vars(MainStep)
  /\ WF_vars(LayoutStep)
  /\ \A p \in Parts : WF_vars(PartStep(p))
  /\ WF_vars(Expire)
  /\ WF_vars(ServerStep)

Spec == Init /\ [][Next]_vars /\ Fairness
-----------------------------------------------------------------------------
(* Properties. *)

\* The type invariant.  The WaitGroup's counter is never negative.
TypeOK ==
  /\ kind \in {"nil", "generated", "missing"}
  /\ plan \in Seq(LayoutOp)
  /\ defined \subseteq Parts
  /\ main \in MainAt
  /\ toStart \subseteq defined
  /\ layout \in LayoutAt
  /\ pos \in 1..(Len(plan) + 1)
  /\ part \in [Parts -> PartAt]
  /\ wg \in Nat
  /\ cancelled \in BOOLEAN
  /\ expired \in BOOLEAN
  /\ panicked \in Parts \cup {NoPanic}
  /\ closed \in BOOLEAN
  /\ threw \subseteq Parts
  /\ written \subseteq 1..Len(plan)
  /\ reply \in {"pending", "page", "own", "error", "garbled", "timeout"}
  /\ sent \subseteq 1..Len(plan)

\* The goroutines of the request that have not called wg.Done() yet.
LiveParts == {p \in Parts : part[p] \notin {"none", "done"}}
LiveLayout == IF layout \in {"none", "done"} THEN 0 ELSE 1

\* The WaitGroup's counter is the number of goroutines that Respond has
\* started and that are not finished: it never goes negative (which would
\* panic), and zero means that none of them runs any more.
WaitCounts == wg = Cardinality(LiveParts) + LiveLayout

\* Once Respond has returned, no goroutine of the request can write to the
\* ResponseWriter, record a panic or use a channel Respond has closed.
ReturnsLast ==
  main \in Returned \/ closed => LiveParts = {} /\ LiveLayout = 0

\* Respond returns without an error only after the layout has written every
\* operation that applies to the page, whatever was cancelled meanwhile.
PageComplete == main = "ok" => written = Due

Outputs(i, p) == plan[i].op # "text" /\ plan[i].name = p

\* ... and only when every part that was rendered is in what was written.
NothingLost ==
  main = "ok" =>
    \A p \in defined \ threw : \E i \in written : Outputs(i, p)

\* A panic of the page's contents is never answered with a page.
ContentsPanicReported == main = "ok" => Contents \notin threw

\* What the comment before the check of panicked says of every goroutine.
AnyPanicReported == main = "ok" => threw = {}

\* An error page follows part of a page, with status 200, only under a
\* layout that has no use for the page's contents.
GarbledNeedsOmission ==
  reply = "garbled" => \A i \in Due : ~Outputs(i, Contents)

\* The layout and the page fit: the operations that apply output every part
\* of the page, each once, and nothing else.
Fits ==
  /\ kind # "missing"
  /\ \A i \in Due : plan[i].op # "text" => plan[i].name \in defined
  /\ \A p \in defined : \E i \in Due :
       /\ Outputs(i, p)
       /\ \A j \in Due \ {i} : ~Outputs(j, p)

\* Respond waits for goroutines none of which can take another step.
Hung ==
  /\ main = "wait"
  /\ wg # 0
  /\ \A p \in Parts : part[p] \in {"none", "send", "done"}
  /\ \/ layout = "done"
     \/ /\ layout = "receive"
        /\ part[plan[pos].name] # "send"
        /\ kind = "nil" => ~CtxDone

\* A request hangs only if its page and its layout do not fit, if a part
\* panicked, or if a page without layout missed its deadline.
HangNeedsCause ==
  Hung => ~Fits \/ threw # {} \/ (kind = "nil" /\ expired)

\* A hung request stays hung: its goroutines outlive the deadline and the
\* reply, until the process ends.
HangIsForever == [][Hung => Hung']_vars

\* A page that fits its generated layout, and whose parts do not panic, is
\* rendered to the end even if the client has got the deadline's reply.
FittingPageReturns ==
  main = "wait" /\ kind = "generated" /\ Fits
    ~> main \in Returned \cup {"crashed"} \/ threw # {}

\* A request is answered at most once and, in the end, is answered or lost;
\* a page is answered whole and the deadline's reply carries none of it.
Reply == INSTANCE PageReply WITH
  Piece  <- Nat,
  due    <- Due,
  answer <- IF main = "crashed" /\ reply = "pending"
            THEN "lost" ELSE reply,
  body   <- sent

ImplementsPageReply == Reply!Spec
-----------------------------------------------------------------------------
(* The inductive invariant behind the safety properties above: its parts   *)
(* say how far each goroutine's state lets one conclude about the others'. *)

\* What Respond's own progress says of the goroutines it starts.
Stages ==
  /\ main \in {"handler", "start", "own", "panic"} => layout = "none"
  /\ main \in {"spawn", "wait", "ok"} => layout # "none"
  /\ main \in {"wait", "ok"} => toStart = {}
  /\ main = "error" /\ layout # "none" => toStart = {} /\ panicked # NoPanic
  /\ main = "ok" => panicked = NoPanic
  /\ closed => main = "error" /\ layout # "none"
  /\ layout = "none" /\ main # "crashed" =>
       toStart = defined /\ written = {}
  /\ main # "crashed" =>
       \A p \in Parts : part[p] = "none" <=> p \notin defined \/ p \in toStart
  /\ main = "crashed" => layout = "none" /\ \A p \in Parts : part[p] = "none"

\* What the layout has written when it is at operation pos.
Progress ==
  /\ kind = "nil" => plan = NilPlan
  /\ Contents \in defined
  /\ written \subseteq Due
  /\ \A i \in written : i < pos
  /\ \A i \in Due : i < pos => i \in written
  /\ layout = "receive" => pos \in Due /\ plan[pos].op # "text"
  /\ layout \in {"returned", "cancelled", "done"} =>
       pos > Len(plan) \/ kind = "nil"
  /\ main # "crashed" =>
       \A i \in written : \A p \in Parts :
          Outputs(i, p) => part[p] \in {"exit", "done"} /\ p \notin threw

\* How a part's goroutine ends: delivered or with a panic, and when that
\* panic is recorded.
Endings ==
  /\ main # "crashed" => \A p \in Parts :
       /\ part[p] \in {"none", "render", "send"} => p \notin threw
       /\ part[p] \in {"recover", "store"} => p \in threw
       /\ part[p] \in {"exit", "done"} =>
            p \in threw \/ \E i \in written : Outputs(i, p)
       /\ part[p] = "store" =>
            p = Contents \/ panicked # NoPanic
  /\ main # "crashed" /\ Contents \in threw =>
       panicked # NoPanic \/ part[Contents] \in {"recover", "store"}
  /\ panicked # NoPanic => Contents \in threw

\* Why the context is cancelled, and why a layout returns early.
Causes ==
  /\ panicked # NoPanic => cancelled
  /\ \A p \in Parts : part[p] = "store" => cancelled
  /\ cancelled => threw # {} \/ layout \in {"cancelled", "done"}
  /\ layout \in {"returned", "cancelled", "done"} =>
       pos > Len(plan) \/ expired \/ threw # {}

\* What the reply says of how Respond ended.
Replies ==
  /\ reply = "page" => main = "ok" /\ sent = written
  /\ reply = "garbled" => main = "error" /\ written # {}
  /\ reply \in {"pending", "timeout", "own"} => sent = {}

IInv ==
  /\ TypeOK /\ WaitCounts /\ ReturnsLast
  /\ Stages /\ Progress /\ Endings /\ Causes /\ Replies
=============================================================================
