------------------------------- MODULE DevLoop -------------------------------
(***************************************************************************)
(* `pushup run -dev`: scan, compile, build and run the project, watch its  *)
(* files, and start over when one of them changes, until an interrupt.     *)
(*                                                                         *)
(* Each iteration of the loop has its own context, channels, watcher and   *)
(* debounce goroutine; those of earlier iterations outlive it, with the    *)
(* timers they have armed.  A file is abstracted to whether what is on the *)
(* disk has been compiled, a period of debouncing to an armed timer that   *)
(* fires at some later moment.                                             *)
(***************************************************************************)
EXTENDS Naturals, FiniteSets

CONSTANTS
  Files,       \* files of the app directory that make Pushup reload
  Dirs,        \* its directories
  Root,        \* the app directory itself
  Parent,      \* the directory of each file and each other directory
  Initial,     \* the files and directories there at the start
  MaxEdits,    \* bound: files written while the dev server runs
  MaxSignals   \* bound: interrupts sent

\* Every iteration but the first is due to an edit.
MaxIter == MaxEdits + 1
Iters == 1..MaxIter

ASSUME DevAssumption ==
  /\ Root \in Dirs /\ Files \cap Dirs = {}
  /\ Parent \in [(Files \cup Dirs) \ {Root} -> Dirs]
  /\ Root \in Initial /\ Initial \subseteq Files \cup Dirs
  /\ MaxEdits \in Nat /\ MaxSignals \in Nat

VARIABLES
  exists,      \* the files and directories on the disk
  dirty,       \* files changed since the compiler last read them
  noticed,     \* history: those whose change the current watcher was told of
  edits,       \* how many edits there have been
  signals,     \* how many interrupts there have been
  loop,        \* where the main goroutine is
  iter,        \* the iteration of the loop, 0 before the first
  todo,        \* files this iteration still has to compile
  toWatch,     \* directories the main goroutine has yet to add
  selected,    \* what the selecting goroutine has received: "none", "file"
               \* or "signal"
  cause,       \* of the current context: "none", "file" or "signal"
  caught,      \* an interrupt waits in the channel signals
  notify,      \* signal.Notify is in force
  child,       \* the application's process: "none", "running" or "dead"
  watcher,     \* per iteration: "none", "open" or "closed"
  watched,     \* per iteration: the directories watched
  events,      \* per iteration: events debounceEvents has not taken yet
  bouncing,    \* per iteration: debounceEvents runs
  armed,       \* per iteration: paths whose timer is going to fire
  walking,     \* per iteration: directories timers' calls have yet to add
  sending,     \* per iteration: files whose timer's call is at `reload <-`
  closing      \* per iteration: files whose call is at watcher.Close()

disk  == <<exists, dirty, noticed, edits>>
main  == <<loop, iter, todo, toWatch>>
ctx   == <<selected, cause, caught, notify, signals>>
watch == <<watcher, watched, events, bouncing>>
timer == <<armed, walking, sending, closing>>
vars  == <<disk, main, ctx, child, watch, timer>>

LoopAt == {"start", "scan", "compile", "build", "watch", "walk", "run",
           "cause", "returned", "failed", "crashed", "panicked", "killed"}
Ended == loop \in {"returned", "failed", "crashed", "panicked", "killed"}

\* The context of iteration i is done.
Done(i) == i < iter \/ cause # "none"

\* A mistaken Subdirs, for a mutation run: no test for directories.
Entries(d) == {e \in exists \ {Root} : Parent[e] = d}

Subdirs(d) == {e \in (Dirs \ {Root}) \cap exists : Parent[e] = d}

\* The watchers that have an event for a change in the directory of p.
Told(p) == {i \in Iters : watcher[i] = "open" /\ Parent[p] \in watched[i]}
Tell(p) == events' = [i \in Iters |-> IF i \in Told(p) THEN events[i] \cup {p}
                                                       ELSE events[i]]

Init ==
  /\ exists = Initial
  /\ dirty = {}
  /\ noticed = {}
  /\ edits = 0
  /\ signals = 0
  /\ loop = "start"
  /\ iter = 0
  /\ todo = {}
  /\ toWatch = {}
  /\ selected = "none"
  /\ cause = "none"
  /\ caught = FALSE
  /\ notify = FALSE
  /\ child = "none"
  /\ watcher = [i \in Iters |-> "none"]
  /\ watched = [i \in Iters |-> {}]
  /\ events = [i \in Iters |-> {}]
  /\ bouncing = [i \in Iters |-> FALSE]
  /\ armed = [i \in Iters |-> {}]
  /\ walking = [i \in Iters |-> {}]
  /\ sending = [i \in Iters |-> {}]
  /\ closing = [i \in Iters |-> {}]
-----------------------------------------------------------------------------
(* The code with one mistake each: these replace a definition below in the *)
(* mutation runs and are used nowhere else.                                *)

\* The list of files is made once, not in every iteration.
ScanOnce ==
  /\ loop = "scan"
  /\ loop' = "compile"
  /\ todo' = Initial \cap Files
  /\ UNCHANGED <<disk, iter, toWatch, ctx, child, watch, timer>>

\* runProject does not wait for the process to end.
RunReturnsEarly ==
  /\ loop = "run"
  /\ cause # "none"
  /\ loop' = "cause"
  /\ notify' = FALSE
  /\ UNCHANGED <<disk, iter, todo, toWatch, selected, cause, caught, signals,
                 child, watch, timer>>

\* Every cause starts the loop over.
CheckNoCause ==
  /\ loop = "cause"
  /\ loop' = "start"
  /\ UNCHANGED <<disk, iter, todo, toWatch, ctx, child, watch, timer>>

\* One reload channel serves all iterations.
SelectAnyReload(p) ==
  /\ ~Ended
  /\ iter \in Iters /\ loop # "start"
  /\ selected = "none"
  /\ \E i \in Iters :
       /\ p \in sending[i]
       /\ sending' = [sending EXCEPT ![i] = @ \ {p}]
       /\ closing' = [closing EXCEPT ![i] = @ \cup {p}]
  /\ selected' = "file"
  /\ UNCHANGED <<disk, main, cause, caught, notify, signals, child, watch,
                 armed, walking>>

\* The timer's call closes the watcher before it sends on reload.
FireAndClose(i, p) ==
  /\ ~Ended
  /\ p \in armed[i]
  /\ armed' = [armed EXCEPT ![i] = @ \ {p}]
  /\ IF p \in Dirs
     THEN /\ walking' = [walking EXCEPT ![i] = @ \cup {p}]
          /\ UNCHANGED <<sending, watcher>>
     ELSE /\ sending' = [sending EXCEPT ![i] = @ \cup {p}]
          /\ watcher' = [watcher EXCEPT ![i] = "closed"]
          /\ UNCHANGED walking
  /\ UNCHANGED <<disk, main, ctx, child, watched, events, bouncing, closing>>
-----------------------------------------------------------------------------
(* The developer: edits, new directories, interrupts. *)

\* A file is written or created.
Edit(p) ==
  /\ ~Ended
  /\ edits < MaxEdits
  /\ Parent[p] \in exists
  /\ edits' = edits + 1
  /\ exists' = exists \cup {p}
  /\ dirty' = dirty \cup {p}
  /\ noticed' = IF iter \in Told(p) THEN noticed \cup {p} ELSE noticed
  /\ Tell(p)
  /\ UNCHANGED <<main, ctx, child, watcher, watched, bouncing, timer>>

MakeDir(d) ==
  /\ ~Ended
  /\ d \notin exists
  /\ Parent[d] \in exists
  /\ exists' = exists \cup {d}
  /\ Tell(d)
  /\ UNCHANGED <<dirty, noticed, edits, main, ctx, child, watcher, watched,
                 bouncing, timer>>

\* Without Notify the signal has its default effect; the channel holds one
\* signal and drops others.
Interrupt ==
  /\ ~Ended
  /\ signals < MaxSignals
  /\ signals' = signals + 1
  /\ IF notify THEN caught' = TRUE /\ UNCHANGED loop
               ELSE loop' = "killed" /\ UNCHANGED caught
  /\ UNCHANGED <<disk, iter, todo, toWatch, selected, cause, notify, child,
                 watch, timer>>
-----------------------------------------------------------------------------
(* runCmd.do: the main goroutine. *)

\* A new context, signal channel, reload channel and selecting goroutine.
Begin ==
  /\ loop = "start"
  /\ iter < MaxIter
  /\ loop' = "scan"
  /\ iter' = iter + 1
  /\ selected' = "none"
  /\ cause' = "none"
  /\ caught' = FALSE
  /\ notify' = TRUE
  /\ child' = "none"
  /\ UNCHANGED <<disk, todo, toWatch, signals, watch, timer>>

\* rescanProjectFiles
Scan ==
  /\ loop = "scan"
  /\ loop' = "compile"
  /\ todo' = exists \cap Files
  /\ UNCHANGED <<disk, iter, toWatch, ctx, child, watch, timer>>

\* compileProject reads one file after the other.
CompileFile(p) ==
  /\ loop = "compile"
  /\ p \in todo
  /\ todo' = todo \ {p}
  /\ dirty' = dirty \ {p}
  /\ noticed' = noticed \ {p}
  /\ UNCHANGED <<exists, edits, loop, iter, toWatch, ctx, child, watch,
                 timer>>

CompileDone ==
  /\ loop = "compile"
  /\ todo = {}
  /\ loop' = "build"
  /\ UNCHANGED <<disk, iter, todo, toWatch, ctx, child, watch, timer>>

\* buildProject, which does not look at its context, and the broadcast.
Build ==
  /\ loop = "build"
  /\ loop' = "watch"
  /\ UNCHANGED <<disk, iter, todo, toWatch, ctx, child, watch, timer>>

\* A directory that cannot be read, a page that does not parse, or Go code
\* that does not build, ends it all.
BuildFails ==
  /\ loop \in {"scan", "compile", "build"}
  /\ loop' = "failed"
  /\ UNCHANGED <<disk, iter, todo, toWatch, ctx, child, watch, timer>>

\* watchForReload: a watcher, its debounce goroutine, then the walk.
Watch ==
  /\ loop = "watch"
  /\ loop' = "walk"
  /\ toWatch' = {Root}
  /\ watcher' = [watcher EXCEPT ![iter] = "open"]
  /\ bouncing' = [bouncing EXCEPT ![iter] = TRUE]
  /\ UNCHANGED <<disk, iter, todo, ctx, child, watched, events, timer>>

\* No watcher can be made, or adding a directory to it fails for a reason of
\* the system's (the limit of watches, a directory that has gone): a panic.
WatchFails ==
  /\ loop = "watch" \/ (loop = "walk" /\ toWatch # {})
  /\ loop' = "panicked"
  /\ UNCHANGED <<disk, iter, todo, toWatch, ctx, child, watch, timer>>

\* watcher.Add(d) fails on a closed watcher, and the error is a panic.
WalkDir(d) ==
  /\ loop = "walk"
  /\ d \in toWatch
  /\ IF watcher[iter] = "open"
     THEN /\ watched' = [watched EXCEPT ![iter] = @ \cup {d}]
          /\ toWatch' = (toWatch \ {d}) \cup Subdirs(d)
          /\ UNCHANGED loop
     ELSE loop' = "crashed" /\ UNCHANGED <<watched, toWatch>>
  /\ UNCHANGED <<disk, iter, todo, ctx, child, watcher, events, bouncing,
                 timer>>

WalkDone ==
  /\ loop = "walk"
  /\ toWatch = {}
  /\ loop' = "run"
  /\ UNCHANGED <<disk, iter, todo, toWatch, ctx, child, watch, timer>>

\* cmd.Run() does not start a process once the context is done.
StartApp ==
  /\ loop = "run"
  /\ child = "none"
  /\ cause = "none"
  /\ child' = "running"
  /\ UNCHANGED <<disk, main, ctx, watch, timer>>

KillApp ==
  /\ ~Ended
  /\ child = "running"
  /\ cause # "none"
  /\ child' = "dead"
  /\ UNCHANGED <<disk, main, ctx, watch, timer>>

\* The application exits by itself; runProject goes on to wait.
AppExits ==
  /\ ~Ended
  /\ child = "running"
  /\ child' = "dead"
  /\ UNCHANGED <<disk, main, ctx, watch, timer>>

\* runProject returns when its context is done and the process is gone;
\* signal.Stop follows.
RunReturns ==
  /\ loop = "run"
  /\ cause # "none"
  /\ child # "running"
  /\ loop' = "cause"
  /\ notify' = FALSE
  /\ UNCHANGED <<disk, iter, todo, toWatch, selected, cause, caught, signals,
                 child, watch, timer>>

CheckCause ==
  /\ loop = "cause"
  /\ loop' = IF cause = "signal" THEN "returned" ELSE "start"
  /\ UNCHANGED <<disk, iter, todo, toWatch, ctx, child, watch, timer>>
-----------------------------------------------------------------------------
(* The goroutine that selects on reload and signals, once per iteration,   *)
(* and then cancels the context; the timer whose send it has received goes *)
(* on meanwhile.                                                           *)

SelectReload(p) ==
  /\ ~Ended
  /\ iter \in Iters /\ loop # "start"
  /\ selected = "none"
  /\ p \in sending[iter]
  /\ selected' = "file"
  /\ sending' = [sending EXCEPT ![iter] = @ \ {p}]
  /\ closing' = [closing EXCEPT ![iter] = @ \cup {p}]
  /\ UNCHANGED <<disk, main, cause, caught, notify, signals, child, watch,
                 armed, walking>>

SelectSignal ==
  /\ ~Ended
  /\ iter \in Iters /\ loop # "start"
  /\ selected = "none"
  /\ caught
  /\ selected' = "signal"
  /\ caught' = FALSE
  /\ UNCHANGED <<disk, main, cause, notify, signals, child, watch, timer>>

\* cancel(errFileChanged) or cancel(errSignalCaught)
Cancel ==
  /\ ~Ended
  /\ selected # "none"
  /\ cause = "none"
  /\ cause' = selected
  /\ UNCHANGED <<disk, main, selected, caught, notify, signals, child, watch,
                 timer>>
-----------------------------------------------------------------------------
(* debounceEvents and its timers, of iteration i. *)

\* An event arms the timer of its path, or arms it anew.
Take(i, p) ==
  /\ ~Ended
  /\ bouncing[i]
  /\ watcher[i] = "open"
  /\ p \in events[i]
  /\ events' = [events EXCEPT ![i] = @ \ {p}]
  /\ armed' = [armed EXCEPT ![i] = @ \cup {p}]
  /\ UNCHANGED <<disk, main, ctx, child, watcher, watched, bouncing, walking,
                 sending, closing>>

BounceReturns(i) ==
  /\ ~Ended
  /\ bouncing[i]
  /\ Done(i) \/ watcher[i] = "closed"
  /\ bouncing' = [bouncing EXCEPT ![i] = FALSE]
  /\ UNCHANGED <<disk, main, ctx, child, watcher, watched, events, timer>>

\* The timer's call watches a directory, or sends on reload for a file.
Fire(i, p) ==
  /\ ~Ended
  /\ p \in armed[i]
  /\ armed' = [armed EXCEPT ![i] = @ \ {p}]
  /\ IF p \in Dirs
     THEN walking' = [walking EXCEPT ![i] = @ \cup {p}] /\ UNCHANGED sending
     ELSE sending' = [sending EXCEPT ![i] = @ \cup {p}] /\ UNCHANGED walking
  /\ UNCHANGED <<disk, main, ctx, child, watch, closing>>

AddDir(i, d) ==
  /\ ~Ended
  /\ d \in walking[i]
  /\ IF watcher[i] = "open"
     THEN /\ watched' = [watched EXCEPT ![i] = @ \cup {d}]
          /\ walking' = [walking EXCEPT ![i] = (@ \ {d}) \cup Subdirs(d)]
          /\ UNCHANGED loop
     ELSE loop' = "crashed" /\ UNCHANGED <<watched, walking>>
  /\ UNCHANGED <<disk, iter, todo, toWatch, ctx, child, watcher, events,
                 bouncing, armed, sending, closing>>

\* As WatchFails, in a timer's call.
AddFails(i) ==
  /\ ~Ended
  /\ walking[i] # {}
  /\ loop' = "panicked"
  /\ UNCHANGED <<disk, iter, todo, toWatch, ctx, child, watch, timer>>

\* watcher.Close(), after the send: no event is read any more.
CloseWatcher(i, p) ==
  /\ ~Ended
  /\ p \in closing[i]
  /\ closing' = [closing EXCEPT ![i] = @ \ {p}]
  /\ watcher' = [watcher EXCEPT ![i] = "closed"]
  /\ events' = [events EXCEPT ![i] = {}]
  /\ UNCHANGED <<disk, main, ctx, child, watched, bouncing, armed, walking,
                 sending>>
-----------------------------------------------------------------------------
MainStep == Begin \/ Scan \/ CompileDone \/ Build \/ Watch \/ WalkDone
            \/ StartApp \/ RunReturns \/ CheckCause
            \/ (\E p \in Files : CompileFile(p))
            \/ (\E d \in Dirs : WalkDir(d))

SelectStep == SelectSignal \/ Cancel \/ \E p \in Files : SelectReload(p)

BounceStep(i) == BounceReturns(i) \/ \E p \in Files \cup Dirs : Take(i, p)

TimerStep(i) == \/ \E p \in Files \cup Dirs : Fire(i, p)
                \/ \E d \in Dirs : AddDir(i, d)
                \/ \E p \in Files : CloseWatcher(i, p)

DeveloperStep == Interrupt \/ (\E p \in Files : Edit(p))
                 \/ (\E d \in Dirs \ {Root} : MakeDir(d))

Failure == BuildFails \/ WatchFails \/ \E i \in Iters : AddFails(i)

Next == MainStep \/ Failure \/ KillApp \/ AppExits \/ SelectStep
        \/ DeveloperStep \/ (\E i \in Iters : BounceStep(i) \/ TimerStep(i))

\* Every goroutine that can run does, timers fire, a killed process dies.
\* Nobody has to edit or to interrupt, and nothing has to fail.
Fairness ==
  /\ WF_vars(MainStep)
  /\ WF_vars(KillApp)
  /\ WF_vars(SelectStep)
  /\ \A i \in Iters : WF_vars(BounceStep(i)) /\ WF_vars(TimerStep(i))

Spec == Init /\ [][Next]_vars /\ Fairness
-----------------------------------------------------------------------------
(* Properties. *)

Paths == Files \cup Dirs

\* The type invariant.  A file whose change a watcher was told of is dirty.
TypeOK ==
  /\ exists \subseteq Paths
  /\ dirty \subseteq Files
  /\ noticed \subseteq dirty
  /\ edits \in 0..MaxEdits
  /\ signals \in 0..MaxSignals
  /\ loop \in LoopAt
  /\ iter \in 0..MaxIter
  /\ todo \subseteq Files
  /\ toWatch \subseteq Dirs
  /\ selected \in {"none", "file", "signal"}
  /\ cause \in {"none", selected}
  /\ caught \in BOOLEAN
  /\ notify \in BOOLEAN
  /\ child \in {"none", "running", "dead"}
  /\ watcher \in [Iters -> {"none", "open", "closed"}]
  /\ watched \in [Iters -> SUBSET Dirs]
  /\ events \in [Iters -> SUBSET Paths]
  /\ bouncing \in [Iters -> BOOLEAN]
  /\ armed \in [Iters -> SUBSET Paths]
  /\ walking \in [Iters -> SUBSET Dirs]
  /\ sending \in [Iters -> SUBSET Files]
  /\ closing \in [Iters -> SUBSET Files]

\* The application runs only while the loop waits for it: never while the
\* project is being compiled and its executable replaced, and it is left
\* behind only when a panic about the watcher kills Pushup.
OneApp == child = "running" => loop \in {"run", "crashed", "panicked"}

\* A restart for a file follows a change that has not been compiled yet:
\* what is left of earlier iterations' timers cannot restart a later one.
RestartsHaveReasons ==
  cause = "file" /\ loop \in {"scan", "compile", "build", "watch", "walk", "run"}
    => dirty # {}

\* The select of iteration i has received a change of a file.
Received(i) == i < iter \/ (i = iter /\ selected = "file")

\* Pushup panics about a closed watcher only after the watcher's iteration has
\* received a change of a file: a directory is not added to a watcher closed by
\* anything else, though perhaps before the change has cancelled the iteration.
CrashNeedsReload ==
  loop = "crashed" => \E i \in Iters : watcher[i] = "closed" /\ Received(i)

\* A change the current watcher has been told of gets compiled, unless the
\* dev server ends.
NoticedIsCompiled == \A p \in Files : p \in noticed ~> p \notin noticed \/ Ended

\* A pending interrupt ends the dev server, unless a change of a file cancels
\* the same iteration first.
InterruptEnds == caught /\ cause = "none" ~> Ended \/ cause = "file"
-----------------------------------------------------------------------------
(* The inductive invariant behind OneApp, RestartsHaveReasons and          *)
(* CrashNeedsReload.                                                       *)

\* Nothing of iteration i has started to watch.
Idle(i) ==
  /\ watcher[i] = "none"
  /\ watched[i] = {}
  /\ events[i] = {}
  /\ armed[i] = {}
  /\ walking[i] = {}
  /\ sending[i] = {}
  /\ closing[i] = {}

\* An iteration catches signals until runProject returns, and watches from
\* its own `watch` on.
Iterations ==
  /\ loop \notin {"start", "killed"} => iter \in Iters
  /\ loop \in {"scan", "compile", "build", "watch", "walk", "run"} => notify
  /\ \A i \in Iters : i > iter => Idle(i)
  /\ loop \in {"scan", "compile", "build", "watch"} =>
       Idle(iter) /\ selected # "file"

\* What the current watcher has on its way is not compiled yet.
Pending ==
  loop \in {"walk", "run"} =>
    /\ \A p \in Files : p \in events[iter] \cup armed[iter] \cup sending[iter]
                          => p \in dirty
    /\ selected = "file" => dirty # {}

\* A watcher is closed after its iteration has received a change.
Closings ==
  \A i \in Iters : closing[i] # {} \/ watcher[i] = "closed" => Received(i)

\* Directories are added to a watcher that exists.
Walked ==
  /\ loop = "walk" => watcher[iter] # "none"
  /\ \A i \in Iters : armed[i] \cup walking[i] # {} => watcher[i] # "none"

IInv == /\ TypeOK /\ OneApp /\ CrashNeedsReload
        /\ Iterations /\ Pending /\ Closings /\ Walked
=============================================================================
