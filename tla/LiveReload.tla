----------------------------- MODULE LiveReload -----------------------------
(***************************************************************************)
(* Reloading of the developer's browser: the reverse proxy that            *)
(* startReloadRevProxy puts before the application adds to each page a     *)
(* script that connects to devReloader, which waits for the next build to  *)
(* complete and then tells the script to reload the page.                  *)
(*                                                                         *)
(* The dev loop is abstracted to its effects here: the application is      *)
(* killed, rebuilt (the broadcast) and started again.  The n-th page that  *)
(* tab t loads makes connection <<t, n>>.                                  *)
(***************************************************************************)
EXTENDS Naturals

CONSTANTS
  Tabs,        \* tabs of the developer's browser
  MaxOpens,    \* bound: pages after which a tab is not navigated by hand
  MaxBuilds    \* bound: builds, the first included

ASSUME ReloadAssumption == MaxOpens \in Nat /\ MaxBuilds \in Nat \ {0}

\* A tab reloads at most once for each build but the first.
MaxLoads == MaxOpens + MaxBuilds
Conns == Tabs \X (1..MaxLoads)

VARIABLES
  app,       \* the application: "up", "down" or "built"
  builds,    \* how many builds have completed
  tab,       \* "blank", "loading", "live" (script runs) or "dead" (no script)
  load,      \* per tab: the pages it has asked for
  version,   \* per tab: the build that served its page
  handler,   \* per connection: devReloader.ServeHTTP
  waiter,    \* per connection: its goroutine
  pending,   \* per connection: reload events written and not flushed
  sent       \* per connection: reload events flushed

vars == <<app, builds, tab, load, version, handler, waiter, pending, sent>>

\* The connection of the page in tab t.
Current(t) == <<t, load[t]>>

\* The client of connection k is gone: its request's context is done.
Gone(k) == tab[k[1]] # "live" \/ load[k[1]] # k[2]

Init ==
  /\ app = "up"
  /\ builds = 1
  /\ tab = [t \in Tabs |-> "blank"]
  /\ load = [t \in Tabs |-> 0]
  /\ version = [t \in Tabs |-> 0]
  /\ handler = [k \in Conns |-> "none"]
  /\ waiter = [k \in Conns |-> "none"]
  /\ pending = [k \in Conns |-> 0]
  /\ sent = [k \in Conns |-> 0]

-----------------------------------------------------------------------------
(* The code with one mistake each, for the mutation runs only.             *)

\* The goroutine waits again after each build.
HandAgain(k) ==
  /\ waiter[k] = "woken"
  /\ handler[k] = "serving"
  /\ waiter' = [waiter EXCEPT ![k] = "waiting"]
  /\ pending' = [pending EXCEPT ![k] = @ + 1]
  /\ UNCHANGED <<app, builds, tab, load, version, handler, sent>>

\* The completed build is a flag that stays set, not a broadcast.
WaitForFlag(k) ==
  /\ waiter[k] = "new"
  /\ waiter' = [waiter EXCEPT ![k] = IF builds > 1 THEN "woken" ELSE "waiting"]
  /\ UNCHANGED <<app, builds, tab, load, version, handler, pending, sent>>

\* The event is overwritten by the keep-alive.
FlushNothing(k) ==
  /\ handler[k] = "serving"
  /\ pending[k] > 0
  /\ pending' = [pending EXCEPT ![k] = 0]
  /\ UNCHANGED <<app, builds, tab, load, version, handler, waiter, sent>>

\* One waiter is signalled, not all.
SignalBuild ==
  /\ app = "down"
  /\ builds < MaxBuilds
  /\ app' = "built"
  /\ builds' = builds + 1
  /\ \/ \E k \in Conns : waiter[k] = "waiting"
                         /\ waiter' = [waiter EXCEPT ![k] = "woken"]
     \/ (\A k \in Conns : waiter[k] # "waiting") /\ UNCHANGED waiter
  /\ UNCHANGED <<tab, load, version, handler, pending, sent>>
-----------------------------------------------------------------------------
(* The dev loop. *)

\* A file changes and the application is killed.  Requests it had accepted
\* fail, and the proxy answers them without a page; others wait in the
\* listener's queue for the next application.
Kill(T) ==
  /\ app = "up"
  /\ builds < MaxBuilds
  /\ \A t \in T : tab[t] = "loading"
  /\ app' = "down"
  /\ tab' = [t \in Tabs |-> IF t \in T THEN "dead" ELSE tab[t]]
  /\ UNCHANGED <<builds, load, version, handler, waiter, pending, sent>>

\* buildComplete.Broadcast() wakes whoever waits at this moment.
BuildComplete ==
  /\ app = "down"
  /\ builds < MaxBuilds
  /\ app' = "built"
  /\ builds' = builds + 1
  /\ waiter' = [k \in Conns |-> IF waiter[k] = "waiting" THEN "woken"
                                                         ELSE waiter[k]]
  /\ UNCHANGED <<tab, load, version, handler, pending, sent>>

AppStarts ==
  /\ app = "built"
  /\ app' = "up"
  /\ UNCHANGED <<builds, tab, load, version, handler, waiter, pending, sent>>
-----------------------------------------------------------------------------
(* The browser and the proxy. *)

Navigate(t) ==
  /\ tab' = [tab EXCEPT ![t] = "loading"]
  /\ load' = [load EXCEPT ![t] = @ + 1]
  /\ UNCHANGED <<app, builds, version, handler, waiter, pending, sent>>

\* The developer opens a page.
Open(t) ==
  /\ tab[t] # "loading"
  /\ load[t] < MaxOpens
  /\ Navigate(t)

\* The script receives the reload event.
Reload(t) ==
  /\ tab[t] = "live"
  /\ load[t] \in 1..(MaxLoads - 1)
  /\ sent[Current(t)] > 0
  /\ Navigate(t)

Close(t) ==
  /\ tab[t] # "blank"
  /\ tab' = [tab EXCEPT ![t] = "blank"]
  /\ UNCHANGED <<app, builds, load, version, handler, waiter, pending, sent>>

\* modifyResponseAddDevReload: an HTML page gets the script; a partial and
\* other media do not, and without a media type the answer is an error.
Serve(t, script) ==
  /\ tab[t] = "loading"
  /\ app = "up"
  /\ tab' = [tab EXCEPT ![t] = IF script THEN "live" ELSE "dead"]
  /\ version' = [version EXCEPT ![t] = builds]
  /\ UNCHANGED <<app, builds, load, handler, waiter, pending, sent>>

\* The script's request: devReloader.ServeHTTP starts its goroutine.
Connect(k) ==
  /\ ~Gone(k)
  /\ handler[k] = "none"
  /\ handler' = [handler EXCEPT ![k] = "serving"]
  /\ waiter' = [waiter EXCEPT ![k] = "new"]
  /\ UNCHANGED <<app, builds, tab, load, version, pending, sent>>
-----------------------------------------------------------------------------
(* devReloader.ServeHTTP and its goroutine. *)

\* complete.Wait(): from here on a broadcast wakes the goroutine.
Wait(k) ==
  /\ waiter[k] = "new"
  /\ waiter' = [waiter EXCEPT ![k] = "waiting"]
  /\ UNCHANGED <<app, builds, tab, load, version, handler, pending, sent>>

\* built <- and case <-built: the event is written, not flushed.
Hand(k) ==
  /\ waiter[k] = "woken"
  /\ handler[k] = "serving"
  /\ waiter' = [waiter EXCEPT ![k] = "done"]
  /\ pending' = [pending EXCEPT ![k] = @ + 1]
  /\ UNCHANGED <<app, builds, tab, load, version, handler, sent>>

\* The keep-alive flushes what has been written.
Flush(k) ==
  /\ handler[k] = "serving"
  /\ pending[k] > 0
  /\ sent' = [sent EXCEPT ![k] = @ + pending[k]]
  /\ pending' = [pending EXCEPT ![k] = 0]
  /\ UNCHANGED <<app, builds, tab, load, version, handler, waiter>>

\* The client has disconnected: close(done), return.
Disconnect(k) ==
  /\ handler[k] = "serving"
  /\ Gone(k)
  /\ handler' = [handler EXCEPT ![k] = "returned"]
  /\ UNCHANGED <<app, builds, tab, load, version, waiter, pending, sent>>

\* case <-done
Quit(k) ==
  /\ waiter[k] = "woken"
  /\ handler[k] = "returned"
  /\ waiter' = [waiter EXCEPT ![k] = "done"]
  /\ UNCHANGED <<app, builds, tab, load, version, handler, pending, sent>>
-----------------------------------------------------------------------------
LoopStep == BuildComplete \/ AppStarts
TabStep(t) == Reload(t) \/ \E script \in BOOLEAN : Serve(t, script)
ConnStep(k) == Connect(k) \/ Wait(k) \/ Hand(k) \/ Flush(k)
ReturnStep(k) == Disconnect(k) \/ Quit(k)

Next == \/ LoopStep
        \/ \E T \in SUBSET Tabs : Kill(T)
        \/ \E t \in Tabs : Open(t) \/ Close(t) \/ TabStep(t)
        \/ \E k \in Conns : ConnStep(k) \/ ReturnStep(k)

\* The dev loop goes on once it has killed the application, the browser
\* follows its script, the keep-alive timer fires, and goroutines that can
\* run do.  Nobody has to open a page, close one or change a file.
Fairness ==
  /\ WF_vars(LoopStep)
  /\ \A t \in Tabs : WF_vars(TabStep(t))
  /\ \A k \in Conns : WF_vars(ConnStep(k)) /\ WF_vars(ReturnStep(k))

Spec == Init /\ [][Next]_vars /\ Fairness
-----------------------------------------------------------------------------
(* Properties. *)

\* The type invariant.  A connection's event is written once at most.
TypeOK ==
  /\ app \in {"up", "down", "built"}
  /\ builds \in 1..MaxBuilds
  /\ tab \in [Tabs -> {"blank", "loading", "live", "dead"}]
  /\ load \in [Tabs -> 0..MaxLoads]
  /\ version \in [Tabs -> 0..MaxBuilds]
  /\ handler \in [Conns -> {"none", "serving", "returned"}]
  /\ waiter \in [Conns -> {"none", "new", "waiting", "woken", "done"}]
  /\ pending \in [Conns -> 0..1]
  /\ sent \in [Conns -> 0..1]

\* A page is told to reload only if it was served by an older build: the page
\* it is replaced with is not told to reload in turn, without end.
NoReloadLoop ==
  \A t \in Tabs : tab[t] = "live" /\ load[t] \in 1..MaxLoads
      /\ pending[Current(t)] + sent[Current(t)] > 0
    => version[t] < builds

\* At most one reload event is ever written to a connection, and only its
\* goroutine's last act writes it.
OneEvent ==
  \A k \in Conns : /\ pending[k] + sent[k] <= 1
                   /\ pending[k] + sent[k] > 0 => waiter[k] = "done"

\* A page whose goroutine a build has woken is left for another.
WokenPagesReload ==
  \A k \in Conns : waiter[k] = "woken" /\ ~Gone(k) ~> Gone(k)

\* A connection's goroutine outlives its client until the next build
\* completes, and no longer.
AbandonedWaitersEnd ==
  \A k \in Conns : waiter[k] = "waiting" /\ app = "down" ~> waiter[k] = "done"

\* What the script's message promises: a page the server has changed under
\* gets reloaded.
ChangedPagesReload ==
  \A t \in Tabs : tab[t] = "live" /\ version[t] < builds
                    ~> tab[t] # "live" \/ version[t] = builds
-----------------------------------------------------------------------------
(* The inductive invariant behind NoReloadLoop and OneEvent.               *)

\* A page on its way or on display has been asked for, and connections of
\* pages that have not been served have not been made.
Unserved ==
  /\ \A t \in Tabs : tab[t] \in {"loading", "live"} => load[t] >= 1
  /\ \A k \in Conns :
       /\ k[2] > load[k[1]] => handler[k] = "none"
       /\ k[2] = load[k[1]] /\ tab[k[1]] = "loading" => handler[k] = "none"
       /\ handler[k] = "none" <=> waiter[k] = "none"

\* A goroutine that has been woken was woken by a build after its page's.
Woken ==
  /\ \A t \in Tabs : version[t] <= builds
  /\ \A k \in Conns : ~Gone(k) /\ waiter[k] \in {"woken", "done"}
                        => version[k[1]] < builds

IInv == TypeOK /\ OneEvent /\ Unserved /\ Woken
=============================================================================
