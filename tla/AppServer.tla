----------------------------- MODULE AppServer -----------------------------
(***************************************************************************)
(* The process that serves an application, from its listener to its end,   *)
(* started directly or by `pushup run` without -dev, which listens itself  *)
(* and passes the socket on.  Either process can be started again.         *)
(*                                                                         *)
(* A listening socket is there as long as a process holds it; connections  *)
(* wait in it to be accepted.  What a page's request does is PageRender's; *)
(* here a request is a connection with one request.                        *)
(***************************************************************************)
EXTENDS Naturals, FiniteSets

CONSTANTS
  Requests,
  Limited,     \* those behind the TimeoutHandler: not pprof, static, favicon
  MaxStarts,   \* bound: how often something is started
  MaxSignals   \* bound: interrupts and terminations

ASSUME ServerAssumption ==
  /\ Limited \subseteq Requests
  /\ MaxStarts \in Nat /\ MaxSignals \in Nat

VARIABLES
  way,      \* "child" of pushup run or "alone"
  unix,     \* it listens on a Unix socket
  pushup,   \* the process of pushup run
  app,      \* where the application's main goroutine is
  serve,    \* the goroutine of srv.Serve
  held,     \* the processes that hold the listening socket
  path,     \* the Unix socket's file is there
  request,  \* where a request is; one that is lost, by what end of the application
  ends,     \* history: the ways the processes have ended
  starts, signals

vars == <<way, unix, pushup, app, serve, held, path, request, ends, starts, signals>>
bounds == <<starts, signals>>

Alive == {p \in {"pushup", "app"} :
            IF p = "app" THEN app \notin {"none", "over"}
            ELSE pushup \in {"listening", "running"}}

Init ==
  /\ way = "alone" /\ unix = FALSE
  /\ pushup = "none" /\ app = "none" /\ serve = "none"
  /\ held = {} /\ path = FALSE
  /\ request = [r \in Requests |-> "idle"]
  /\ ends = {}
  /\ starts = 0 /\ signals = 0

\* A listener is closed with all its connections.
LoseAll(h, e) ==
  /\ held' = h
  /\ request' = [r \in Requests |->
       CASE request[r] = "accepted" -> e
         [] request[r] = "queued" /\ h = {} -> "reset"
         [] OTHER -> request[r]]

\* What becomes of requests when the holders of the socket are h and, if e is
\* an end of the application, it is gone, with the goroutines of requests.
Lose(h, e) ==
  /\ held' = h
  /\ request' = [r \in Requests |->
       CASE request[r] = "accepted" /\ e # "" -> e
         [] request[r] = "expired" /\ e # "" -> "answered"
         [] request[r] = "queued" /\ h = {} -> "reset"
         [] OTHER -> request[r]]

\* The process is gone, without a deferred call.
Ends(e) ==
  /\ app' = "over" /\ serve' = "none"
  /\ Lose(held \ {"app"}, e)
  /\ ends' = ends \cup {e}
-----------------------------------------------------------------------------
(* Starting.                                                               *)

\* The application binds a Unix socket itself.
Binds == unix /\ way = "alone"

StartAlone ==
  /\ way' = "alone" /\ pushup' = "none" /\ app' = "starting"
  /\ UNCHANGED <<held, path, ends>>

\* A Unix socket can be bound only where its file is not there.
StartPushup ==
  /\ way' = "child" /\ app' = "none"
  /\ IF unix' /\ path
     THEN /\ pushup' = "none" /\ ends' = ends \cup {"bind"}
          /\ UNCHANGED <<held, path>>
     ELSE /\ pushup' = "listening" /\ held' = {"pushup"} /\ path' = (path \/ unix')
          /\ UNCHANGED ends

Start ==
  /\ Alive = {} /\ starts < MaxStarts
  /\ starts' = starts + 1
  /\ unix' \in BOOLEAN
  /\ StartAlone \/ StartPushup
  /\ UNCHANGED <<serve, request, signals>>

\* A parent that closes its own copy of the socket when it has passed it on.
SpawnAndClose ==
  /\ pushup = "listening"
  /\ pushup' = "running" /\ app' = "starting" /\ held' = {"app"}
  /\ UNCHANGED <<way, unix, serve, path, request, ends, bounds>>

\* runProject: the socket is among the command's files.
Spawn ==
  /\ pushup = "listening"
  /\ pushup' = "running" /\ app' = "starting" /\ held' = {"pushup", "app"}
  /\ UNCHANGED <<way, unix, serve, path, request, ends, bounds>>

\* When the command has ended, Pushup waits for a context that is never done.
\* The socket's files, not used any more, are closed when they are collected;
\* or Go's runtime, if built without cgo, finds that no goroutine can go on.
Abandon ==
  /\ pushup = "running" /\ app = "over"
  /\ Lose({}, "")
  /\ \/ UNCHANGED <<pushup, ends>>
     \/ pushup' = "gone" /\ ends' = ends \cup {"pushup"}
  /\ UNCHANGED <<way, unix, app, serve, path, bounds>>

\* Because `fd, err :=` declares another err, a listener that cannot be made of
\* the parent's socket is not noticed: ln is nil when it is used.
Listen ==
  /\ app = "starting"
  /\ \/ /\ ~(Binds /\ path)
        /\ app' = "listening"
        /\ held' = held \cup {"app"}
        /\ path' = (path \/ Binds)
        /\ UNCHANGED <<serve, request, ends>>
     \/ Binds /\ path /\ Ends("bind") /\ UNCHANGED path
     \/ way = "child" /\ Ends("crash") /\ UNCHANGED path
  /\ UNCHANGED <<way, unix, pushup, bounds>>

\* "Pushup ready", go srv.Serve(ln).
Announce ==
  /\ app = "listening"
  /\ app' = "announced" /\ serve' = "new"
  /\ UNCHANGED <<way, unix, pushup, held, path, request, ends, bounds>>

Notify ==
  /\ app = "announced"
  /\ app' = "waiting"
  /\ UNCHANGED <<way, unix, pushup, serve, held, path, request, ends, bounds>>
-----------------------------------------------------------------------------
(* Serving.                                                                *)

\* The file that a socket was passed on as is closed when it is collected.
Release == \/ Lose(held \ {"app"}, "")
           \/ way = "child" /\ UNCHANGED <<held, request>>

UnlinkNot == UNCHANGED path

\* ln.Close() removes the file of a socket that the process has bound itself.
Unlink == path' = (path /\ ~Binds)

Close == Release /\ Unlink

\* After Shutdown, Serve closes the listener and returns.
Serve ==
  /\ serve = "new"
  /\ IF app = "draining"
     THEN serve' = "closed" /\ Close
     ELSE serve' = "accepting" /\ UNCHANGED <<held, path, request>>
  /\ UNCHANGED <<way, unix, pushup, app, ends, bounds>>

Move(r, from, to) ==
  /\ request[r] = from
  /\ request' = [request EXCEPT ![r] = to]
  /\ UNCHANGED <<way, unix, pushup, app, serve, held, path, ends, bounds>>

Connect(r) == held # {} /\ Move(r, "idle", "queued")
Accept(r)  == serve = "accepting" /\ Move(r, "queued", "accepted")
Answer(r)  == Move(r, "accepted", "answered")

\* The deadline of all requests but the pages'.
TimeOutOthers(r) == r \notin Limited /\ Move(r, "accepted", "answered")

\* The client has its answer; the page's goroutines go on.
TimeOut(r) == r \in Limited /\ Move(r, "accepted", "expired")
Finish(r)  == Move(r, "expired", "answered")

\* A panic in the goroutine of a page's layout, which nothing recovers.
Crash(r) ==
  /\ request[r] \in {"accepted", "expired"} /\ r \in Limited
  /\ Ends("crash")
  /\ UNCHANGED <<way, unix, pushup, path, bounds>>
-----------------------------------------------------------------------------
(* Signals and the end.                                                    *)

\* pushup run does not handle signals, and the application only between
\* NotifyContext and stop(); a second one in between changes nothing.
Signal(S) ==
  /\ S # {} /\ S \subseteq Alive
  /\ signals < MaxSignals /\ signals' = signals + 1
  /\ pushup' = IF "pushup" \in S THEN "gone" ELSE pushup
  /\ LET dies == "app" \in S /\ app \notin {"waiting", "stopping"}
         more == (IF dies THEN {"killed"} ELSE {})
                 \cup (IF "pushup" \in S THEN {"pushup"} ELSE {})
     IN /\ app' = IF dies THEN "over"
                  ELSE IF "app" \in S THEN "stopping" ELSE app
        /\ serve' = IF dies THEN "none" ELSE serve
        /\ Lose(held \ ((S \cap {"pushup"}) \cup (IF dies THEN {"app"} ELSE {})),
                IF dies THEN "killed" ELSE "")
        /\ ends' = ends \cup more
  /\ UNCHANGED <<way, unix, path, starts>>

\* stop()
Stop ==
  /\ app = "stopping"
  /\ app' = "stopped"
  /\ UNCHANGED <<way, unix, pushup, serve, held, path, request, ends, bounds>>

\* srv.Shutdown closes the listeners that Serve has been called with.
Shutdown ==
  /\ app = "stopped"
  /\ app' = "draining"
  /\ IF serve = "accepting"
     THEN serve' = "closed" /\ Close
     ELSE UNCHANGED <<serve, held, path, request>>
  /\ UNCHANGED <<way, unix, pushup, ends, bounds>>

Accepted == {r \in Requests : request[r] = "accepted"}

\* main returns; its deferred call closes the listener.
Exit(e) ==
  /\ app = "draining"
  /\ Ends(e) /\ Unlink
  /\ UNCHANGED <<way, unix, pushup, bounds>>

Drained == Accepted = {} /\ Exit("clean")

\* After a second: requests may take five, or have no limit at all.
DrainTimesOut == Accepted # {} /\ Exit("late")
-----------------------------------------------------------------------------
Steps == Spawn \/ Abandon \/ Listen \/ Announce \/ Notify \/ Serve
         \/ Stop \/ Shutdown \/ Drained \/ DrainTimesOut

Next == \/ Start \/ Steps
        \/ \E r \in Requests : \/ Connect(r) \/ Accept(r) \/ Answer(r)
                               \/ TimeOut(r) \/ Finish(r) \/ Crash(r)
        \/ \E S \in SUBSET {"pushup", "app"} : Signal(S)

\* The processes go on, connections are accepted, a page is answered at its
\* deadline at the latest and another request ends by itself.  Nobody has to
\* start anything, connect, or send a signal.
Fairness ==
  /\ WF_vars(Spawn) /\ WF_vars(Listen) /\ WF_vars(Announce) /\ WF_vars(Notify)
  /\ WF_vars(Serve) /\ WF_vars(Stop) /\ WF_vars(Shutdown)
  /\ WF_vars(Drained \/ DrainTimesOut)
  /\ \A r \in Requests : /\ WF_vars(Accept(r)) /\ WF_vars(TimeOut(r))
                         /\ r \notin Limited => WF_vars(Answer(r))

Spec == Init /\ [][Next]_vars /\ Fairness
-----------------------------------------------------------------------------
(* Properties.                                                             *)

AppEnds == {"bind", "crash", "killed", "clean", "late"}

\* The type invariant; a request is lost by a kind of end of the application.
TypeOK ==
  /\ way \in {"alone", "child"} /\ unix \in BOOLEAN /\ path \in BOOLEAN
  /\ pushup \in {"none", "listening", "running", "gone"}
  /\ app \in {"none", "starting", "listening", "announced", "waiting", "stopping",
              "stopped", "draining", "over"}
  /\ serve \in {"none", "new", "accepting", "closed"}
  /\ held \subseteq Alive
  /\ request \in [Requests -> {"idle", "queued", "accepted", "expired", "answered", "reset"}
                            \cup AppEnds]
  /\ ends \subseteq AppEnds \cup {"pushup"}
  /\ starts \in 0..MaxStarts /\ signals \in 0..MaxSignals

\* Clients that wait in the socket of pushup run are not turned away as the
\* application ends, however it does, while pushup run lives; nor as pushup run
\* ends, while the application accepts.
SharedSocketKeepsClients ==
  [][\A r \in Requests :
       /\ request[r] = "queued"
       /\ \/ "pushup" \in Alive \cap Alive' /\ app # "over"
          \/ serve = "accepting" /\ serve' = "accepting"
       => request'[r] # "reset"]_vars

\* It can be started on the same Unix socket again, unless an application was
\* killed or crashed before, or pushup run ended, which never removes its file.
RestartsBind ==
  "bind" \in ends => ends \cap {"killed", "crash", "pushup"} # {}

\* A client that has connected is answered or told that it is not, except when
\* the application has gone and pushup run stays on with the socket.
ClientsGetAnswers ==
  \A r \in Requests :
    request[r] \in {"queued", "accepted"} ~>
      request[r] \notin {"queued", "accepted"} \/ (pushup = "running" /\ app = "over")
-----------------------------------------------------------------------------
(* The inductive invariant behind the safety properties.                   *)

\* Only pushup run's child has a parent, which starts it.
Parents ==
  /\ way = "alone" => pushup \in {"none", "gone"}
  /\ pushup = "listening" => app = "none"

\* Requests are handled while the application serves.
Handled == {r \in Requests : request[r] \in {"accepted", "expired"}}
Serves ==
  serve # "none" \/ Handled # {} =>
    app \in {"announced", "waiting", "stopping", "stopped", "draining"}

\* pushup run holds the socket until its application has ended, and a server
\* holds it from its listener on until it is shut down.
Holders ==
  /\ "pushup" \in Alive /\ app # "over" => "pushup" \in held
  /\ serve \in {"new", "accepting"} \/ app = "listening" => "app" \in held

\* The file is there because of a process that runs, or of one that could not
\* remove it.
FileOwned ==
  path => \/ ends \cap {"killed", "crash", "pushup"} # {}
          \/ "pushup" \in Alive
          \/ Binds /\ app \notin {"none", "starting", "over"}

IInv == TypeOK /\ RestartsBind /\ Parents /\ Serves /\ Holders /\ FileOwned
=============================================================================
