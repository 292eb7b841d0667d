-------------------------- MODULE AppServerProofs --------------------------
(***************************************************************************)
(* For any requests and bounds: types, that clients in a socket which two  *)
(* processes hold stay there when one of them ends, and that a socket's    *)
(* file is left only by processes that could not remove it.                *)
(***************************************************************************)
EXTENDS AppServer, TLAPS

Places == {"idle", "queued", "accepted", "expired", "answered", "reset"} \cup AppEnds

\* What is known of requests after an end of the application.
LEMMA LoseKeeps ==
  ASSUME TypeOK, NEW h, NEW e \in AppEnds, Lose(h, e)
  PROVE  request' \in [Requests -> Places] /\ Handled' = {}
<1>1. \A r \in Requests : request'[r] \in Places /\ request'[r] \notin {"accepted", "expired"}
  BY DEF TypeOK, Lose, AppEnds, Places
<1>2. request' \in [Requests -> Places]
  BY <1>1 DEF Lose
<1> QED
  BY <1>1, <1>2 DEF Handled

\* The same, when the application does not end.
LEMMA CloseKeeps ==
  ASSUME TypeOK, NEW h, Lose(h, "")
  PROVE  request' \in [Requests -> Places] /\ Handled' = Handled
<1>1. \A r \in Requests :
        /\ request'[r] \in Places
        /\ request'[r] \in {"accepted", "expired"}
             <=> request[r] \in {"accepted", "expired"}
  BY DEF TypeOK, Lose, AppEnds, Places
<1>2. request' \in [Requests -> Places]
  BY <1>1 DEF Lose
<1> QED
  BY <1>1, <1>2 DEF Handled

\* Nobody is turned away from a socket that some process still holds.
LEMMA QueueKept ==
  ASSUME TypeOK, NEW h, NEW e, Lose(h, e), h # {},
         NEW r \in Requests, request[r] = "queued"
  PROVE  request'[r] = "queued"
  BY DEF Lose

\* An end of the application, with a file that stays or is removed.
LEMMA EndKeeps ==
  ASSUME IInv, NEW e \in AppEnds, Ends(e),
         "app" \in Alive,
         e = "bind" => Binds /\ path /\ app = "starting",
         (UNCHANGED path /\ e \in {"crash", "killed", "bind"}) \/ Unlink,
         UNCHANGED <<way, unix, pushup, bounds>>
  PROVE  IInv'
<1>1. request' \in [Requests -> Places] /\ Handled' = {}
  BY LoseKeeps DEF IInv, Ends
<1>2. TypeOK'
  BY <1>1 DEF IInv, TypeOK, Ends, Lose, Alive, Places, Unlink, Binds, AppEnds, bounds
<1>3. RestartsBind'
  BY DEF IInv, RestartsBind, FileOwned, Parents, Ends, Binds, Alive, TypeOK
<1>4. Parents' /\ Serves' /\ Holders'
  BY <1>1 DEF IInv, Parents, Serves, Holders, Ends, Alive
<1>5. FileOwned'
  BY DEF IInv, FileOwned, Ends, Unlink, Binds, Alive, TypeOK, AppEnds, RestartsBind, Parents
<1> QED
  BY <1>1, <1>2, <1>3, <1>4, <1>5 DEF IInv

LEMMA InitKeeps == Init => IInv
<1> SUFFICES ASSUME Init PROVE IInv  OBVIOUS
<1>1. TypeOK
  <2>1. starts \in 0..MaxStarts /\ signals \in 0..MaxSignals
    BY ServerAssumption DEF Init
  <2>2. held \subseteq Alive /\ ends \subseteq AppEnds \cup {"pushup"}
    BY DEF Init
  <2>3. request \in [Requests -> Places]
    BY DEF Init, Places
  <2>4. way \in {"alone", "child"} /\ unix \in BOOLEAN /\ path \in BOOLEAN
    BY DEF Init
  <2> QED  BY <2>1, <2>2, <2>3, <2>4 DEF Init, TypeOK, Places
<1>2. Handled = {}
  BY DEF Init, Handled
<1> QED
  BY <1>1, <1>2 DEF Init, IInv, RestartsBind, Parents, Serves, Holders, FileOwned, Alive

\* A request that comes, is accepted or answered.
LEMMA MoveKeeps ==
  ASSUME IInv, NEW r \in Requests, Connect(r) \/ Accept(r) \/ Answer(r) \/ TimeOut(r) \/ Finish(r)
  PROVE  IInv'
<1>1. UNCHANGED <<way, unix, pushup, app, serve, held, path, ends, bounds>>
  BY DEF Connect, Accept, Answer, TimeOut, Finish, Move
<1>2. TypeOK'
  BY <1>1 DEF IInv, TypeOK, Connect, Accept, Answer, TimeOut, Finish, Move,
              Alive, AppEnds, bounds
<1>3. Serves'
  BY <1>1 DEF IInv, TypeOK, Serves, Handled, Connect, Accept, Answer, TimeOut,
              Finish, Move
<1> QED
  BY <1>1, <1>2, <1>3 DEF IInv, RestartsBind, Parents, Holders, FileOwned, Binds, Alive

\* A signal, as the processes it is for take it.
LEMMA SignalKeeps ==
  ASSUME IInv, NEW S \in SUBSET {"pushup", "app"}, Signal(S)
  PROVE  IInv'
<1> DEFINE dies == "app" \in S /\ app \notin {"waiting", "stopping"}
           h == held \ ((S \cap {"pushup"}) \cup (IF dies THEN {"app"} ELSE {}))
<1>0. Lose(h, IF dies THEN "killed" ELSE "")  BY DEF Signal
<1> HIDE DEF h, dies
<1>1. /\ request' \in [Requests -> Places]
      /\ Handled' = IF dies THEN {} ELSE Handled
  <2>1. CASE dies
    <3>1. ASSUME NEW k, Lose(k, "killed")
          PROVE  request' \in [Requests -> Places] /\ Handled' = {}
      BY <3>1, LoseKeeps DEF IInv, AppEnds
    <3>2. Lose(h, "killed")  BY <1>0, <2>1 DEF Lose
    <3> QED  BY <2>1, <3>1, <3>2
  <2>2. CASE ~dies
    <3>1. Lose(h, "")  BY <1>0, <2>2 DEF Lose
    <3> QED  BY <2>2, <3>1, CloseKeeps DEF IInv
  <2> QED  BY <2>1, <2>2
<1> USE DEF h, dies
<1>2. held' = h  BY DEF Signal, Lose
<1>3. /\ pushup' = IF "pushup" \in S THEN "gone" ELSE pushup
      /\ app' = IF dies THEN "over" ELSE IF "app" \in S THEN "stopping" ELSE app
      /\ serve' = IF dies THEN "none" ELSE serve
      /\ ends' = ends \cup (IF dies THEN {"killed"} ELSE {})
                      \cup (IF "pushup" \in S THEN {"pushup"} ELSE {})
      /\ S \subseteq Alive
      /\ signals < MaxSignals /\ signals' = signals + 1
      /\ UNCHANGED <<way, unix, path, starts>>
  BY DEF Signal
<1> HIDE DEF dies
<1>4. dies => "app" \in S  BY DEF dies
<1>5. ~dies /\ "app" \in S => app \in {"waiting", "stopping"}  BY DEF dies
<1>6. TypeOK'
  BY <1>1, <1>2, <1>3, <1>4, <1>5, ServerAssumption DEF IInv, TypeOK, Alive, Places, AppEnds
<1>7. RestartsBind' /\ Parents'
  BY <1>3, <1>4, <1>5 DEF IInv, RestartsBind, Parents, Alive
<1>8. Serves'
  BY <1>1, <1>3, <1>5 DEF IInv, Serves
<1>9. FileOwned'
  BY <1>3, <1>4, <1>5 DEF IInv, FileOwned, Binds, Alive
<1>10. Holders'
  BY <1>2, <1>3, <1>4, <1>5 DEF IInv, Holders, Alive
<1> QED  BY <1>6, <1>7, <1>8, <1>9, <1>10 DEF IInv

\* Starting, up to the wait for a signal.
LEMMA StartKeeps ==
  ASSUME IInv, Start \/ Spawn \/ Announce \/ Notify
  PROVE  IInv'
<1>1. CASE Start
  <2>1. /\ Alive = {} /\ starts < MaxStarts /\ starts' = starts + 1 /\ unix' \in BOOLEAN
        /\ UNCHANGED <<serve, request, signals>>
    BY <1>1 DEF Start
  <2>2. serve = "none" /\ Handled = {}
    BY <2>1 DEF IInv, Serves, Alive
  <2>3. path => ends \cap {"killed", "crash", "pushup"} # {}
    BY <2>1 DEF IInv, FileOwned, Alive
  <2>4. CASE StartAlone
    BY <2>1, <2>2, <2>3, <2>4, ServerAssumption
    DEF IInv, TypeOK, RestartsBind, Parents, Serves, Holders, FileOwned,
        StartAlone, Alive, Handled, AppEnds
  <2>5. CASE StartPushup
    <3>1. TypeOK'
      <4>1. starts' \in 0..MaxStarts /\ signals' \in 0..MaxSignals
        BY <2>1, ServerAssumption DEF IInv, TypeOK
      <4>2. held' \subseteq Alive' /\ ends' \subseteq AppEnds \cup {"pushup"}
        BY <2>1, <2>5 DEF IInv, TypeOK, StartPushup, Alive, AppEnds
      <4>3. way' = "child" /\ unix' \in BOOLEAN /\ path' \in BOOLEAN
        BY <2>1, <2>5 DEF IInv, TypeOK, StartPushup
      <4> QED  BY <2>1, <2>5, <4>1, <4>2, <4>3 DEF IInv, TypeOK, StartPushup
    <3>2. Parents' /\ Serves' /\ Holders'
      BY <2>1, <2>2, <2>5
      DEF IInv, Parents, Serves, Holders, StartPushup, Handled, Alive
    <3>3. RestartsBind' /\ FileOwned'
      BY <2>1, <2>3, <2>5 DEF IInv, RestartsBind, FileOwned, StartPushup, Alive
    <3> QED  BY <3>1, <3>2, <3>3 DEF IInv
  <2> QED  BY <1>1, <2>4, <2>5 DEF Start
<1>2. CASE Spawn \/ Announce \/ Notify
  <2>1. TypeOK'
    <3>1. held' \subseteq Alive'
      BY <1>2 DEF IInv, TypeOK, Spawn, Announce, Notify, Alive
    <3>2. UNCHANGED <<way, unix, path, request, ends, starts, signals>>
      BY <1>2 DEF Spawn, Announce, Notify, bounds
    <3>3. /\ pushup' \in {"none", "listening", "running", "gone"}
          /\ app' \in {"starting", "announced", "waiting"}
          /\ serve' \in {"none", "new", "accepting", "closed"}
      BY <1>2 DEF IInv, TypeOK, Spawn, Announce, Notify
    <3> QED  BY <3>1, <3>2, <3>3 DEF IInv, TypeOK
  <2>2. Handled' = Handled
    BY <1>2 DEF Spawn, Announce, Notify, Handled
  <2>3. Parents' /\ Holders'
    BY <1>2 DEF IInv, Parents, Serves, Holders, Spawn, Announce, Notify, Alive
  <2>4. Serves'
    BY <1>2, <2>2 DEF IInv, Parents, Serves, Spawn, Announce, Notify
  <2>5. RestartsBind' /\ FileOwned'
    BY <1>2 DEF IInv, RestartsBind, FileOwned, Parents, Spawn, Announce, Notify, Alive, Binds
  <2> QED  BY <2>1, <2>3, <2>4, <2>5 DEF IInv
<1> QED  BY <1>1, <1>2

LEMMA ListenKeeps == ASSUME IInv, Listen PROVE IInv'
<1>0. app = "starting" /\ "app" \in Alive /\ Handled = {}
  BY DEF Listen, Alive, IInv, Serves
<1>1. CASE app' = "listening"
  BY <1>0, <1>1 DEF IInv, TypeOK, RestartsBind, Parents, Serves,
                    Holders, FileOwned, Listen, Ends, Alive, Handled, AppEnds, Binds, bounds
<1>2. CASE Binds /\ path /\ Ends("bind") /\ UNCHANGED path
  BY <1>0, <1>2, EndKeeps DEF Listen, AppEnds
<1>3. CASE Ends("crash") /\ UNCHANGED path
  BY <1>0, <1>3, EndKeeps DEF Listen, AppEnds
<1> QED  BY <1>1, <1>2, <1>3 DEF Listen

\* The listener is closed, by Serve or by Shutdown.
LEMMA ClosingKeeps == ASSUME IInv, Serve \/ Stop \/ Shutdown PROVE IInv'
<1>1. CASE Close
  <2>1. /\ request' \in [Requests -> Places]
        /\ Handled' = Handled /\ held' \subseteq held
        /\ held \ {"app"} \subseteq held'
    <3>1. CASE Lose(held \ {"app"}, "")
      BY <3>1, CloseKeeps DEF IInv, Lose
    <3>2. CASE UNCHANGED <<held, request>>
      BY <3>2 DEF IInv, TypeOK, Places, Handled
    <3> QED  BY <1>1, <3>1, <3>2 DEF Close, Release
  <2>2. TypeOK'
    BY <1>1, <2>1, ZenonT(60) DEF IInv, TypeOK, Serve, Stop, Shutdown, Close, Unlink, Alive, Places,
                      AppEnds, bounds
  <2>3. RestartsBind' /\ Parents' /\ Serves' /\ FileOwned'
    BY <1>1, <2>1 DEF IInv, TypeOK, RestartsBind, Parents, Serves, FileOwned, Serve, Stop,
                      Shutdown, Close, Unlink, Binds, Alive, bounds
  <2>4. Holders'
    BY <1>1, <2>1 DEF IInv, Serves, Holders, Serve, Stop, Shutdown, Alive
  <2> QED  BY <2>2, <2>3, <2>4 DEF IInv
<1>2. CASE ~Close
  BY <1>2, ZenonT(60) DEF IInv, TypeOK, RestartsBind, Parents, Serves, Holders, FileOwned,
              Serve, Stop, Shutdown, Alive, Handled, AppEnds, Binds, bounds
<1> QED  BY <1>1, <1>2

\* The application has ended and its parent lets go of the socket.
LEMMA AbandonKeeps == ASSUME IInv, Abandon PROVE IInv'
<1>1. /\ held' = {} /\ Lose({}, "") /\ app = "over" /\ pushup = "running"
      /\ UNCHANGED <<way, unix, app, serve, path, starts, signals>>
      /\ \/ UNCHANGED <<pushup, ends>>
         \/ pushup' = "gone" /\ ends' = ends \cup {"pushup"}
  BY DEF Abandon, Lose, bounds
<1>2. request' \in [Requests -> Places] /\ Handled' = Handled
  BY <1>1, CloseKeeps DEF IInv
<1>3. TypeOK'
  BY <1>1, <1>2 DEF IInv, TypeOK, Places
<1>4. RestartsBind' /\ Parents' /\ Serves' /\ Holders'
  BY <1>1, <1>2 DEF IInv, RestartsBind, Parents, Serves, Holders
<1>5. FileOwned'
  BY <1>1 DEF IInv, FileOwned, Alive, Binds
<1> QED  BY <1>3, <1>4, <1>5 DEF IInv

\* main returns, or the process crashes.
LEMMA OverKeeps ==
  ASSUME IInv, Drained \/ DrainTimesOut \/ \E r \in Requests : Crash(r)
  PROVE  IInv'
<1>1. CASE Drained
  BY <1>1, EndKeeps DEF Drained, Exit, Alive, AppEnds
<1>2. CASE DrainTimesOut
  BY <1>2, EndKeeps DEF DrainTimesOut, Exit, Alive, AppEnds
<1>3. ASSUME NEW r \in Requests, Crash(r) PROVE IInv'
  <2>1. "app" \in Alive  BY <1>3 DEF Crash, IInv, Serves, Handled, Alive
  <2> QED  BY <1>3, <2>1, EndKeeps DEF Crash, AppEnds
<1> QED  BY <1>1, <1>2, <1>3

LEMMA NextKeeps == IInv /\ [Next]_vars => IInv'
<1> SUFFICES ASSUME IInv, [Next]_vars PROVE IInv'  OBVIOUS
<1>1. CASE UNCHANGED vars
  BY <1>1 DEF vars, IInv, TypeOK, RestartsBind, Parents, Serves, Holders,
              FileOwned, Alive, Handled, Binds
<1>2. CASE Next
  BY <1>2, MoveKeeps, SignalKeeps, StartKeeps, AbandonKeeps, ListenKeeps,
     ClosingKeeps, OverKeeps
  DEF Next, Steps
<1> QED  BY <1>1, <1>2

LEMMA Inductive == Spec => []IInv
  BY InitKeeps, NextKeeps, PTL DEF Spec

\* Of a server for any set of requests, restarted any number of times.
THEOREM TypeCorrect == Spec => []TypeOK
<1>1. IInv => TypeOK  BY DEF IInv
<1> QED  BY <1>1, Inductive, PTL

\* One step turns no waiting client away from a socket that another process
\* still holds.
LEMMA StepKeepsClients ==
  ASSUME IInv, [Next]_vars, NEW r \in Requests, request[r] = "queued",
         \/ "pushup" \in Alive \cap Alive' /\ app # "over"
         \/ serve = "accepting" /\ serve' = "accepting"
  PROVE  request'[r] # "reset"
<1> DEFINE other == IF serve = "accepting" /\ serve' = "accepting" THEN "app"
                    ELSE "pushup"
<1>1. other \in held
  BY DEF IInv, Holders
<1>2. ASSUME NEW h, NEW e, Lose(h, e), other \in h
      PROVE  request'[r] # "reset"
  BY <1>2, QueueKept DEF IInv
<1>3. CASE UNCHANGED request
  BY <1>3
<1>4. ASSUME NEW e \in AppEnds, Ends(e)
      PROVE  request'[r] # "reset"
  <2>1. serve' # "accepting" /\ Lose(held \ {"app"}, e)
    BY <1>4 DEF Ends
  <2> QED  BY <1>1, <1>2, <2>1
<1>5. CASE Close /\ serve' # "accepting"
  BY <1>1, <1>2, <1>3, <1>5 DEF Close, Release
<1>6. CASE \E S \in SUBSET {"pushup", "app"} : Signal(S)
  <2>1. PICK S \in SUBSET {"pushup", "app"} : Signal(S)
    BY <1>6
  <2>2. CASE "app" \in S /\ app \notin {"waiting", "stopping"}
    <3>1. serve' # "accepting" /\ "pushup" \notin S
      BY <2>1, <2>2 DEF Signal, Alive
    <3> QED  BY <1>1, <1>2, <2>1, <2>2, <3>1 DEF Signal
  <2>3. CASE ~("app" \in S /\ app \notin {"waiting", "stopping"})
    <3>1. other = "app" \/ "pushup" \notin S
      BY <2>1 DEF Signal, Alive
    <3> QED  BY <1>1, <1>2, <2>1, <2>3, <3>1 DEF Signal
  <2> QED  BY <2>2, <2>3
<1>7. CASE Start \/ Abandon
  BY <1>3, <1>7 DEF Start, Abandon, Alive, IInv, Serves
<1>8. CASE \E q \in Requests : \/ Connect(q) \/ Accept(q) \/ Answer(q)
                              \/ TimeOut(q) \/ Finish(q)
  BY <1>8 DEF Connect, Accept, Answer, TimeOut, Finish, Move, IInv, TypeOK
<1> QED
  BY <1>3, <1>4, <1>5, <1>6, <1>7, <1>8
  DEF Next, Steps, vars, Spawn, Listen, Announce, Notify, Serve, Stop, Shutdown,
      Drained, DrainTimesOut, Exit, Crash, AppEnds

\* A socket that pushup run and its application share is not closed under the
\* clients that wait in it when one of the two ends or closes its copy.
THEOREM SharedSockets == Spec => SharedSocketKeepsClients
<1>1. IInv /\ [Next]_vars =>
        [\A r \in Requests :
           /\ request[r] = "queued"
           /\ \/ "pushup" \in Alive \cap Alive' /\ app # "over"
              \/ serve = "accepting" /\ serve' = "accepting"
           => request'[r] # "reset"]_vars
  BY StepKeepsClients
<1> QED  BY <1>1, Inductive, PTL DEF Spec, SharedSocketKeepsClients

\* A Unix socket's path is free when it is needed, but for processes that were
\* killed or crashed, and for pushup run.
THEOREM SocketsAreFreed == Spec => []RestartsBind
<1>1. IInv => RestartsBind  BY DEF IInv
<1> QED  BY <1>1, Inductive, PTL
=============================================================================
