-------------------------- MODULE LiveReloadProofs --------------------------
(* Theorems about the reloading of pages, for any number of tabs, pages    *)
(* and builds.                                                             *)
EXTENDS LiveReload, TLAPS

LEMMA LoadsType == /\ MaxLoads \in Nat
                   /\ MaxOpens <= MaxLoads /\ 1 <= MaxBuilds
                   /\ \A k \in Conns : /\ k[1] \in Tabs
                                       /\ k[2] \in 1..MaxLoads
                                       /\ k = <<k[1], k[2]>>
                   /\ \A t \in Tabs : \A n \in 1..MaxLoads : <<t, n>> \in Conns
  BY ReloadAssumption DEF MaxLoads, Conns

LEMMA InitInv == Init => IInv
  BY LoadsType, ReloadAssumption
  DEF Init, IInv, TypeOK, OneEvent, Unserved, Woken, Gone

-----------------------------------------------------------------------------
(* Steps: one lemma per part of the invariant. *)

LEMMA TypeStep == IInv /\ [Next]_vars => TypeOK' /\ OneEvent'
  <1> SUFFICES ASSUME IInv, [Next]_vars PROVE TypeOK' /\ OneEvent'
    OBVIOUS
  <1> USE ReloadAssumption, LoadsType DEF IInv, TypeOK, OneEvent
  <1>1. CASE UNCHANGED vars
    BY <1>1 DEF vars
  <1>2. CASE BuildComplete
    BY <1>2 DEF BuildComplete
  <1>3. CASE AppStarts
    BY <1>3 DEF AppStarts
  <1>4. ASSUME NEW T \in SUBSET Tabs, Kill(T)
        PROVE  TypeOK' /\ OneEvent'
    BY <1>4 DEF Kill
  <1>5. ASSUME NEW t \in Tabs, Open(t) \/ Reload(t)
        PROVE  TypeOK' /\ OneEvent'
    <2>1. load[t] + 1 \in 0..MaxLoads
      BY <1>5 DEF Open, Reload
    <2>2. Navigate(t)
      BY <1>5 DEF Open, Reload
    <2> QED
      BY <2>1, <2>2 DEF Navigate
  <1>6. ASSUME NEW t \in Tabs, Close(t)
        PROVE  TypeOK' /\ OneEvent'
    BY <1>6 DEF Close
  <1>7. ASSUME NEW t \in Tabs, NEW script \in BOOLEAN, Serve(t, script)
        PROVE  TypeOK' /\ OneEvent'
    BY <1>7 DEF Serve
  <1>8. ASSUME NEW k \in Conns, Connect(k)
        PROVE  TypeOK' /\ OneEvent'
    BY <1>8 DEF Connect, Unserved
  <1>9. ASSUME NEW k \in Conns, Wait(k) \/ Disconnect(k) \/ Quit(k)
        PROVE  TypeOK' /\ OneEvent'
    BY <1>9 DEF Wait, Disconnect, Quit
  <1>10. ASSUME NEW k \in Conns, Hand(k)
         PROVE  TypeOK' /\ OneEvent'
    BY <1>10 DEF Hand
  <1>11. ASSUME NEW k \in Conns, Flush(k)
         PROVE  TypeOK' /\ OneEvent'
    BY <1>11 DEF Flush
  <1> QED
    BY <1>1, <1>2, <1>3, <1>4, <1>5, <1>6, <1>7, <1>8, <1>9, <1>10, <1>11
    DEF Next, LoopStep, TabStep, ConnStep, ReturnStep

LEMMA UnservedStep == IInv /\ [Next]_vars => Unserved'
  <1> SUFFICES ASSUME IInv, [Next]_vars PROVE Unserved'
    OBVIOUS
  <1> USE ReloadAssumption, LoadsType DEF IInv, TypeOK, Unserved
  <1>1. CASE UNCHANGED vars
    BY <1>1 DEF vars
  <1>2. CASE LoopStep
    <2>1. UNCHANGED <<tab, load, handler>>
      BY <1>2 DEF LoopStep, BuildComplete, AppStarts
    <2>2. \A k \in Conns : waiter'[k] = "none" <=> waiter[k] = "none"
      BY <1>2 DEF LoopStep, BuildComplete, AppStarts
    <2> QED
      BY <2>1, <2>2
  <1>3. ASSUME NEW T \in SUBSET Tabs, Kill(T)
        PROVE  Unserved'
    BY <1>3 DEF Kill
  <1>4. ASSUME NEW t \in Tabs, Open(t) \/ Reload(t)
        PROVE  Unserved'
    <2>1. Navigate(t)
      BY <1>4 DEF Open, Reload
    <2>2. \A u \in Tabs : tab'[u] \in {"loading", "live"} => load'[u] >= 1
      BY <2>1 DEF Navigate
    <2>3. \A k \in Conns : k[2] >= load'[k[1]] /\ k[1] = t => handler[k] = "none"
      BY <2>1 DEF Navigate
    <2>4. \A k \in Conns : k[1] # t => /\ load'[k[1]] = load[k[1]]
                                      /\ tab'[k[1]] = tab[k[1]]
      BY <2>1 DEF Navigate
    <2> QED
      BY <2>1, <2>2, <2>3, <2>4 DEF Navigate
  <1>5. ASSUME NEW t \in Tabs, Close(t)
        PROVE  Unserved'
    BY <1>5 DEF Close
  <1>6. ASSUME NEW t \in Tabs, NEW script \in BOOLEAN, Serve(t, script)
        PROVE  Unserved'
    BY <1>6 DEF Serve
  <1>7. ASSUME NEW k \in Conns, Connect(k)
        PROVE  Unserved'
    BY <1>7 DEF Connect, Gone
  <1>8. ASSUME NEW k \in Conns, Wait(k) \/ Disconnect(k) \/ Quit(k)
        PROVE  Unserved'
    BY <1>8 DEF Wait, Disconnect, Quit
  <1>9. ASSUME NEW k \in Conns, Hand(k) \/ Flush(k)
        PROVE  Unserved'
    BY <1>9 DEF Hand, Flush
  <1> QED
    BY <1>1, <1>2, <1>3, <1>4, <1>5, <1>6, <1>7, <1>8, <1>9
    DEF Next, TabStep, ConnStep, ReturnStep

LEMMA WokenStep == IInv /\ [Next]_vars => Woken'
  <1> SUFFICES ASSUME IInv, [Next]_vars PROVE Woken'
    OBVIOUS
  <1> USE ReloadAssumption, LoadsType DEF IInv, TypeOK, Woken, Gone
  <1>1. CASE UNCHANGED vars
    BY <1>1 DEF vars
  <1>2. CASE LoopStep
    BY <1>2 DEF LoopStep, BuildComplete, AppStarts
  <1>3. ASSUME NEW T \in SUBSET Tabs, Kill(T)
        PROVE  Woken'
    BY <1>3 DEF Kill
  <1>4. ASSUME NEW t \in Tabs, Open(t) \/ Reload(t) \/ Close(t)
        PROVE  Woken'
    BY <1>4, SMTT(60) DEF Open, Reload, Navigate, Close
  <1>5. ASSUME NEW t \in Tabs, NEW script \in BOOLEAN, Serve(t, script)
        PROVE  Woken'
    BY <1>5 DEF Serve, Unserved
  <1>6. ASSUME NEW k \in Conns, Connect(k) \/ Wait(k) \/ Disconnect(k)
        PROVE  Woken'
    BY <1>6 DEF Connect, Wait, Disconnect
  <1>7. ASSUME NEW k \in Conns, Hand(k) \/ Flush(k) \/ Quit(k)
        PROVE  Woken'
    BY <1>7 DEF Hand, Flush, Quit
  <1> QED
    BY <1>1, <1>2, <1>3, <1>4, <1>5, <1>6, <1>7
    DEF Next, TabStep, ConnStep, ReturnStep
-----------------------------------------------------------------------------
(* The theorems. *)

\* The inductive invariant holds in every behaviour.
THEOREM Invariance == Spec => []IInv
  <1>1. IInv /\ [Next]_vars => IInv'
    BY TypeStep, UnservedStep, WokenStep DEF IInv
  <1> QED
    BY <1>1, InitInv, PTL DEF Spec

\* The variables of the proxy and the browser keep their types.
THEOREM TypeCorrect == Spec => []TypeOK
  <1>1. IInv => TypeOK
    BY DEF IInv
  <1> QED
    BY <1>1, Invariance, PTL

\* devReloader writes one reload event to a connection at most, when its
\* goroutine has ended.
THEOREM OneEventEach == Spec => []OneEvent
  <1>1. IInv => OneEvent
    BY DEF IInv
  <1> QED
    BY <1>1, Invariance, PTL

\* devReloader tells a page to reload only after a build newer than the page,
\* so a reloaded page does not reload again by itself.
THEOREM NoLoops == Spec => []NoReloadLoop
  <1>1. IInv => NoReloadLoop
    BY LoadsType DEF IInv, TypeOK, OneEvent, Woken, NoReloadLoop, Current, Gone
  <1> QED
    BY <1>1, Invariance, PTL
=============================================================================
