---------------------------- MODULE DevLoopProofs ----------------------------
(* Theorems about the dev server's loop, for every tree of files and every *)
(* number of edits and interrupts.                                         *)
EXTENDS DevLoop, TLAPS

LEMMA ItersType == /\ MaxIter \in Nat
                   /\ \A i : i \in Iters <=> i \in Nat /\ 1 <= i /\ i <= MaxIter
  BY DevAssumption DEF MaxIter, Iters

LEMMA InitInv == Init => IInv
  <1> SUFFICES ASSUME Init PROVE IInv
    OBVIOUS
  <1>1. TypeOK
    <2>1. /\ edits \in 0..MaxEdits
          /\ signals \in 0..MaxSignals
          /\ iter \in 0..MaxIter
      BY DevAssumption, ItersType DEF Init
    <2>2. /\ watcher \in [Iters -> {"none", "open", "closed"}]
          /\ bouncing \in [Iters -> BOOLEAN]
          /\ events \in [Iters -> SUBSET Paths]
          /\ armed \in [Iters -> SUBSET Paths]
      BY DEF Init
    <2>3. /\ watched \in [Iters -> SUBSET Dirs]
          /\ walking \in [Iters -> SUBSET Dirs]
          /\ sending \in [Iters -> SUBSET Files]
          /\ closing \in [Iters -> SUBSET Files]
      BY DEF Init
    <2>4. exists \subseteq Paths
      BY DevAssumption DEF Init, Paths
    <2> QED
      BY <2>1, <2>2, <2>3, <2>4 DEF Init, TypeOK, LoopAt
  <1>2. OneApp /\ CrashNeedsReload /\ Pending /\ Closings /\ Walked
    BY DEF Init, OneApp, CrashNeedsReload, Pending, Closings, Walked
  <1>3. Iterations
    BY DEF Init, Iterations, Idle
  <1> QED
    BY <1>1, <1>2, <1>3 DEF IInv

-----------------------------------------------------------------------------
(* Steps: one lemma per part of the invariant. *)

LEMMA TypeStep == IInv /\ [Next]_vars => TypeOK'
  <1> SUFFICES ASSUME IInv, [Next]_vars PROVE TypeOK'
    OBVIOUS
  <1> USE DevAssumption DEF IInv, TypeOK, Paths, LoopAt, disk, main, ctx,
       watch, timer
  <1>1. CASE UNCHANGED vars
    BY <1>1 DEF vars
  <1>2. CASE Begin
    <2>1. iter' \in 0..MaxIter
      BY <1>2, ItersType DEF Begin
    <2> QED
      BY <1>2, <2>1 DEF Begin
  <1>3. CASE Scan \/ CompileDone \/ Build \/ BuildFails \/ WatchFails \/ WalkDone
    BY <1>3 DEF Scan, CompileDone, Build, BuildFails, WatchFails, WalkDone
  <1>4. CASE Watch
    BY <1>4, ZenonT(60) DEF Watch
  <1>5. CASE StartApp \/ KillApp \/ AppExits \/ RunReturns \/ CheckCause
    BY <1>5, ZenonT(60) DEF StartApp, KillApp, AppExits, RunReturns, CheckCause
  <1>6. ASSUME NEW p \in Files, CompileFile(p)
        PROVE  TypeOK'
    BY <1>6 DEF CompileFile
  <1>7. ASSUME NEW d \in Dirs, WalkDir(d)
        PROVE  TypeOK'
    BY <1>7 DEF WalkDir, Subdirs
  <1>8. CASE SelectSignal \/ Cancel
    <2>1. CASE SelectSignal
      BY <2>1 DEF SelectSignal
    <2>2. CASE Cancel
      BY <2>2 DEF Cancel
    <2> HIDE DEF TypeOK
    <2> QED
      BY <1>8, <2>1, <2>2
  <1>9. ASSUME NEW p \in Files, SelectReload(p)
        PROVE  TypeOK'
    BY <1>9 DEF SelectReload
  <1>10. CASE Interrupt
    <2>1. signals' \in 0..MaxSignals
      BY <1>10 DEF Interrupt
    <2>2. loop' \in LoopAt /\ caught' \in BOOLEAN
      BY <1>10 DEF Interrupt
    <2> QED
      BY <1>10, <2>1, <2>2 DEF Interrupt
  <1>11. ASSUME NEW p \in Files, Edit(p)
         PROVE  TypeOK'
    <2>1. events' \in [Iters -> SUBSET (Files \cup Dirs)]
      BY <1>11 DEF Edit, Tell
    <2> QED
      BY <1>11, <2>1 DEF Edit
  <1>12. ASSUME NEW d \in Dirs \ {Root}, MakeDir(d)
         PROVE  TypeOK'
    <2>1. events' \in [Iters -> SUBSET (Files \cup Dirs)]
      BY <1>12 DEF MakeDir, Tell
    <2> QED
      BY <1>12, <2>1 DEF MakeDir
  <1>13. ASSUME NEW i \in Iters, NEW p \in Files \cup Dirs,
                Take(i, p) \/ Fire(i, p)
         PROVE  TypeOK'
    BY <1>13 DEF Take, Fire
  <1>14. ASSUME NEW i \in Iters, BounceReturns(i) \/ AddFails(i)
         PROVE  TypeOK'
    <2>1. CASE BounceReturns(i)
      BY <2>1 DEF BounceReturns
    <2>2. CASE AddFails(i)
      BY <2>2 DEF AddFails
    <2> HIDE DEF TypeOK
    <2> QED
      BY <1>14, <2>1, <2>2
  <1>15. ASSUME NEW i \in Iters, NEW d \in Dirs, AddDir(i, d)
         PROVE  TypeOK'
    BY <1>15 DEF AddDir, Subdirs
  <1>16. ASSUME NEW i \in Iters, NEW p \in Files, CloseWatcher(i, p)
         PROVE  TypeOK'
    BY <1>16 DEF CloseWatcher
  <1> QED
    BY <1>1, <1>2, <1>3, <1>4, <1>5, <1>6, <1>7, <1>8, <1>9, <1>10, <1>11,
       <1>12, <1>13, <1>14, <1>15, <1>16
    DEF Next, MainStep, Failure, SelectStep, BounceStep, TimerStep,
       DeveloperStep

LEMMA OneAppStep == IInv /\ [Next]_vars => OneApp'
  <1> SUFFICES ASSUME IInv, [Next]_vars PROVE OneApp'
    OBVIOUS
  <1> USE DEF IInv, TypeOK, OneApp, disk, main, ctx, watch, timer
  <1>1. CASE UNCHANGED <<loop, child>>
    BY <1>1
  <1>2. CASE MainStep
    BY <1>2 DEF MainStep, Begin, Scan, CompileDone, Build, Watch, WalkDone,
       StartApp, RunReturns, CheckCause, CompileFile, WalkDir
  <1>3. CASE Failure \/ KillApp \/ AppExits
    BY <1>3 DEF Failure, BuildFails, WatchFails, AddFails, KillApp, AppExits,
       Ended
  <1>4. CASE Interrupt
    <2>1. CASE notify
      BY <1>1, <1>4, <2>1 DEF Interrupt
    <2>2. CASE ~notify
      <3>1. loop # "run" /\ ~Ended
        BY <1>4, <2>2 DEF Interrupt, Iterations
      <3>2. child # "running"
        BY <3>1 DEF Ended
      <3> QED
        BY <1>4, <3>2 DEF Interrupt
    <2> QED
      BY <2>1, <2>2
  <1>5. ASSUME NEW i \in Iters, NEW d \in Dirs, AddDir(i, d)
        PROVE  OneApp'
    BY <1>5 DEF AddDir, Ended
  <1> QED
    BY <1>1, <1>2, <1>3, <1>4, <1>5
    DEF Next, vars, SelectStep, DeveloperStep, BounceStep, TimerStep,
       SelectSignal, Cancel, SelectReload, Edit, MakeDir, BounceReturns, Take, Fire,
       CloseWatcher

LEMMA IterationsStep == IInv /\ [Next]_vars => Iterations'
  <1> SUFFICES ASSUME IInv, [Next]_vars PROVE Iterations'
    OBVIOUS
  <1> USE ItersType DEF IInv, TypeOK, Iterations, Idle, disk, main, ctx, watch,
       timer
  <1>1. CASE UNCHANGED vars
    BY <1>1 DEF vars
  <1>2. CASE Begin
    BY <1>2 DEF Begin
  <1>3. CASE Scan \/ CompileDone \/ Build \/ BuildFails \/ WatchFails \/ WalkDone
    BY <1>3 DEF Scan, CompileDone, Build, BuildFails, WatchFails, WalkDone
  <1>4. CASE Watch
    BY <1>4 DEF Watch
  <1>5. CASE StartApp \/ KillApp \/ AppExits \/ RunReturns \/ CheckCause
    BY <1>5 DEF StartApp, KillApp, AppExits, RunReturns, CheckCause
  <1>6. ASSUME NEW p \in Files, CompileFile(p)
        PROVE  Iterations'
    BY <1>6 DEF CompileFile
  <1>7. ASSUME NEW d \in Dirs, WalkDir(d)
        PROVE  Iterations'
    BY <1>7 DEF WalkDir
  <1>8. CASE SelectSignal \/ Cancel \/ Interrupt
    BY <1>8 DEF SelectSignal, Cancel, Interrupt
  <1>9. ASSUME NEW p \in Files, SelectReload(p)
        PROVE  Iterations'
    BY <1>9 DEF SelectReload
  <1>10. ASSUME NEW p, Tell(p), UNCHANGED <<main, ctx, watcher, watched, timer>>
         PROVE  Iterations'
    <2>1. \A i \in Iters : Idle(i) => Idle(i)'
      BY <1>10 DEF Tell, Told
    <2> QED
      BY <1>10, <2>1
  <1>11. CASE (\E p \in Files : Edit(p)) \/ (\E d \in Dirs \ {Root} : MakeDir(d))
    BY <1>10, <1>11 DEF Edit, MakeDir
  <1>12. ASSUME NEW i \in Iters, NEW p \in Files \cup Dirs,
                Take(i, p) \/ Fire(i, p)
         PROVE  Iterations'
    BY <1>12 DEF Take, Fire
  <1>13. ASSUME NEW i \in Iters, BounceReturns(i) \/ AddFails(i)
         PROVE  Iterations'
    BY <1>13 DEF BounceReturns, AddFails
  <1>14. ASSUME NEW i \in Iters, NEW d \in Dirs, AddDir(i, d)
         PROVE  Iterations'
    BY <1>14 DEF AddDir
  <1>15. ASSUME NEW i \in Iters, NEW p \in Files, CloseWatcher(i, p)
         PROVE  Iterations'
    BY <1>15 DEF CloseWatcher
  <1> QED
    BY <1>1, <1>2, <1>3, <1>4, <1>5, <1>6, <1>7, <1>8, <1>9, <1>11, <1>12,
       <1>13, <1>14, <1>15
    DEF Next, MainStep, Failure, SelectStep, BounceStep, TimerStep,
       DeveloperStep

LEMMA PendingStep == IInv /\ [Next]_vars => Pending'
  <1> SUFFICES ASSUME IInv, [Next]_vars PROVE Pending'
    OBVIOUS
  <1> USE ItersType, DevAssumption
      DEF IInv, TypeOK, Pending, disk, main, ctx, watch, timer
  <1>1. CASE UNCHANGED vars
    BY <1>1 DEF vars
  <1>2. CASE Begin \/ Scan \/ CompileDone \/ Build \/ BuildFails \/ WatchFails
          \/ WalkDone
    BY <1>2 DEF Begin, Scan, CompileDone, Build, BuildFails, WatchFails,
       WalkDone
  <1>3. CASE Watch
    BY <1>3 DEF Watch, Iterations, Idle
  <1>4. CASE StartApp \/ KillApp \/ AppExits \/ RunReturns \/ CheckCause
    BY <1>4 DEF StartApp, KillApp, AppExits, RunReturns, CheckCause
  <1>5. ASSUME NEW p \in Files, CompileFile(p)
        PROVE  Pending'
    BY <1>5 DEF CompileFile
  <1>6. ASSUME NEW d \in Dirs, WalkDir(d)
        PROVE  Pending'
    BY <1>6 DEF WalkDir
  <1>7. CASE SelectSignal \/ Cancel \/ Interrupt
    BY <1>7 DEF SelectSignal, Cancel, Interrupt
  <1>8. ASSUME NEW p \in Files, SelectReload(p)
        PROVE  Pending'
    BY <1>8 DEF SelectReload
  <1>9. ASSUME NEW p \in Files, Edit(p)
        PROVE  Pending'
    BY <1>9 DEF Edit, Tell, Iterations
  <1>10. ASSUME NEW d \in Dirs \ {Root}, MakeDir(d)
         PROVE  Pending'
    BY <1>10 DEF MakeDir, Tell, Iterations
  <1>11. ASSUME NEW i \in Iters, NEW p \in Files \cup Dirs,
                Take(i, p) \/ Fire(i, p)
         PROVE  Pending'
    BY <1>11 DEF Take, Fire, Iterations
  <1>12. ASSUME NEW i \in Iters, BounceReturns(i) \/ AddFails(i)
         PROVE  Pending'
    BY <1>12 DEF BounceReturns, AddFails
  <1>13. ASSUME NEW i \in Iters, NEW d \in Dirs, AddDir(i, d)
         PROVE  Pending'
    BY <1>13 DEF AddDir
  <1>14. ASSUME NEW i \in Iters, NEW p \in Files, CloseWatcher(i, p)
         PROVE  Pending'
    BY <1>14 DEF CloseWatcher, Iterations
  <1> QED
    BY <1>1, <1>2, <1>3, <1>4, <1>5, <1>6, <1>7, <1>8, <1>9, <1>10, <1>11,
       <1>12, <1>13, <1>14
    DEF Next, MainStep, Failure, SelectStep, BounceStep, TimerStep,
       DeveloperStep

LEMMA ClosingsStep == IInv /\ [Next]_vars => Closings' /\ CrashNeedsReload'
  <1> SUFFICES ASSUME IInv, [Next]_vars PROVE Closings' /\ CrashNeedsReload'
    OBVIOUS
  <1> USE ItersType DEF IInv, TypeOK, Closings, CrashNeedsReload, Received, disk,
       main, ctx, watch, timer
  <1>1. CASE UNCHANGED vars
    BY <1>1 DEF vars
  <1>2. CASE Begin
    BY <1>2 DEF Begin, Iterations, Idle
  <1>3. CASE Scan \/ CompileDone \/ Build \/ BuildFails \/ WatchFails \/ WalkDone
    BY <1>3 DEF Scan, CompileDone, Build, BuildFails, WatchFails, WalkDone
  <1>4. CASE Watch
    BY <1>4 DEF Watch, Iterations, Idle
  <1>5. CASE StartApp \/ KillApp \/ AppExits \/ RunReturns \/ CheckCause
    BY <1>5 DEF StartApp, KillApp, AppExits, RunReturns, CheckCause
  <1>6. ASSUME NEW p \in Files, CompileFile(p)
        PROVE  Closings' /\ CrashNeedsReload'
    BY <1>6 DEF CompileFile
  <1>7. ASSUME NEW d \in Dirs, WalkDir(d)
        PROVE  Closings' /\ CrashNeedsReload'
    <2>1. iter \in Iters /\ watcher[iter] # "none"
      BY <1>7 DEF WalkDir, Iterations, Walked
    <2> QED
      BY <1>7, <2>1 DEF WalkDir
  <1>8. CASE SelectSignal \/ Cancel \/ Interrupt
    BY <1>8 DEF SelectSignal, Cancel, Interrupt, Ended
  <1>9. ASSUME NEW p \in Files, SelectReload(p)
        PROVE  Closings' /\ CrashNeedsReload'
    BY <1>9 DEF SelectReload, Ended, Iterations, Idle
  <1>10. CASE (\E p \in Files : Edit(p)) \/ (\E d \in Dirs \ {Root} : MakeDir(d))
    BY <1>10 DEF Edit, MakeDir, Ended
  <1>11. ASSUME NEW i \in Iters, NEW p \in Files \cup Dirs,
                Take(i, p) \/ Fire(i, p)
         PROVE  Closings' /\ CrashNeedsReload'
    BY <1>11 DEF Take, Fire, Ended
  <1>12. ASSUME NEW i \in Iters, BounceReturns(i) \/ AddFails(i)
         PROVE  Closings' /\ CrashNeedsReload'
    BY <1>12 DEF BounceReturns, AddFails
  <1>13. ASSUME NEW i \in Iters, NEW d \in Dirs, AddDir(i, d)
         PROVE  Closings' /\ CrashNeedsReload'
    BY <1>13 DEF AddDir, Walked
  <1>14. ASSUME NEW i \in Iters, NEW p \in Files, CloseWatcher(i, p)
         PROVE  Closings' /\ CrashNeedsReload'
    BY <1>14 DEF CloseWatcher, Ended
  <1> QED
    BY <1>1, <1>2, <1>3, <1>4, <1>5, <1>6, <1>7, <1>8, <1>9, <1>10, <1>11,
       <1>12, <1>13, <1>14
    DEF Next, MainStep, Failure, SelectStep, BounceStep, TimerStep,
       DeveloperStep

LEMMA WalkedStep == IInv /\ [Next]_vars => Walked'
  <1> SUFFICES ASSUME IInv, [Next]_vars PROVE Walked'
    OBVIOUS
  <1> USE ItersType DEF IInv, TypeOK, Walked, disk, main, ctx, watch, timer
  <1>1. CASE UNCHANGED vars
    BY <1>1 DEF vars
  <1>2. CASE Begin \/ Scan \/ CompileDone \/ Build \/ BuildFails \/ WatchFails
          \/ WalkDone
    BY <1>2 DEF Begin, Scan, CompileDone, Build, BuildFails, WatchFails,
       WalkDone
  <1>3. CASE Watch
    BY <1>3 DEF Watch, Iterations
  <1>4. CASE StartApp \/ KillApp \/ AppExits \/ RunReturns \/ CheckCause
    BY <1>4 DEF StartApp, KillApp, AppExits, RunReturns, CheckCause
  <1>5. ASSUME NEW p \in Files, CompileFile(p)
        PROVE  Walked'
    BY <1>5 DEF CompileFile
  <1>6. ASSUME NEW d \in Dirs, WalkDir(d)
        PROVE  Walked'
    BY <1>6 DEF WalkDir
  <1>7. CASE SelectSignal \/ Cancel \/ Interrupt
    BY <1>7 DEF SelectSignal, Cancel, Interrupt
  <1>8. ASSUME NEW p \in Files, SelectReload(p)
        PROVE  Walked'
    BY <1>8 DEF SelectReload
  <1>9. CASE (\E p \in Files : Edit(p)) \/ (\E d \in Dirs \ {Root} : MakeDir(d))
    BY <1>9 DEF Edit, MakeDir
  <1>10. ASSUME NEW i \in Iters, NEW p \in Files \cup Dirs,
                Take(i, p) \/ Fire(i, p)
         PROVE  Walked'
    BY <1>10 DEF Take, Fire
  <1>11. ASSUME NEW i \in Iters, BounceReturns(i) \/ AddFails(i)
         PROVE  Walked'
    BY <1>11 DEF BounceReturns, AddFails
  <1>12. ASSUME NEW i \in Iters, NEW d \in Dirs, AddDir(i, d)
         PROVE  Walked'
    BY <1>12 DEF AddDir
  <1>13. ASSUME NEW i \in Iters, NEW p \in Files, CloseWatcher(i, p)
         PROVE  Walked'
    BY <1>13 DEF CloseWatcher
  <1> QED
    BY <1>1, <1>2, <1>3, <1>4, <1>5, <1>6, <1>7, <1>8, <1>9, <1>10, <1>11,
       <1>12, <1>13
    DEF Next, MainStep, Failure, SelectStep, BounceStep, TimerStep,
       DeveloperStep
-----------------------------------------------------------------------------
(* The theorems. *)

\* The inductive invariant holds in every behaviour.
THEOREM Invariance == Spec => []IInv
  <1>1. IInv /\ [Next]_vars => IInv'
    BY TypeStep, OneAppStep, IterationsStep, PendingStep, ClosingsStep,
       WalkedStep DEF IInv
  <1> QED
    BY <1>1, InitInv, PTL DEF Spec

\* Every variable of the dev server keeps its type (runCmd.do and all its
\* goroutines), for every tree of files.
THEOREM TypeCorrect == Spec => []TypeOK
  <1>1. IInv => TypeOK
    BY DEF IInv
  <1> QED
    BY <1>1, Invariance, PTL

\* runProject waits for the process it has started before runCmd.do goes on:
\* the project is never compiled while an application of it runs.
THEOREM OneAppAtATime == Spec => []OneApp
  <1>1. IInv => OneApp
    BY DEF IInv
  <1> QED
    BY <1>1, Invariance, PTL

\* A cancellation by the file watcher is due to a file that has changed since
\* it was compiled: the timers of earlier iterations, which debounceEvents
\* never stops, cannot restart a later iteration.
THEOREM RestartsAreDue == Spec => []RestartsHaveReasons
  <1>1. IInv => RestartsHaveReasons
    BY DEF IInv, TypeOK, Iterations, Pending, RestartsHaveReasons
  <1> QED
    BY <1>1, Invariance, PTL

\* The panic on adding to a closed watcher needs a change that the watcher's
\* iteration has received: interrupts, new directories and the timers of other
\* iterations cannot close a watcher, so a dev server whose files do not change
\* is not killed by it.
THEOREM CrashesFollowReloads == Spec => []CrashNeedsReload
  <1>1. IInv => CrashNeedsReload
    BY DEF IInv
  <1> QED
    BY <1>1, Invariance, PTL
=============================================================================
