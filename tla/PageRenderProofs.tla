-------------------------- MODULE PageRenderProofs --------------------------
(* Theorems about one page request, for every set of section names and     *)
(* every set of layouts.                                                   *)
EXTENDS PageRender, FiniteSetTheorems, TLAPS

LEMMA PartsFinite == IsFiniteSet(Parts)
  BY PartsAssumption, FS_AddElement DEF Parts

LEMMA NilPlanType == NilPlan \in Seq(LayoutOp) /\ Len(NilPlan) = 1
  BY DEF NilPlan, LayoutOp, Parts

\* The live parts can be counted, and the count follows a goroutine that
\* starts or ends.
LEMMA CountLive ==
  ASSUME NEW S \in SUBSET Parts
  PROVE  /\ IsFiniteSet(S)
         /\ Cardinality(S) \in Nat
         /\ \A p \in Parts \ S : Cardinality(S \cup {p}) = Cardinality(S) + 1
         /\ \A p \in S : /\ Cardinality(S \ {p}) = Cardinality(S) - 1
                         /\ Cardinality(S) > 0
         /\ Cardinality(S) = 0 => S = {}
  <1>1. IsFiniteSet(S)
    BY PartsFinite, FS_Subset
  <1>2. Cardinality(S) \in Nat
    BY <1>1, FS_CardinalityType
  <1>3. ASSUME NEW p \in Parts \ S
        PROVE  Cardinality(S \cup {p}) = Cardinality(S) + 1
    BY <1>1, <1>3, FS_AddElement
  <1>4. Cardinality(S) = 0 <=> S = {}
    BY <1>1, FS_EmptySet
  <1>5. ASSUME NEW p \in S
        PROVE  /\ Cardinality(S \ {p}) = Cardinality(S) - 1
               /\ Cardinality(S) > 0
    <2>1. Cardinality(S \ {p}) = Cardinality(S) - 1
      BY <1>1, <1>5, FS_RemoveElement
    <2>2. S # {}
      BY <1>5
    <2> QED
      BY <2>1, <2>2, <1>2, <1>4
  <1> QED
    BY <1>1, <1>2, <1>3, <1>4, <1>5

-----------------------------------------------------------------------------
(* Initial states. *)

LEMMA InitInv == Init => IInv
  <1> SUFFICES ASSUME Init PROVE IInv
    OBVIOUS
  <1>1. plan \in Seq(LayoutOp)
    <2>1. << >> \in Seq(LayoutOp)
      OBVIOUS
    <2> QED
      BY <2>1, NilPlanType, PartsAssumption DEF Init
  <1>2. Len(plan) \in Nat
    BY <1>1
  <1>3. defined \subseteq Parts /\ Contents \in defined
    BY DEF Init, Parts
  <1>4. TypeOK
    <2>1. part \in [Parts -> PartAt]
      BY DEF Init, PartAt
    <2>2. pos \in 1..(Len(plan) + 1)
      BY <1>2 DEF Init
    <2>3. kind \in {"nil", "generated", "missing"}
      BY DEF Init
    <2> QED
      BY <1>1, <1>3, <2>1, <2>2, <2>3 DEF Init, TypeOK, MainAt, LayoutAt
  <1>5. WaitCounts
    <2>1. LiveParts = {} /\ LiveLayout = 0
      BY DEF Init, LiveParts, LiveLayout
    <2> QED
      BY <2>1, FS_EmptySet DEF WaitCounts, Init
  <1>6. Stages
    BY <1>3 DEF Init, Stages
  <1>7. Progress
    BY <1>2, <1>3 DEF Init, Progress, Due
  <1>8. Endings
    BY <1>3 DEF Init, Endings
  <1>9. Replies /\ Causes
    BY DEF Init, Replies, Causes
  <1>10. ReturnsLast
    BY DEF Init, ReturnsLast, Returned
  <1> QED
    BY <1>4, <1>5, <1>6, <1>7, <1>8, <1>9, <1>10 DEF IInv

-----------------------------------------------------------------------------
(* Steps: one lemma per part of the invariant. *)

LEMMA WaitCountsStep == IInv /\ [Next]_vars => WaitCounts'
  <1> SUFFICES ASSUME IInv, [Next]_vars PROVE WaitCounts'
    OBVIOUS
  <1> USE DEF IInv, page, render, control, answer
  <1>0. /\ LiveParts \in SUBSET Parts
        /\ LiveLayout \in {0, 1}
        /\ part \in [Parts -> PartAt]
        /\ wg \in Nat
    BY DEF LiveParts, LiveLayout, TypeOK
  <1>1. ASSUME UNCHANGED wg, LiveParts' = LiveParts, LiveLayout' = LiveLayout
        PROVE  WaitCounts'
    BY <1>1 DEF WaitCounts
  <1>2. ASSUME UNCHANGED <<wg, layout, part>>
        PROVE  WaitCounts'
    BY <1>1, <1>2 DEF LiveParts, LiveLayout
  <1>3. CASE Handler \/ NoSuchLayout \/ Wait \/ WriteText \/ SkipSection
             \/ Expire \/ ServerStep \/ UNCHANGED vars
    BY <1>2, <1>3 DEF Handler, NoSuchLayout, Wait, WriteText, SkipSection,
       Expire, ServerStep, ReplyTimeout, ReplyDone, ReplyPanic, vars
  <1>4. CASE StartLayout
    <2>1. LiveLayout = 0 /\ LiveLayout' = 1 /\ LiveParts' = LiveParts
      BY <1>4 DEF StartLayout, Stages, LiveLayout, LiveParts
    <2> QED
      BY <1>4, <2>1, <1>0, CountLive DEF StartLayout, WaitCounts
  <1>5. ASSUME NEW p \in Parts, StartPart(p)
        PROVE  WaitCounts'
    <2>1. p \notin LiveParts /\ LiveParts' = LiveParts \cup {p}
      BY <1>5, <1>0 DEF StartPart, Stages, LiveParts
    <2>2. LiveLayout' = LiveLayout /\ wg' = wg + 1
      BY <1>5 DEF StartPart, LiveLayout
    <2> QED
      BY <2>1, <2>2, <1>0, CountLive DEF WaitCounts
  <1>6. CASE AskSection \/ GiveUp \/ LayoutReturns \/ LayoutCancels
    BY <1>1, <1>6 DEF AskSection, GiveUp, LayoutReturns, LayoutCancels,
       LiveParts, LiveLayout
  <1>7. CASE LayoutDone
    <2>1. LiveLayout = 1 /\ LiveLayout' = 0 /\ LiveParts' = LiveParts
      BY <1>7 DEF LayoutDone, LiveLayout, LiveParts
    <2> QED
      BY <1>7, <2>1, <1>0, CountLive DEF LayoutDone, WaitCounts
  <1>8. ASSUME NEW p \in Parts, Deliver(p)
        PROVE  WaitCounts'
    <2>1. UNCHANGED wg /\ LiveLayout' = LiveLayout
      BY <1>8 DEF Deliver, LiveLayout
    <2>2. LiveParts' = LiveParts
      BY <1>8, <1>0 DEF Deliver, LiveParts
    <2> QED
      BY <2>1, <2>2, <1>1
  <1>9. CASE LayoutFails
    <2>1. LiveParts' = {} /\ LiveLayout' = 0 /\ wg' = 0
      BY <1>9 DEF LayoutFails, LiveParts, LiveLayout
    <2> QED
      BY <2>1, FS_EmptySet DEF WaitCounts
  <1>10. ASSUME NEW p \in Parts,
                RenderPart(p) \/ PartPanics(p) \/ RecoverCancels(p)
                \/ RecoverIgnores(p) \/ RecoverStores(p)
         PROVE  WaitCounts'
    <2>1. UNCHANGED wg /\ LiveLayout' = LiveLayout
      BY <1>10 DEF RenderPart, PartPanics, RecoverCancels, RecoverIgnores,
         RecoverStores, LiveLayout
    <2>2. LiveParts' = LiveParts
      BY <1>10, <1>0 DEF RenderPart, PartPanics, RecoverCancels,
         RecoverIgnores, RecoverStores, LiveParts
    <2> QED
      BY <2>1, <2>2, <1>1
  <1>11. ASSUME NEW p \in Parts, PartDone(p)
         PROVE  WaitCounts'
    <2>1. p \in LiveParts /\ LiveParts' = LiveParts \ {p}
      BY <1>11, <1>0 DEF PartDone, LiveParts
    <2>2. LiveLayout' = LiveLayout /\ wg' = wg - 1
      BY <1>11 DEF PartDone, LiveLayout
    <2> QED
      BY <2>1, <2>2, <1>0, CountLive DEF WaitCounts
  <1> QED
    BY <1>3, <1>4, <1>5, <1>6, <1>7, <1>8, <1>9, <1>10, <1>11
    DEF Next, MainStep, LayoutStep, PartStep

LEMMA TypeStep == IInv /\ [Next]_vars => TypeOK'
  <1> SUFFICES ASSUME IInv, [Next]_vars PROVE TypeOK'
    OBVIOUS
  <1> USE DEF IInv, page, render, control, answer, Next, MainStep, LayoutStep,
       PartStep, ServerStep, vars, Handler, NoSuchLayout, StartLayout,
       StartPart, Wait, WriteText, SkipSection, AskSection, Deliver, GiveUp,
       LayoutReturns, LayoutCancels, LayoutDone, LayoutFails, RenderPart,
       PartPanics, RecoverCancels, RecoverIgnores, RecoverStores, PartDone,
       Expire, ReplyTimeout, ReplyDone, ReplyPanic
  <1>1. UNCHANGED page
    OBVIOUS
  <1>2. wg' \in Nat
    <2>1. WaitCounts'
      BY WaitCountsStep
    <2>2. LiveParts' \in SUBSET Parts /\ LiveLayout' \in {0, 1}
      BY DEF LiveParts, LiveLayout
    <2>3. Cardinality(LiveParts') \in Nat
      BY <2>2, CountLive
    <2> QED
      BY <2>1, <2>2, <2>3 DEF WaitCounts
  <1>3. Len(plan) \in Nat /\ pos \in Nat
    BY DEF TypeOK
  <1>4. main' \in MainAt
    BY DEF MainAt, TypeOK
  <1>5. toStart' \subseteq defined' /\ threw' \subseteq Parts
    BY <1>1 DEF TypeOK
  <1>6. layout' \in LayoutAt /\ part' \in [Parts -> PartAt]
    BY DEF LayoutAt, PartAt, TypeOK
  <1>7. pos' \in 1..(Len(plan') + 1) /\ written' \subseteq 1..Len(plan')
    <2>1. CASE UNCHANGED <<pos, written>>
      BY <1>1, <2>1 DEF TypeOK
    <2>2. CASE WriteText \/ SkipSection
      BY <1>1, <1>3, <2>2 DEF TypeOK
    <2>3. ASSUME NEW p \in Parts, Deliver(p)
          PROVE  pos' \in 1..(Len(plan') + 1) /\ written' \subseteq 1..Len(plan')
      <3>1. pos \in 1..Len(plan)
        BY <2>3 DEF Progress, Due
      <3> QED
        BY <1>1, <1>3, <2>3, <3>1 DEF TypeOK
    <2> QED
      BY <2>1, <2>2, <2>3
  <1>8. /\ cancelled' \in BOOLEAN
        /\ expired' \in BOOLEAN
        /\ closed' \in BOOLEAN
        /\ panicked' \in Parts \cup {NoPanic}
    BY ZenonT(60) DEF TypeOK
  <1>9. /\ reply' \in {"pending", "page", "own", "error", "garbled", "timeout"}
        /\ sent' \subseteq 1..Len(plan')
    BY <1>1 DEF TypeOK
  <1> QED
    BY <1>1, <1>2, <1>4, <1>5, <1>6, <1>7, <1>8, <1>9 DEF TypeOK

LEMMA ReturnsLastStep == IInv /\ [Next]_vars => ReturnsLast'
  <1> SUFFICES ASSUME IInv, [Next]_vars PROVE ReturnsLast'
    OBVIOUS
  <1> USE DEF IInv, TypeOK, ReturnsLast, Returned, LiveParts, LiveLayout,
       page, render, control, answer
  <1>1. CASE Handler \/ NoSuchLayout
    <2>1. \A p \in Parts : part'[p] = "none"
      BY <1>1 DEF Handler, NoSuchLayout, Stages
    <2>2. layout' = "none"
      BY <1>1 DEF Handler, NoSuchLayout, Stages
    <2> QED
      BY <2>1, <2>2
  <1>2. CASE StartLayout \/ \E p \in Parts : StartPart(p)
    BY <1>2 DEF StartLayout, StartPart, Stages
  <1>3. CASE Wait
    <2>1. LiveParts = {} /\ LiveLayout = 0
      <3>1. Cardinality(LiveParts) \in Nat
        BY CountLive
      <3>2. Cardinality(LiveParts) = 0 /\ LiveLayout = 0
        BY <1>3, <3>1 DEF Wait, WaitCounts
      <3> QED
        BY <3>2, CountLive
    <2> QED
      BY <1>3, <2>1 DEF Wait
  <1>4. CASE LayoutStep
    BY <1>4 DEF LayoutStep, WriteText, SkipSection, AskSection, GiveUp,
       LayoutReturns, LayoutCancels, LayoutDone, Deliver
  <1>5. CASE LayoutFails
    BY <1>5 DEF LayoutFails
  <1>6. ASSUME NEW p \in Parts, PartStep(p)
        PROVE  ReturnsLast'
    BY <1>6 DEF PartStep, RenderPart, PartPanics, RecoverCancels,
       RecoverIgnores, RecoverStores, PartDone
  <1>7. CASE Expire \/ ServerStep \/ UNCHANGED vars
    BY <1>7 DEF Expire, ServerStep, ReplyTimeout, ReplyDone, ReplyPanic, vars
  <1> QED
    BY <1>1, <1>2, <1>3, <1>4, <1>5, <1>6, <1>7 DEF Next, MainStep

LEMMA StagesStep == IInv /\ [Next]_vars => Stages'
  <1> SUFFICES ASSUME IInv, [Next]_vars PROVE Stages'
    OBVIOUS
  <1> USE DEF IInv, TypeOK, Stages, page, render, control, answer
  <1>1. CASE Handler \/ NoSuchLayout
    <2>1. layout = "none" /\ ~closed
      BY <1>1 DEF Handler, NoSuchLayout
    <2>2. main' \in {"own", "error", "panic", "start"} /\ main # "crashed"
      BY <1>1 DEF Handler, NoSuchLayout
    <2>3. UNCHANGED <<layout, part, toStart, defined, written, closed>>
      BY <1>1 DEF Handler, NoSuchLayout
    <2> QED
      BY <2>1, <2>2, <2>3
  <1>2. CASE StartLayout
    BY <1>2 DEF StartLayout
  <1>3. ASSUME NEW p \in Parts, StartPart(p)
        PROVE  Stages'
    BY <1>3 DEF StartPart
  <1>4. CASE Wait
    BY <1>4 DEF Wait
  <1>5. CASE WriteText \/ SkipSection \/ AskSection \/ GiveUp \/ LayoutReturns
             \/ LayoutCancels \/ LayoutDone
    BY <1>5 DEF WriteText, SkipSection, AskSection, GiveUp, LayoutReturns,
       LayoutCancels, LayoutDone
  <1>6. ASSUME NEW p \in Parts, Deliver(p)
        PROVE  Stages'
    BY <1>6 DEF Deliver
  <1>7. CASE LayoutFails
    <2>1. ~closed
      BY <1>7 DEF LayoutFails, ReturnsLast, LiveLayout
    <2> QED
      BY <1>7, <2>1 DEF LayoutFails
  <1>8. ASSUME NEW p \in Parts,
               RenderPart(p) \/ PartPanics(p) \/ RecoverCancels(p)
               \/ RecoverIgnores(p) \/ PartDone(p)
        PROVE  Stages'
    BY <1>8 DEF RenderPart, PartPanics, RecoverCancels, RecoverIgnores,
       PartDone
  <1>9. ASSUME NEW p \in Parts, RecoverStores(p)
        PROVE  Stages'
    <2>1. p # NoPanic
      BY PartsAssumption
    <2>2. main # "ok"
      BY <1>9 DEF RecoverStores, ReturnsLast, LiveParts, Returned
    <2> QED
      BY <1>9, <2>1, <2>2 DEF RecoverStores
  <1>10. CASE Expire \/ ServerStep
    BY <1>10 DEF Expire, ServerStep, ReplyTimeout, ReplyDone, ReplyPanic
  <1>11. CASE UNCHANGED vars
    BY <1>11 DEF vars
  <1> QED
    BY <1>1, <1>2, <1>3, <1>4, <1>5, <1>6, <1>7, <1>8, <1>9, <1>10, <1>11
    DEF Next, MainStep, LayoutStep, PartStep

LEMMA ProgressStep == IInv /\ [Next]_vars => Progress'
  <1> SUFFICES ASSUME IInv, [Next]_vars PROVE Progress'
    OBVIOUS
  <1> USE DEF IInv, TypeOK, Progress, Due, Skipped, Outputs, page, render,
       control, answer
  <1>1. Len(plan) \in Nat
    OBVIOUS
  <1>2. CASE Handler \/ NoSuchLayout \/ StartLayout \/ Wait \/ Expire
             \/ ServerStep \/ UNCHANGED vars
    BY <1>2 DEF Handler, NoSuchLayout, StartLayout, Wait, Expire, ServerStep,
       ReplyTimeout, ReplyDone, ReplyPanic, vars, Stages
  <1>3. ASSUME NEW p \in Parts, StartPart(p)
        PROVE  Progress'
    BY <1>3 DEF StartPart, Stages
  <1>4. CASE WriteText \/ SkipSection
    <2>1. UNCHANGED <<page, layout, main, part, threw>> /\ layout = "run"
      BY <1>4 DEF WriteText, SkipSection
    <2>2. CASE WriteText
      <3>1. pos \in Due /\ plan[pos].op = "text"
        BY <1>1, <2>2 DEF WriteText
      <3>2. written' = written \cup {pos} /\ pos' = pos + 1
        BY <2>2 DEF WriteText
      <3>3. Due' = Due /\ pos \in Nat
        BY <2>1
      <3>4. written' \subseteq Due
        BY <3>1, <3>2
      <3>6. ASSUME NEW i \in written'
            PROVE  i < pos'
        <4>1. i \in Nat /\ (i < pos \/ i = pos)
          BY <1>1, <3>2, <3>3, <3>6
        <4> QED
          BY <3>2, <3>3, <4>1
      <3>5. ASSUME NEW i \in Due, i < pos'
            PROVE  i \in written'
        <4>1. i \in Nat /\ (i < pos \/ i = pos)
          BY <1>1, <3>2, <3>3, <3>5
        <4> QED
          BY <3>2, <4>1
      <3> QED
        BY <2>1, <3>1, <3>2, <3>3, <3>4, <3>5, <3>6
    <2>3. CASE SkipSection
      <3>1. pos \notin Due /\ written' = written /\ pos' = pos + 1
        BY <2>3 DEF SkipSection
      <3>2. \A i \in Due' : i < pos' => i \in written'
        BY <1>1, <2>1, <3>1
      <3>3. ASSUME NEW i \in written'
            PROVE  i < pos'
        <4>1. i \in Nat /\ pos \in Nat /\ i < pos
          BY <1>1, <3>1, <3>3
        <4> QED
          BY <3>1, <4>1
      <3> QED
        BY <2>1, <3>1, <3>2, <3>3
    <2> QED
      BY <1>4, <2>2, <2>3
  <1>5. CASE AskSection \/ GiveUp \/ LayoutReturns \/ LayoutCancels
             \/ LayoutDone
    <2>1. UNCHANGED <<page, main, part, threw, pos, written>>
      BY <1>5 DEF AskSection, GiveUp, LayoutReturns, LayoutCancels, LayoutDone
    <2>2. layout' = "receive" => pos \in Due /\ plan[pos].op # "text"
      BY <1>1, <1>5 DEF AskSection, GiveUp, LayoutReturns, LayoutCancels,
         LayoutDone
    <2>3. layout' \in {"returned", "cancelled", "done"} =>
            pos > Len(plan) \/ kind = "nil"
      BY <1>5 DEF AskSection, GiveUp, LayoutReturns, LayoutCancels, LayoutDone
    <2> QED
      BY <2>1, <2>2, <2>3
  <1>6. ASSUME NEW p \in Parts, Deliver(p)
        PROVE  Progress'
    BY <1>1, <1>6 DEF Deliver, Endings
  <1>7. CASE LayoutFails
    BY <1>7 DEF LayoutFails
  <1>8. ASSUME NEW p \in Parts,
               RenderPart(p) \/ PartPanics(p) \/ RecoverCancels(p)
               \/ RecoverIgnores(p) \/ RecoverStores(p) \/ PartDone(p)
        PROVE  Progress'
    BY <1>8, ZenonT(60) DEF RenderPart, PartPanics, RecoverCancels, RecoverIgnores,
       RecoverStores, PartDone
  <1> QED
    BY <1>2, <1>3, <1>4, <1>5, <1>6, <1>7, <1>8
    DEF Next, MainStep, LayoutStep, PartStep

LEMMA EndingsStep == IInv /\ [Next]_vars => Endings'
  <1> SUFFICES ASSUME IInv, [Next]_vars PROVE Endings'
    OBVIOUS
  <1> USE DEF IInv, TypeOK, Endings, Outputs, page, render, control, answer
  <1>1. CASE Handler \/ NoSuchLayout \/ StartLayout \/ Wait \/ Expire
             \/ ServerStep \/ UNCHANGED vars
    BY <1>1 DEF Handler, NoSuchLayout, StartLayout, Wait, Expire, ServerStep,
       ReplyTimeout, ReplyDone, ReplyPanic, vars, Stages
  <1>2. ASSUME NEW p \in Parts, StartPart(p)
        PROVE  Endings'
    BY <1>2 DEF StartPart, Stages
  <1>3. CASE WriteText \/ SkipSection \/ AskSection \/ GiveUp \/ LayoutReturns
             \/ LayoutCancels \/ LayoutDone
    BY <1>3 DEF WriteText, SkipSection, AskSection, GiveUp, LayoutReturns,
       LayoutCancels, LayoutDone
  <1>4. ASSUME NEW p \in Parts, Deliver(p)
        PROVE  Endings'
    BY <1>4 DEF Deliver, Progress, Due
  <1>5. CASE LayoutFails
    BY <1>5 DEF LayoutFails
  <1>6. ASSUME NEW p \in Parts, RenderPart(p) \/ PartPanics(p) \/ PartDone(p)
        PROVE  Endings'
    BY <1>6 DEF RenderPart, PartPanics, PartDone
  <1>7. ASSUME NEW p \in Parts, RecoverCancels(p) \/ RecoverIgnores(p)
        PROVE  Endings'
    BY <1>7 DEF RecoverCancels, RecoverIgnores, Records
  <1>8. ASSUME NEW p \in Parts, RecoverStores(p)
        PROVE  Endings'
    <2>1. panicked' = p /\ p # NoPanic /\ p \in threw
      BY <1>8, PartsAssumption DEF RecoverStores, Stages
    <2>2. Contents \in threw
      BY <1>8, <2>1 DEF RecoverStores, Stages
    <2>3. part' = [part EXCEPT ![p] = "exit"]
          /\ UNCHANGED <<main, threw, written, plan>>
      BY <1>8 DEF RecoverStores
    <2> QED
      BY <2>1, <2>2, <2>3
  <1> QED
    BY <1>1, <1>2, <1>3, <1>4, <1>5, <1>6, <1>7, <1>8
    DEF Next, MainStep, LayoutStep, PartStep

LEMMA RepliesStep == IInv /\ [Next]_vars => Replies'
  <1> SUFFICES ASSUME IInv, [Next]_vars PROVE Replies'
    OBVIOUS
  <1> USE DEF IInv, TypeOK, Replies, page, render, control, answer
  <1>1. CASE UNCHANGED <<reply, sent, main, written>>
    BY <1>1
  <1>2. CASE Handler \/ NoSuchLayout \/ StartLayout \/ Wait
             \/ \E p \in Parts : StartPart(p)
    BY <1>2 DEF Handler, NoSuchLayout, StartLayout, Wait, StartPart
  <1>3. CASE WriteText \/ (\E p \in Parts : Deliver(p)) \/ LayoutFails
    <2>1. main \notin Returned
      BY <1>3 DEF WriteText, Deliver, LayoutFails, ReturnsLast, LiveLayout
    <2> QED
      BY <1>3, <2>1 DEF WriteText, Deliver, LayoutFails, Returned
  <1>4. CASE ServerStep
    BY <1>4 DEF ServerStep, ReplyTimeout, ReplyDone, ReplyPanic, Stages
  <1> QED
    BY <1>1, <1>2, <1>3, <1>4
    DEF Next, MainStep, LayoutStep, PartStep, vars, SkipSection, AskSection,
       GiveUp, LayoutReturns, LayoutCancels, LayoutDone, RenderPart,
       PartPanics, RecoverCancels, RecoverIgnores, RecoverStores, PartDone,
       Expire

LEMMA CausesStep == IInv /\ [Next]_vars => Causes'
  <1> SUFFICES ASSUME IInv, [Next]_vars PROVE Causes'
    OBVIOUS
  <1> USE DEF IInv, TypeOK, Causes, page, render, control, answer
  <1>1. CASE Handler \/ NoSuchLayout \/ Wait \/ ServerStep \/ UNCHANGED vars
    BY <1>1 DEF Handler, NoSuchLayout, Wait, ServerStep, ReplyTimeout,
       ReplyDone, ReplyPanic, vars
  <1>10. CASE StartLayout
    BY <1>10 DEF StartLayout, Stages
  <1>11. CASE Expire
    BY <1>11 DEF Expire
  <1>2. ASSUME NEW p \in Parts,
               StartPart(p) \/ RenderPart(p) \/ RecoverIgnores(p)
               \/ PartDone(p)
        PROVE  Causes'
    BY <1>2 DEF StartPart, RenderPart, RecoverIgnores, PartDone
  <1>3. CASE WriteText \/ SkipSection \/ AskSection \/ LayoutReturns
    BY <1>3 DEF WriteText, SkipSection, AskSection, LayoutReturns
  <1>4. CASE LayoutCancels \/ LayoutDone
    BY <1>4 DEF LayoutCancels, LayoutDone
  <1>5. CASE GiveUp
    BY <1>5 DEF GiveUp, CtxDone
  <1>6. ASSUME NEW p \in Parts, Deliver(p)
        PROVE  Causes'
    BY <1>6 DEF Deliver
  <1>7. CASE LayoutFails
    BY <1>7 DEF LayoutFails
  <1>8. ASSUME NEW p \in Parts, PartPanics(p)
        PROVE  Causes'
    BY <1>8 DEF PartPanics
  <1>9. ASSUME NEW p \in Parts, RecoverCancels(p) \/ RecoverStores(p)
        PROVE  Causes'
    <2>1. threw # {}
      BY <1>9 DEF RecoverCancels, RecoverStores, Endings, Stages
    <2> QED
      BY <1>9, <2>1 DEF RecoverCancels, RecoverStores
  <1> QED
    BY <1>1, <1>2, <1>3, <1>4, <1>5, <1>6, <1>7, <1>8, <1>9, <1>10, <1>11
    DEF Next, MainStep, LayoutStep, PartStep

-----------------------------------------------------------------------------
(* What follows. *)

\* The invariant holds in every reachable state.
THEOREM Invariance == Spec => []IInv
  <1>1. IInv /\ [Next]_vars => IInv'
    BY TypeStep, WaitCountsStep, ReturnsLastStep, StagesStep, ProgressStep,
       EndingsStep, CausesStep, RepliesStep DEF IInv
  <1> QED
    BY InitInv, <1>1, PTL DEF Spec

\* Every variable keeps its type.
THEOREM TypeCorrect == Spec => []TypeOK
  <1>1. IInv => TypeOK
    BY DEF IInv
  <1> QED
    BY <1>1, Invariance, PTL

\* The WaitGroup's counter is the number of live goroutines.
THEOREM WaitGroupCorrect == Spec => []WaitCounts
  <1>1. IInv => WaitCounts
    BY DEF IInv
  <1> QED
    BY <1>1, Invariance, PTL

\* When Respond has returned or closed the channels, no goroutine of the
\* request is left to use them.
THEOREM NothingAfterReturn == Spec => []ReturnsLast
  <1>1. IInv => ReturnsLast
    BY DEF IInv
  <1> QED
    BY <1>1, Invariance, PTL

\* At a return without error every part has ended: it was delivered, or it
\* is a section that panicked.
LEMMA EndsAtOk ==
  ASSUME IInv, main = "ok"
  PROVE  /\ layout = "done"
         /\ Contents \notin threw
         /\ \A p \in defined \ threw : \E i \in written : Outputs(i, p)
  <1> USE DEF IInv, TypeOK, Stages
  <1>1. LiveParts = {} /\ LiveLayout = 0
    BY DEF ReturnsLast, Returned
  <1>2. layout = "done"
    BY <1>1 DEF LiveLayout
  <1>3. \A p \in defined : part[p] = "done"
    BY <1>1 DEF LiveParts
  <1>4. Contents \notin threw
    BY <1>3 DEF Endings, Progress
  <1>5. \A p \in defined \ threw : \E i \in written : Outputs(i, p)
    BY <1>3 DEF Endings
  <1> QED
    BY <1>2, <1>4, <1>5

LEMMA NilPlanDue ==
  ASSUME kind = "nil", kind = "nil" => plan = NilPlan
  PROVE  Due \subseteq {1}
  <1>1. Len(plan) = 1
    BY NilPlanType
  <1> QED
    BY <1>1 DEF Due

LEMMA CompleteAtOk == IInv => PageComplete
  <1> SUFFICES ASSUME IInv, main = "ok" PROVE written = Due
    BY DEF PageComplete
  <1> USE DEF IInv, TypeOK, Progress
  <1>1. CASE pos > Len(plan)
    BY <1>1 DEF Due
  <1>2. CASE kind = "nil"
    <2>1. Due \subseteq {1}
      BY <1>2, NilPlanDue
    <2>2. \E i \in written : TRUE
      BY EndsAtOk
    <2> QED
      BY <2>1, <2>2
  <1> QED
    BY <1>1, <1>2, EndsAtOk

\* A return without error means that the whole layout has been written.
THEOREM PagesAreComplete == Spec => []PageComplete
  BY CompleteAtOk, Invariance, PTL

\* ... and that no rendered part is missing from it.
THEOREM NoPartIsLost == Spec => []NothingLost
  <1>1. IInv => NothingLost
    BY EndsAtOk DEF NothingLost
  <1> QED
    BY <1>1, Invariance, PTL

\* A panic of the contents never ends in a page.
THEOREM ContentsPanicsAreReported == Spec => []ContentsPanicReported
  <1>1. IInv => ContentsPanicReported
    BY EndsAtOk DEF ContentsPanicReported
  <1> QED
    BY <1>1, Invariance, PTL

\* An error page is appended to part of a page only by a layout that does
\* not output the contents.
THEOREM GarbledPagesOmitContents == Spec => []GarbledNeedsOmission
  <1>1. IInv => GarbledNeedsOmission
    <2> SUFFICES ASSUME IInv, reply = "garbled", NEW i \in Due,
                        Outputs(i, Contents)
                 PROVE  FALSE
      BY DEF GarbledNeedsOmission
    <2> USE DEF IInv, TypeOK
    <2>1. main = "error" /\ written # {} /\ layout # "none"
      BY DEF Replies, Stages
    <2>2. panicked # NoPanic /\ Contents \in threw /\ Contents \in Parts
      BY <2>1 DEF Stages, Endings, Parts
    <2>3. layout = "done"
      BY <2>1 DEF ReturnsLast, Returned, LiveLayout
    <2>4. i \notin written
      BY <2>1, <2>2 DEF Progress
    <2>5. kind = "nil"
      BY <2>3, <2>4 DEF Progress, Due
    <2>6. Due \subseteq {1}
      BY <2>5, NilPlanDue DEF Progress
    <2> QED
      BY <2>1, <2>4, <2>6, ZenonT(60) DEF Progress
  <1> QED
    BY <1>1, Invariance, PTL

-----------------------------------------------------------------------------
(* Requests that never end. *)

\* In a hung request every part of the page waits to be received or is done.
LEMMA HungParts ==
  ASSUME IInv, Hung
  PROVE  \A p \in defined : part[p] \in {"send", "done"}
  BY DEF IInv, TypeOK, Hung, Stages

\* Without a panic and with a layout that fits, a hung request is one without
\* layout that missed its deadline.
LEMMA HungCause == IInv => HangNeedsCause
  <1> SUFFICES ASSUME IInv, Hung, Fits, threw = {}
               PROVE  kind = "nil" /\ expired
    BY DEF HangNeedsCause
  <1> USE DEF IInv, TypeOK
  <1>1. ASSUME NEW p \in defined, part[p] = "done"
        PROVE  \E i \in written : Outputs(i, p)
    BY <1>1 DEF Endings, Hung
  <1>2. CASE layout = "receive"
    <2> DEFINE q == plan[pos].name
    <2>1. pos \in Due /\ plan[pos].op # "text" /\ Outputs(pos, q)
      BY <1>2 DEF Progress, Outputs
    <2>2. q \in defined
      BY <2>1 DEF Fits
    <2>3. part[q] = "done"
      BY <1>2, <2>2, HungParts DEF Hung
    <2>4. PICK j \in written : Outputs(j, q)
      BY <1>1, <2>2, <2>3
    <2>5. j \in Due /\ j # pos
      <3>1. j < pos /\ j \in Nat /\ pos \in Nat
        BY DEF Progress
      <3> QED
        BY <3>1 DEF Progress
    <2>6. PICK k \in Due : \A m \in Due \ {k} : ~Outputs(m, q)
      BY <2>2 DEF Fits
    <2> QED
      BY <2>1, <2>4, <2>5, <2>6
  <1>3. CASE layout = "done"
    <2>1. CASE pos > Len(plan)
      <3>1. Due \subseteq written
        BY <2>1 DEF Progress, Due
      <3>2. \A p \in defined : part[p] \in {"exit", "done"}
        <4> SUFFICES ASSUME NEW p \in defined
                     PROVE  part[p] \in {"exit", "done"}
          OBVIOUS
        <4>1. PICK i \in Due : Outputs(i, p)
          BY DEF Fits
        <4> QED
          BY <3>1, <4>1 DEF Progress, Hung
      <3>3. LiveParts = {}
        BY <3>2, HungParts DEF LiveParts, Stages, Hung
      <3>4. LiveLayout = 0
        BY <1>3 DEF LiveLayout
      <3>5. wg = 0
        BY <3>3, <3>4, FS_EmptySet DEF WaitCounts
      <3> QED
        BY <3>5 DEF Hung
    <2>2. CASE ~(pos > Len(plan))
      BY <1>3, <2>2 DEF Progress, Causes
    <2> QED
      BY <2>1, <2>2
  <1> QED
    BY <1>2, <1>3 DEF Hung

\* Respond waits forever only for a misfit, a panic or a missed deadline of
\* a page without layout.
THEOREM HangsHaveCauses == Spec => []HangNeedsCause
  BY HungCause, Invariance, PTL

LEMMA HungStep == IInv /\ Hung /\ [Next]_vars => Hung'
  <1> SUFFICES ASSUME IInv, Hung, [Next]_vars
               PROVE  Hung'
    OBVIOUS
  <1> USE DEF IInv, TypeOK, Hung, CtxDone, page, render, control, answer
  <1>1. CASE UNCHANGED vars
    BY <1>1 DEF vars
  <1>2. CASE ServerStep
    BY <1>2 DEF ServerStep, ReplyTimeout, ReplyDone, ReplyPanic
  <1>3. CASE Expire
    <2>1. layout = "receive" /\ kind = "nil" => CtxDone
      <3> SUFFICES ASSUME layout = "receive", kind = "nil"
                   PROVE  CtxDone
        OBVIOUS
      <3>1. pos \in {1} /\ plan[1].name = Contents
        <4>1. pos = 1
          BY NilPlanDue DEF Progress
        <4> QED
          BY <4>1 DEF Progress, NilPlan
      <3>2. part[Contents] = "done"
        BY <3>1, HungParts DEF Progress
      <3>3. Contents \in threw
        <4> SUFFICES ASSUME NEW i \in written, Outputs(i, Contents)
                     PROVE  FALSE
          BY <3>2 DEF Endings, Progress
        <4>1. i = 1 /\ i < pos
          BY NilPlanDue DEF Progress
        <4> QED
          BY <3>1, <4>1
      <3> QED
        BY <3>2, <3>3 DEF Endings, Causes
    <2> QED
      BY <1>3, <2>1 DEF Expire
  <1>4. CASE MainStep
    BY <1>4, HungParts DEF MainStep, Handler, NoSuchLayout, StartLayout,
       StartPart, Wait
  <1>5. CASE LayoutStep
    BY <1>5 DEF LayoutStep, WriteText, SkipSection, AskSection, Deliver,
       GiveUp, LayoutReturns, LayoutCancels, LayoutDone
  <1>6. CASE LayoutFails
    BY <1>6 DEF LayoutFails
  <1>7. ASSUME NEW p \in Parts, PartStep(p)
        PROVE  Hung'
    BY <1>7 DEF PartStep, RenderPart, PartPanics, RecoverCancels,
       RecoverIgnores, RecoverStores, PartDone
  <1> QED
    BY <1>1, <1>2, <1>3, <1>4, <1>5, <1>6, <1>7 DEF Next

\* A hung request never gets out of it, deadline or not.
THEOREM HangsLast == Spec => HangIsForever
  <1>1. IInv /\ [Next]_vars => [Hung => Hung']_vars
    BY HungStep
  <1> QED
    BY <1>1, Invariance, PTL DEF Spec, HangIsForever

-----------------------------------------------------------------------------
(* The safety part of the refinement of PageReply. *)

LEMMA ReplyInit == Init => Reply!Init
  <1> SUFFICES ASSUME Init PROVE Reply!Init
    OBVIOUS
  <1>1. Due \in SUBSET Nat
    BY DEF Due
  <1> QED
    BY <1>1 DEF Init, Reply!Init

LEMMA ReplyStep == IInv /\ [Next]_vars => [Reply!Next]_Reply!replyVars
  <1> SUFFICES ASSUME IInv, [Next]_vars
               PROVE  [Reply!Next]_Reply!replyVars
    OBVIOUS
  <1> USE DEF IInv, TypeOK, page, render, control, answer
  <1>1. Due' = Due
    <2>1. UNCHANGED page
      BY DEF Next, MainStep, LayoutStep, PartStep, ServerStep, vars, Handler,
         NoSuchLayout, StartLayout, StartPart, Wait, WriteText, SkipSection,
         AskSection, Deliver, GiveUp, LayoutReturns, LayoutCancels,
         LayoutDone, LayoutFails, RenderPart, PartPanics, RecoverCancels,
         RecoverIgnores, RecoverStores, PartDone, Expire, ReplyTimeout,
         ReplyDone, ReplyPanic
    <2> QED
      BY <2>1 DEF Due, Skipped
  <1>2. ASSUME UNCHANGED <<reply, sent>>, main # "crashed", main' # "crashed"
        PROVE  UNCHANGED Reply!replyVars
    BY <1>1, <1>2 DEF Reply!replyVars
  <1>3. CASE UNCHANGED vars
    BY <1>1, <1>3 DEF vars, Reply!replyVars
  <1>4. CASE MainStep
    BY <1>2, <1>4 DEF MainStep, Handler, NoSuchLayout, StartLayout, StartPart,
       Wait
  <1>5. CASE LayoutStep
    <2>1. main # "crashed"
      BY <1>5 DEF LayoutStep, WriteText, SkipSection, AskSection, Deliver,
         GiveUp, LayoutReturns, LayoutCancels, LayoutDone, Stages
    <2> QED
      BY <1>2, <1>5, <2>1 DEF LayoutStep, WriteText, SkipSection, AskSection,
         Deliver, GiveUp, LayoutReturns, LayoutCancels, LayoutDone
  <1>6. ASSUME NEW p \in Parts, PartStep(p)
        PROVE  UNCHANGED Reply!replyVars
    <2>1. main # "crashed"
      BY <1>6 DEF PartStep, RenderPart, PartPanics, RecoverCancels,
         RecoverIgnores, RecoverStores, PartDone, Stages
    <2> QED
      BY <1>2, <1>6, <2>1 DEF PartStep, RenderPart, PartPanics,
         RecoverCancels, RecoverIgnores, RecoverStores, PartDone
  <1>7. CASE Expire
    BY <1>2, <1>7 DEF Expire
  <1>8. CASE LayoutFails
    <2>1. main # "crashed" /\ main' = "crashed" /\ UNCHANGED <<reply, sent>>
      BY <1>8 DEF LayoutFails, Stages
    <2>2. CASE reply = "pending"
      BY <1>1, <2>1, <2>2 DEF Reply!Next, Reply!Die
    <2>3. CASE reply # "pending"
      BY <1>1, <2>1, <2>3 DEF Reply!replyVars
    <2> QED
      BY <2>2, <2>3
  <1>9. CASE ReplyTimeout
    BY <1>1, <1>9 DEF ReplyTimeout, Reply!Next, Reply!AnswerEmpty
  <1>10. CASE ReplyPanic
    <2>1. sent = {} /\ UNCHANGED sent
      BY <1>10 DEF ReplyPanic, Replies
    <2> QED
      BY <1>1, <1>10, <2>1 DEF ReplyPanic, Reply!Next, Reply!AnswerError
  <1>11. CASE ReplyDone
    <2>1. sent = {} /\ written \subseteq Due
      BY <1>11 DEF ReplyDone, Replies, Progress
    <2>2. CASE main = "own"
      <3>1. written = {}
        BY <2>2 DEF Stages
      <3> QED
        BY <1>1, <1>11, <2>1, <2>2, <3>1
        DEF ReplyDone, Reply!Next, Reply!AnswerEmpty
    <2>3. CASE main = "ok"
      <3>1. written = Due
        BY <2>3, CompleteAtOk DEF PageComplete
      <3> QED
        BY <1>1, <1>11, <2>3, <3>1
        DEF ReplyDone, Reply!Next, Reply!AnswerPage
    <2>4. CASE main = "error"
      BY <1>1, <1>11, <2>1, <2>4
      DEF ReplyDone, Reply!Next, Reply!AnswerError
    <2> QED
      BY <1>11, <2>2, <2>3, <2>4 DEF ReplyDone
  <1> QED
    BY <1>3, <1>4, <1>5, <1>6, <1>7, <1>8, <1>9, <1>10, <1>11
    DEF Next, ServerStep

\* One answer at most, and a page answered is the whole document: the safety
\* of PageReply, step by step.
THEOREM RefinesPageReply ==
  Spec => Reply!Init /\ [][Reply!Next]_Reply!replyVars
  BY ReplyInit, ReplyStep, Invariance, PTL DEF Spec
=============================================================================
