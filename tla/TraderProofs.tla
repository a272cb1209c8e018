---------------------------- MODULE TraderProofs ----------------------------
(***************************************************************************)
(* Proofs about Trader, for every set of messages and every bound: at most *)
(* one order goes out after a pause, a kill or a stop, and after a         *)
(* completed kill nothing in the process enables trading again.            *)
(***************************************************************************)
EXTENDS Trader, TLAPS

LEMMA Initially == Init => Inv
<1> SUFFICES ASSUME Init PROVE Inv
  OBVIOUS
<1> USE TraderAssumption DEF Init
<1>1. TypeOK
  <2>1. up \in BOOLEAN /\ running \in BOOLEAN /\ trading \in BOOLEAN
        /\ model \in BOOLEAN /\ gateOn \in BOOLEAN
        /\ told \in BOOLEAN /\ pos \in BOOLEAN
    BY Zenon
  <2>2. inbox \in Seq(Messages) /\ done \in SUBSET Loops
        /\ listener \in ListenerPC
    BY DEF ListenerPC
  <2>3. late \in [trading : Nat, running : Nat] /\ wire \in Nat /\ book \in Nat
    BY DEF NoLate
  <2> QED BY <2>1, <2>2, <2>3 DEF TypeOK
<1>2. LateInv
  BY DEF LateInv, AtMostOneLate, NoLate
<1>3. KillInv
  BY DEF KillInv, KillSteps, CompleteIsFinal
<1> QED BY <1>1, <1>2, <1>3 DEF Inv

\* Messages the listener takes leave an inbox of messages.
LEMMA TakeTail ==
    ASSUME TypeOK, Take
    PROVE  inbox' \in Seq(Messages) /\ up /\ listener = "listen"
BY DEF TypeOK, Take

\* The places of the kill switch are no places of the listener itself.
LEMMA KillPlaces ==
    \A i \in DOMAIN KillSteps :
        KillSteps[i] \notin {"subscribe", "listen", "stopping", "done"}
BY DEF KillSteps

LEMMA CommandsKeepInv ==
    ASSUME Inv,
           \/ \E m \in Messages : Publish(m)
           \/ Subscribe \/ TakeStop \/ TakeKill \/ TakeStart \/ TakePause
           \/ TakeOther \/ TakeBad \/ StopReturns
    PROVE  Inv'
<1> USE TraderAssumption DEF Inv, flags, exchange, history, bounds
<1> USE DEF LateInv, AtMostOneLate, KillInv, CompleteIsFinal
<1>1. ASSUME NEW m \in Messages, Publish(m) PROVE Inv'
  BY <1>1 DEF Publish, TypeOK
<1>2. CASE Subscribe
  BY <1>2, KillPlaces DEF Subscribe, TypeOK, ListenerPC
<1>3. CASE TakeStop
  <2> USE <1>3 DEF TakeStop
  <2>1. TypeOK'  BY TakeTail DEF TypeOK, ListenerPC
  <2>2. LateInv' BY DEF TypeOK
  <2>3. KillInv' BY TakeTail, KillPlaces
  <2> QED BY <2>1, <2>2, <2>3
<1>4. CASE TakeKill
  <2> USE <1>4 DEF TakeKill
  <2>1. TypeOK'
    <3>1. trading' \in BOOLEAN
      BY Zenon
    <3>2. listener' \in ListenerPC
      BY DEF ListenerPC, KillSteps
    <3> QED BY <3>1, <3>2, TakeTail DEF TypeOK
  <2>2. LateInv' BY DEF TypeOK
  <2>3. KillInv' BY TakeTail, KillPlaces DEF KillSteps
  <2> QED BY <2>1, <2>2, <2>3
<1>5. CASE TakeStart
  <2> USE <1>5 DEF TakeStart
  <2>1. TypeOK'  BY TakeTail DEF TypeOK
  <2>2. LateInv' BY DEF TypeOK
  <2>3. KillInv' BY TakeTail, KillPlaces
  <2> QED BY <2>1, <2>2, <2>3
<1>6. CASE TakePause
  BY <1>6, TakeTail DEF TakePause, TypeOK
<1>7. CASE TakeOther
  BY <1>7, TakeTail DEF TakeOther, TypeOK
<1>8. CASE TakeBad
  BY <1>8, TakeTail DEF TakeBad, TypeOK
<1>9. CASE StopReturns
  BY <1>9, KillPlaces DEF StopReturns, TypeOK, ListenerPC, Loops
<1> QED BY <1>1, <1>2, <1>3, <1>4, <1>5, <1>6, <1>7, <1>8, <1>9

LEMMA KillKeepsInv ==
    ASSUME Inv, KillStep
    PROVE  Inv'
<1> USE TraderAssumption DEF Inv, flags, exchange, history, bounds
<1> USE DEF LateInv, AtMostOneLate, KillInv, CompleteIsFinal, KillSteps
<1>1. ASSUME NEW i \in 1..5, KillStepDone(i), book' \in {0, book} PROVE Inv'
  BY <1>1 DEF KillStepDone, TypeOK, ListenerPC
<1>2. CASE KillComplete
  BY <1>2 DEF KillComplete, TypeOK, ListenerPC, Loops
<1> QED BY <1>1, <1>2 DEF KillStep, KillPersisted, KillAlerted, KillCancelled,
                          KillNoPositions, KillRepersisted

LEMMA MarketKeepsInv ==
    ASSUME Inv, MarketStep
    PROVE  Inv'
<1> USE TraderAssumption DEF Inv, flags, exchange, history, bounds
<1> USE DEF LateInv, AtMostOneLate, KillInv, CompleteIsFinal
<1>1. CASE BarSignal
  BY <1>1 DEF BarSignal, TypeOK
<1>2. CASE BarSkipped
  BY <1>2 DEF BarSkipped, LoopTop, TypeOK, Loops
<1>3. CASE Send
  BY <1>3 DEF Send, TypeOK
<1>4. CASE Refuse
  BY <1>4 DEF Refuse, LoopTop, TypeOK, Loops
<1>5. CASE SendReturns
  BY <1>5 DEF SendReturns, LoopTop, TypeOK, Loops
<1> QED BY <1>1, <1>2, <1>3, <1>4, <1>5 DEF MarketStep

LEMMA ProcessKeepsInv ==
    ASSUME Inv,
           \/ \E l \in Loops : LoopEnds(l)
           \/ Exit \/ Crash \/ SigTerm \/ SigKill \/ Restart
           \/ ExAccepts \/ ExRefuses \/ ExFills
    PROVE  Inv'
<1> USE TraderAssumption DEF Inv, flags, exchange, history, bounds
<1> USE DEF LateInv, AtMostOneLate, KillInv, CompleteIsFinal
<1>1. ASSUME NEW l \in Loops, LoopEnds(l) PROVE Inv'
  BY <1>1 DEF LoopEnds, TypeOK, Loops
<1>2. CASE Exit
  BY <1>2 DEF Exit, TypeOK
<1>3. CASE Crash
  <2> USE <1>3 DEF Crash
  <2>1. TypeOK'
    <3>1. crashes' \in 0..MaxCrashes
      BY DEF TypeOK
    <3>2. up' \in BOOLEAN
      BY Zenon
    <3> QED BY <3>1, <3>2 DEF TypeOK
  <2>2. LateInv' OBVIOUS
  <2>3. KillInv' OBVIOUS
  <2> QED BY <2>1, <2>2, <2>3
<1>4. CASE SigTerm
  <2> USE <1>4 DEF SigTerm
  <2>1. TypeOK'
    <3>1. signals' \in 0..MaxSignals
      BY DEF TypeOK
    <3>2. running' \in BOOLEAN
      BY Zenon
    <3> QED BY <3>1, <3>2 DEF TypeOK
  <2>2. LateInv' OBVIOUS
  <2>3. KillInv' OBVIOUS
  <2> QED BY <2>1, <2>2, <2>3
<1>5. CASE SigKill
  BY <1>5 DEF SigKill, TypeOK
<1>6. CASE Restart
  <2> USE <1>6 DEF Restart
  <2>1. TypeOK'
    <3>1. /\ up' \in BOOLEAN /\ running' \in BOOLEAN /\ trading' \in BOOLEAN
          /\ model' \in BOOLEAN /\ gateOn' \in BOOLEAN /\ told' \in BOOLEAN
      BY Zenon
    <3>2. /\ inbox' \in Seq(Messages) /\ done' \in SUBSET Loops
          /\ listener' \in ListenerPC /\ bar' \in {"watch"}
      BY DEF ListenerPC
    <3>3. late' \in [trading : Nat, running : Nat]
      BY DEF NoLate
    <3> QED BY <3>1, <3>2, <3>3 DEF TypeOK
  <2>2. LateInv' BY DEF NoLate
  <2>3. KillInv' BY KillPlaces
  <2> QED BY <2>1, <2>2, <2>3
<1>7. CASE ExAccepts
  BY <1>7 DEF ExAccepts, TypeOK
<1>8. CASE ExRefuses
  BY <1>8 DEF ExRefuses, TypeOK
<1>9. CASE ExFills
  BY <1>9 DEF ExFills, TypeOK
<1> QED BY <1>1, <1>2, <1>3, <1>4, <1>5, <1>6, <1>7, <1>8, <1>9

THEOREM Invariance == Spec => []Inv
<1>1. Inv /\ [Next]_vars => Inv'
  <2> SUFFICES ASSUME Inv, [Next]_vars PROVE Inv'
    OBVIOUS
  <2>1. CASE UNCHANGED vars
    BY <2>1 DEF vars, flags, exchange, history, bounds, Inv, TypeOK, LateInv,
                AtMostOneLate, KillInv, CompleteIsFinal
  <2> QED BY <2>1, CommandsKeepInv, KillKeepsInv, MarketKeepsInv,
             ProcessKeepsInv DEF Next
<1> QED BY <1>1, Initially, PTL DEF Spec

\* After a pause, a kill or a stop at most one more order goes out.
THEOREM OneLateOrder == Spec => []AtMostOneLate
<1>1. Inv => AtMostOneLate
  BY DEF Inv, LateInv
<1> QED BY <1>1, Invariance, PTL

\* After KILL COMPLETE nothing enables trading in the process any more.
THEOREM KillIsFinal == Spec => []CompleteIsFinal
<1>1. Inv => CompleteIsFinal
  BY DEF Inv, KillInv, CompleteIsFinal
<1> QED BY <1>1, Invariance, PTL
-----------------------------------------------------------------------------
\* The way to the end of a process that was stopped or killed

\* A loop that has ended is one gather() no longer waits for.
DoneInv ==
    /\ listener = "done" => "cmd" \in done
    /\ bar = "done" => "market" \in done

LEMMA DoneInitially == Init => DoneInv
BY DEF Init, DoneInv

LEMMA DoneNext == DoneInv /\ [Next]_vars => DoneInv'
<1> SUFFICES ASSUME DoneInv, [Next]_vars PROVE DoneInv'
  OBVIOUS
<1> USE DEF DoneInv, flags, exchange, history, bounds
<1>1. ASSUME NEW m \in Messages, Publish(m) PROVE DoneInv'
  BY <1>1 DEF Publish
<1>2. CASE \/ Subscribe \/ TakeStop \/ TakeKill \/ TakeStart \/ TakePause
           \/ TakeOther \/ TakeBad \/ StopReturns
  BY <1>2 DEF Subscribe, Take, TakeStop, TakeKill, TakeStart, TakePause,
              TakeOther, TakeBad, StopReturns
<1>3. ASSUME NEW i \in 1..5, KillStepDone(i) PROVE DoneInv'
  BY <1>3 DEF KillStepDone, KillSteps
<1>4. CASE KillComplete
  BY <1>4 DEF KillComplete
<1>5. CASE MarketStep
  BY <1>5 DEF MarketStep, BarSignal, BarSkipped, Send, Refuse, SendReturns, LoopTop
<1>6. ASSUME NEW l \in Loops, LoopEnds(l) PROVE DoneInv'
  BY <1>6 DEF LoopEnds
<1>7. CASE Exit \/ Crash \/ SigTerm \/ SigKill \/ Restart
  BY <1>7 DEF Exit, Crash, SigTerm, SigKill, Restart
<1>8. CASE ExAccepts \/ ExRefuses \/ ExFills
  BY <1>8 DEF ExAccepts, ExRefuses, ExFills
<1>9. CASE UNCHANGED vars
  BY <1>9 DEF vars
<1> QED BY <1>1, <1>2, <1>3, <1>4, <1>5, <1>6, <1>7, <1>8, <1>9
        DEF Next, KillStep, KillPersisted, KillAlerted, KillCancelled,
            KillNoPositions, KillRepersisted

\* What is left of the loops is less than what stands for them before
\* _running is cleared.
Bounds ==
    /\ KillLeft \in 0..6
    /\ LoopsLeft \in 0..6 /\ (~running => LoopsLeft \in 0..5)
    /\ WayLeft = 10 * KillLeft + LoopsLeft /\ WayLeft \in Nat

LEMMA LeftBounds == Bounds
<1>1. KillLeft \in 0..6
  BY DEF KillLeft
<1>2. MarketLeft \in 0..3
  BY DEF MarketLeft
<1>3. LoopLeft("heartbeat") \in 0..1 /\ LoopLeft("reconcile") \in 0..1
  BY DEF LoopLeft
<1> QED BY <1>1, <1>2, <1>3 DEF Bounds, LoopsLeft, WayLeft

LEMMA LeftBoundsNext == Bounds'
<1> QED BY LeftBounds, PTL

LEMMA Weighed ==
    /\ \A a, b, c, d \in 0..6 : a < b => 10 * a + c < 10 * b + d
    /\ \A a, c, d \in 0..6 : c < d => 10 * a + c < 10 * a + d
OBVIOUS

\* A step of the listener shortens the way by more than a loop could lengthen it.
LEMMA ListenerNearer ==
    ASSUME KillLeft' < KillLeft
    PROVE  WayLeft' < WayLeft
<1>1. /\ KillLeft' \in 0..6 /\ LoopsLeft' \in 0..6
      /\ WayLeft' = 10 * KillLeft' + LoopsLeft'
  BY LeftBoundsNext DEF Bounds
<1>2. /\ KillLeft \in 0..6 /\ LoopsLeft \in 0..6
      /\ WayLeft = 10 * KillLeft + LoopsLeft
  BY LeftBounds DEF Bounds
<1>3. 10 * KillLeft' + LoopsLeft' < 10 * KillLeft + LoopsLeft
  BY <1>1, <1>2, Weighed, Zenon
<1> QED BY <1>1, <1>2, <1>3, Zenon

LEMMA LoopNearer ==
    ASSUME UNCHANGED listener, LoopsLeft' < LoopsLeft
    PROVE  WayLeft' < WayLeft
<1>1. KillLeft' = KillLeft
  BY DEF KillLeft
<1>2. LoopsLeft' \in 0..6 /\ WayLeft' = 10 * KillLeft' + LoopsLeft'
  BY LeftBoundsNext DEF Bounds
<1>3. /\ KillLeft \in 0..6 /\ LoopsLeft \in 0..6
      /\ WayLeft = 10 * KillLeft + LoopsLeft
  BY LeftBounds DEF Bounds
<1>4. 10 * KillLeft + LoopsLeft' < 10 * KillLeft + LoopsLeft
  BY <1>2, <1>3, Weighed, Zenon
<1> QED BY <1>1, <1>2, <1>3, <1>4, Zenon

\* Where nothing that counts changes the way is as long as before.
LEMMA SameWay ==
    ASSUME UNCHANGED <<listener, running, bar, done>>
    PROVE  UNCHANGED WayLeft
BY DEF WayLeft, LoopsLeft, KillLeft, MarketLeft, LoopLeft

\* No command is taken any more; and a stop ends.
LEMMA ListenerForward ==
    ASSUME Taken, KillStep \/ StopReturns
    PROVE  Taken' /\ WayLeft' < WayLeft
<1>1. ASSUME NEW i \in 1..5, KillStepDone(i) PROVE Taken' /\ KillLeft' < KillLeft
  <2>1. /\ listener = KillSteps[i] /\ listener' = KillSteps[i + 1] /\ up' = up
    BY <1>1 DEF KillStepDone, flags
  <2>2. \A k \in 1..6 : listener = KillSteps[k] => KillLeft = 7 - k
    BY DEF KillSteps, KillLeft
  <2>3. \A k \in 1..6 : listener' = KillSteps[k] => KillLeft' = 7 - k
    BY DEF KillSteps, KillLeft
  <2>4. KillLeft = 7 - i /\ KillLeft' = 7 - (i + 1)
    BY <2>1, <2>2, <2>3
  <2>5. Taken'
    BY <2>1 DEF Taken, KillSteps
  <2> QED BY <2>4, <2>5
<1>2. ASSUME KillComplete \/ StopReturns PROVE Taken' /\ KillLeft' < KillLeft
  <2>1. /\ listener \in {"complete", "stopping"} /\ listener' = "done" /\ up' = up
    BY <1>2 DEF KillComplete, StopReturns, flags
  <2>2. KillLeft = 1 /\ KillLeft' = 0
    BY <2>1 DEF KillLeft
  <2> QED BY <2>1, <2>2 DEF Taken
<1>3. Taken' /\ KillLeft' < KillLeft
  BY <1>1, <1>2 DEF KillStep, KillPersisted, KillAlerted, KillCancelled,
                    KillNoPositions, KillRepersisted
<1> QED BY <1>3, ListenerNearer

\* Neither the market loop nor another goes on after _running is cleared; while
\* it is not, they leave the way as it is.
LEMMA LoopForward ==
    ASSUME Taken, TypeOK, MarketStep \/ \E l \in Loops : LoopEnds(l)
    PROVE  /\ Taken' /\ UNCHANGED <<listener, running>>
           /\ running => WayLeft' = WayLeft
           /\ ~running => WayLeft' < WayLeft
<1>1. Taken' /\ UNCHANGED <<listener, running>>
  BY DEF Taken, MarketStep, BarSignal, BarSkipped, Send, Refuse, SendReturns,
         LoopEnds, flags
<1>2. ASSUME running PROVE WayLeft' = WayLeft
  BY <1>1, <1>2 DEF WayLeft, KillLeft, LoopsLeft
<1>3. ASSUME ~running PROVE WayLeft' < WayLeft
  <2>1. ASSUME MarketStep PROVE LoopsLeft' < LoopsLeft
    <3>0. /\ \/ bar = "watch" /\ bar' \in {"equity", "done"}
             \/ bar = "equity" /\ bar' \in {"create", "done"}
             \/ bar = "create" /\ bar' = "done"
          /\ done' \in {done, done \cup {"market"}}
      BY <1>3, <2>1 DEF MarketStep, BarSignal, BarSkipped, Send, Refuse,
                        SendReturns, LoopTop
    <3>1. MarketLeft' < MarketLeft /\ MarketLeft \in 0..3 /\ MarketLeft' \in 0..3
      BY <3>0 DEF MarketLeft
    <3>2. ("heartbeat" \in done') <=> ("heartbeat" \in done)
      BY <3>0
    <3>3. ("reconcile" \in done') <=> ("reconcile" \in done)
      BY <3>0
    <3>4. /\ LoopLeft("heartbeat")' = LoopLeft("heartbeat")
          /\ LoopLeft("reconcile")' = LoopLeft("reconcile")
          /\ LoopLeft("heartbeat") \in 0..1 /\ LoopLeft("reconcile") \in 0..1
      BY <3>2, <3>3 DEF LoopLeft
    <3> QED BY <1>1, <1>3, <3>1, <3>4 DEF LoopsLeft
  <2>2. ASSUME NEW l \in Loops, LoopEnds(l) PROVE LoopsLeft' < LoopsLeft
    <3>1. /\ l \in {"heartbeat", "reconcile"} /\ l \notin done
          /\ done' = done \cup {l} /\ bar' = bar
      BY <2>2 DEF LoopEnds, Loops
    <3>2. MarketLeft' = MarketLeft /\ MarketLeft \in 0..3
      BY <3>1 DEF MarketLeft
    <3> QED BY <1>1, <1>3, <3>1, <3>2 DEF LoopsLeft, LoopLeft
  <2> QED BY <1>1, <2>1, <2>2, LoopNearer
<1> QED BY <1>1, <1>2, <1>3

\* Once the listener has taken a kill or a stop there is no way back: what is left
\* to the end of the process only gets shorter, by each step of the listener and,
\* once it has cleared _running, by each step of another loop.
THEOREM NoWayBackAlways == Spec => NoWayBack
<1>1. ASSUME Inv, [Next]_vars, Taken, up'
      PROVE  /\ Taken' /\ WayLeft' <= WayLeft
             /\ listener' # listener
                   \/ (~running /\ <<bar, done>>' # <<bar, done>>)
                => WayLeft' < WayLeft
  <2> USE DEF flags, exchange, history, bounds
  <2>1. WayLeft \in Nat /\ WayLeft' \in Nat
    BY LeftBounds, LeftBoundsNext DEF Bounds
  <2>2. CASE KillStep \/ StopReturns
    BY <1>1, <2>1, <2>2, ListenerForward
  <2>3. CASE MarketStep \/ \E l \in Loops : LoopEnds(l)
    BY <1>1, <2>1, <2>3, LoopForward DEF Inv
  <2>4. ASSUME UNCHANGED <<listener, running, bar, done>>
        PROVE  /\ Taken' /\ WayLeft' <= WayLeft
               /\ UNCHANGED listener /\ <<bar, done>>' = <<bar, done>>
    BY <1>1, <2>1, <2>4, SameWay DEF Taken
  <2>5. ASSUME NEW m \in Messages, Publish(m)
        PROVE  UNCHANGED <<listener, running, bar, done>>
    BY <2>5 DEF Publish
  <2>6. CASE \/ Subscribe \/ TakeStop \/ TakeKill \/ TakeStart \/ TakePause
             \/ TakeOther \/ TakeBad
    BY <1>1, <2>6 DEF Taken, Subscribe, Take, TakeStop, TakeKill, TakeStart,
                      TakePause, TakeOther, TakeBad
  <2>7. CASE Exit \/ Crash \/ SigKill \/ Restart
    BY <1>1, <2>7 DEF Exit, Crash, SigKill, Restart, Taken
  <2>8. CASE ExAccepts \/ ExRefuses \/ ExFills
    BY <2>4, <2>8 DEF ExAccepts, ExRefuses, ExFills
  <2>9. CASE SigTerm
    <3>1. /\ UNCHANGED <<listener, bar, done>> /\ running' = FALSE
      BY <2>9 DEF SigTerm
    <3>2. CASE running
      <4>1. LoopsLeft = 6 /\ LoopsLeft' \in 0..5
        BY <3>1, <3>2, LeftBoundsNext DEF LoopsLeft, Bounds
      <4>2. WayLeft' < WayLeft
        BY <3>1, <4>1, LoopNearer
      <4> QED BY <1>1, <2>1, <3>1, <4>2 DEF Taken
    <3>3. CASE ~running
      <4>1. running' = running
        BY <1>1, <3>1, <3>3, Zenon DEF Inv, TypeOK
      <4> QED BY <2>4, <3>1, <4>1
    <3> QED BY <3>2, <3>3
  <2>10. CASE UNCHANGED vars
    BY <2>4, <2>10 DEF vars
  <2> QED BY <1>1, <2>2, <2>3, <2>4, <2>5, <2>6, <2>7, <2>8, <2>9, <2>10 DEF Next
<1>2. Inv /\ [Next]_vars
        => [Taken /\ up' =>
              /\ Taken' /\ WayLeft' <= WayLeft
              /\ listener' # listener
                    \/ (~running /\ <<bar, done>>' # <<bar, done>>)
                 => WayLeft' < WayLeft]_vars
  BY <1>1
<1> QED BY <1>2, Invariance, PTL DEF Spec, NoWayBack

\* and where nothing is left of it, gather() returns.
THEOREM ArrivedAlways == Spec => []Arrived
<1>1. ASSUME Inv, DoneInv PROVE Arrived
  <2> SUFFICES ASSUME Taken, WayLeft = 0 PROVE done = Loops
    BY DEF Arrived
  <2>1. KillLeft = 0 /\ LoopsLeft = 0
    BY LeftBounds DEF Bounds
  <2>2. listener = "done"
    BY <1>1, <2>1 DEF Taken, Inv, TypeOK, ListenerPC, KillSteps, KillLeft
  <2>3. MarketLeft = 0 /\ LoopLeft("heartbeat") = 0 /\ LoopLeft("reconcile") = 0
    <3>1. MarketLeft \in 0..3
      BY DEF MarketLeft
    <3>2. LoopLeft("heartbeat") \in 0..1 /\ LoopLeft("reconcile") \in 0..1
      BY DEF LoopLeft
    <3> QED BY <2>1, <3>1, <3>2 DEF LoopsLeft
  <2>4. bar = "done"
    BY <1>1, <2>3 DEF Inv, TypeOK, MarketLeft
  <2>5. "heartbeat" \in done /\ "reconcile" \in done
    BY <2>3 DEF LoopLeft
  <2>6. "cmd" \in done /\ "market" \in done
    BY <1>1, <2>2, <2>4 DEF DoneInv
  <2>7. done \in SUBSET Loops
    BY <1>1 DEF Inv, TypeOK
  <2> QED BY <2>5, <2>6, <2>7 DEF Loops
<1>2. Spec => []DoneInv
  BY DoneInitially, DoneNext, PTL DEF Spec
<1> QED BY <1>1, <1>2, Invariance, PTL
=============================================================================
