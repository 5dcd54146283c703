------------------------ MODULE PollerLifecycleProofs ------------------------
(***************************************************************************)
(* Proofs about PollerLifecycle, for every set of callers and any number   *)
(* of runs.  The invariant says whose run it is: only the run whose        *)
(* generation doneChan holds may be alive, the poller is marked running    *)
(* exactly then, and a done channel is closed exactly when its run is gone.*)
(***************************************************************************)
EXTENDS PollerLifecycle, TLAPS

\* The runs that were begun, and how far the last one is.
RunsInv ==
    /\ \A g \in Runs : loop[g] = "none" <=> g > started
    /\ \A g \in Runs : Alive(g) => g = doneChan
    /\ running <=> doneChan \in Runs
    /\ running => Alive(doneChan)

\* The channels of a run follow it: its done channel is closed when it is
\* gone, and while it runs its stop channel is in the field until closed.
ChannelsInv ==
    /\ \A g \in Runs : g \in doneClosed <=> loop[g] = "gone"
    /\ running => stopChan \in {doneChan, Nil}
    /\ stopClosed \subseteq 1 .. started

\* A caller that went through Stop holds the channel of a run that was begun,
\* and one that came back saw it closed.
CallersInv ==
    /\ \A c \in Callers :
           caller[c].at \in {"cancel", "wait", "stopped"} => caller[c].gen \in 1 .. started
    /\ \A c \in Callers : caller[c].at = "stopped" => caller[c].gen \in doneClosed

IInv == TypeOK /\ RunsInv /\ ChannelsInv /\ CallersInv /\ NoDoubleClose

-----------------------------------------------------------------------------
LEMMA InitIInv == Init => IInv
<1> USE LifecycleAssumption DEF Init, Runs, Generations, Free, Nil
<1> SUFFICES ASSUME Init PROVE IInv
  OBVIOUS
<1>1. TypeOK
  <2>1. caller \in [Callers -> {Free} \union
                        [at : {"cancel", "wait", "stopped", "send"}, gen : 0 .. started]]
    OBVIOUS
  <2>2. started \in Generations /\ loop \in [Runs -> {"none"}]
    OBVIOUS
  <2>3. running \in BOOLEAN /\ panicked \in BOOLEAN
    BY Zenon
  <2>4. /\ {stopChan, doneChan, triggerChan} \subseteq (0 .. started) \union {Nil}
        /\ stopChan \notin stopClosed /\ triggered \subseteq 0 .. started
        /\ stopClosed \subseteq Generations /\ doneClosed \subseteq 1 .. started
        /\ cancelled \subseteq Runs
    OBVIOUS
  <2> QED BY <2>1, <2>2, <2>3, <2>4 DEF TypeOK
<1>2. RunsInv
  BY DEF RunsInv, Alive
<1>3. ChannelsInv /\ CallersInv /\ NoDoubleClose
  BY DEF ChannelsInv, CallersInv, NoDoubleClose
<1> QED BY <1>1, <1>2, <1>3 DEF IInv

\* The steps of a caller up to Stop's unlock.
LEMMA StartInv == ASSUME IInv, NEW c \in Callers, Start(c) PROVE IInv'
<1> USE LifecycleAssumption DEF Runs, Generations, Free, Nil
<1>1. TypeOK'
  BY DEF Start, IInv, TypeOK, ChannelsInv, channels
<1>2. RunsInv'
  BY DEF Start, IInv, TypeOK, RunsInv, ChannelsInv, Alive, channels
<1>3. ChannelsInv'
  BY DEF Start, IInv, TypeOK, RunsInv, ChannelsInv, Alive, channels
<1>4. CallersInv' /\ NoDoubleClose'
  BY DEF Start, IInv, TypeOK, CallersInv, NoDoubleClose, channels
<1> QED BY <1>1, <1>2, <1>3, <1>4 DEF IInv

LEMMA StopInv == ASSUME IInv, NEW c \in Callers, Stop(c) PROVE IInv'
<1> USE LifecycleAssumption DEF Runs, Generations, Free, Nil
<1> DEFINE r == [at |-> "cancel", gen |-> doneChan]
<1>1. /\ doneChan \in 1 .. started /\ doneChan \in Runs
      /\ r.at = "cancel" /\ r.gen = doneChan
      /\ r \in [at : {"cancel", "wait", "stopped", "send"}, gen : 0 .. started]
  BY DEF Stop, IInv, TypeOK, RunsInv, Alive
<1>0. CloseStop /\ running
  BY DEF Stop
<1>2. panicked' = FALSE /\ stopClosed' \subseteq 1 .. started
  <2>1. CASE stopChan = Nil
    BY <1>0, <2>1, Zenon DEF CloseStop, IInv, TypeOK, ChannelsInv, NoDoubleClose
  <2>2. CASE stopChan # Nil
    <3>1. stopChan \notin stopClosed /\ stopChan = doneChan
      BY <1>0, <2>2 DEF IInv, TypeOK, ChannelsInv
    <3>2. stopClosed' \subseteq 1 .. started
      BY <1>0, <1>1, <2>2, <3>1 DEF CloseStop, IInv, ChannelsInv
    <3> QED BY <1>0, <2>2, <3>1, <3>2, Zenon DEF CloseStop, IInv, NoDoubleClose
  <2> QED BY <2>1, <2>2
<1>6. TypeOK'
  <2>1. running' \in BOOLEAN /\ panicked' \in BOOLEAN
    BY <1>2, Zenon DEF Stop, RunningInStop, IInv, TypeOK
  <2>2. /\ {stopChan', doneChan', triggerChan'} \subseteq (0 .. started) \union {Nil}
        /\ stopChan' \notin stopClosed'
    BY <1>1, <1>2 DEF Stop, CloseStop, IInv, TypeOK
  <2> QED BY <1>1, <1>2, <2>1, <2>2 DEF Stop, IInv, TypeOK
<1>3. RunsInv'
  BY DEF Stop, CloseStop, RunningInStop, IInv, RunsInv, Alive
<1>4. ChannelsInv'
  BY <1>2 DEF Stop, CloseStop, RunningInStop, IInv, ChannelsInv
<1>5. CallersInv'
  BY <1>1 DEF Stop, IInv, TypeOK, CallersInv
<1> QED BY <1>2, <1>6, <1>3, <1>4, <1>5 DEF IInv, NoDoubleClose

\* The steps of a caller that move nothing of the poller but one set.
LEMMA CallerInv ==
    ASSUME IInv, NEW c \in Callers, TriggerPoll(c) \/ Resume(c) \/ CallerStep(c)
    PROVE  IInv'
<1> USE LifecycleAssumption DEF Runs, Generations, Free, Nil
<1> USE DEF IInv, fields, channels
<1>1. CASE TriggerPoll(c)
  BY <1>1 DEF TriggerPoll, TypeOK, RunsInv, ChannelsInv, CallersInv, NoDoubleClose, Alive
<1>2. CASE Resume(c)
  BY <1>2 DEF Resume, TypeOK, RunsInv, ChannelsInv, CallersInv, NoDoubleClose, Alive
<1>3. CASE CancelRun(c)
  BY <1>3 DEF CancelRun, TypeOK, RunsInv, ChannelsInv, CallersInv, NoDoubleClose, Alive
<1>4. CASE StopReturns(c)
  BY <1>4 DEF StopReturns, Awaited, TypeOK, RunsInv, ChannelsInv, CallersInv,
              NoDoubleClose, Alive
<1>5. CASE SendTrigger(c)
  <2>1. caller[c].gen \in 0 .. started
    BY <1>5 DEF SendTrigger, TypeOK
  <2>2. TypeOK'
    BY <1>5, <2>1 DEF SendTrigger, TypeOK
  <2>3. RunsInv' /\ ChannelsInv' /\ CallersInv' /\ NoDoubleClose'
    BY <1>5 DEF SendTrigger, TypeOK, RunsInv, ChannelsInv, CallersInv, NoDoubleClose, Alive
  <2> QED BY <2>2, <2>3
<1> QED BY <1>1, <1>2, <1>3, <1>4, <1>5 DEF CallerStep

\* The steps of the loop that end nothing.
LEMMA LoopInv ==
    ASSUME IInv, NEW g \in Runs, LoopStep(g) \/ SeeStop(g) \/ TakeTrigger(g)
    PROVE  IInv'
<1> USE LifecycleAssumption DEF Runs, Generations, Free, Nil
<1> USE DEF IInv, fields, channels
<1>1. /\ Alive(g) /\ loop[g] \notin {"none", "gone"}
      /\ \E p \in {"exit", "refresh", "cleanup", "poll", "select"} :
             loop' = [loop EXCEPT ![g] = p]
  BY DEF LoopStep, SeeStop, TakeTrigger, StartUp, WorkEnds, TickerFires, Goto, Alive
<1>2. /\ UNCHANGED <<backend, started, fields, stopClosed, doneClosed, cancelled, caller, panicked>>
      /\ triggered' \subseteq triggered
  BY DEF LoopStep, SeeStop, TakeTrigger
<1>3. TypeOK'
  BY <1>1, <1>2 DEF TypeOK
<1>4. RunsInv'
  BY <1>1, <1>2 DEF TypeOK, RunsInv, Alive
<1>5. ChannelsInv' /\ CallersInv' /\ NoDoubleClose'
  BY <1>1, <1>2 DEF TypeOK, ChannelsInv, CallersInv, NoDoubleClose
<1> QED BY <1>3, <1>4, <1>5

\* The deferred function: the reset under the lock, then the close.
LEMMA SettleInv == ASSUME IInv, NEW g \in Runs, Settle(g) PROVE IInv'
<1> USE LifecycleAssumption DEF Runs, Generations, Free, Nil
<1> USE DEF IInv, fields, channels
<1>1. doneChan = g /\ Alive(g)
  BY DEF Settle, RunsInv, Alive
<1>2. TypeOK'
  <2>1. running' \in BOOLEAN /\ panicked' \in BOOLEAN
    BY <1>1, Zenon DEF Settle, Reset, TypeOK
  <2> QED BY <1>1, <2>1 DEF Settle, Reset, Goto, TypeOK, ChannelsInv
<1>3. RunsInv'
  BY <1>1 DEF Settle, Reset, Goto, TypeOK, RunsInv, Alive
<1>4. ChannelsInv' /\ CallersInv' /\ NoDoubleClose'
  BY <1>1 DEF Settle, Reset, Goto, TypeOK, RunsInv, ChannelsInv, CallersInv, NoDoubleClose
<1> QED BY <1>2, <1>3, <1>4

LEMMA CloseDoneInv == ASSUME IInv, NEW g \in Runs, CloseDone(g) PROVE IInv'
<1> USE LifecycleAssumption DEF Runs, Generations, Free, Nil
<1> USE DEF IInv, fields
<1>1. ~Alive(g) /\ g \notin doneClosed /\ g \in 1 .. started
  BY DEF CloseDone, TypeOK, RunsInv, ChannelsInv, Alive
<1>2. TypeOK' /\ NoDoubleClose'
  BY <1>1 DEF CloseDone, Goto, TypeOK, NoDoubleClose
<1>3. RunsInv'
  BY <1>1 DEF CloseDone, Goto, TypeOK, RunsInv, Alive
<1>4. ChannelsInv' /\ CallersInv'
  BY <1>1 DEF CloseDone, Goto, TypeOK, ChannelsInv, CallersInv
<1> QED BY <1>2, <1>3, <1>4

LEMMA StepIInv == IInv /\ [Next]_vars => IInv'
<1> SUFFICES ASSUME IInv, [Next]_vars PROVE IInv'
  OBVIOUS
<1>1. ASSUME NEW c \in Callers,
             Start(c) \/ Stop(c) \/ TriggerPoll(c) \/ Resume(c) \/ CallerStep(c)
      PROVE  IInv'
  BY <1>1, StartInv, StopInv, CallerInv
<1>2. ASSUME NEW g \in Runs, RunStep(g) PROVE IInv'
  BY <1>2, LoopInv, SettleInv, CloseDoneInv DEF RunStep
<1>3. CASE ParentCancelled
  BY <1>3 DEF ParentCancelled, IInv, TypeOK, RunsInv, ChannelsInv, CallersInv,
              NoDoubleClose, Alive, fields
<1>4. CASE UNCHANGED vars
  BY <1>4 DEF vars, fields, channels, IInv, TypeOK, RunsInv, ChannelsInv, CallersInv,
              NoDoubleClose, Alive
<1> QED BY <1>1, <1>2, <1>3, <1>4 DEF Next

LEMMA Inductive == Spec => []IInv
BY InitIInv, StepIInv, PTL DEF Spec

-----------------------------------------------------------------------------
\* The poller's fields and channels keep their types; the stop channel in
\* the field is never a closed one.
THEOREM Typing == Spec => []TypeOK
<1>1. IInv => TypeOK
  BY DEF IInv
<1> QED BY <1>1, Inductive, PTL

\* However Start, Stop and the end of a run interleave, at most one run of a
\* poller polls (Start's comment: it cannot overlap two poll loops).
THEOREM OneLoopAtATime == Spec => []OneLoop
<1>1. IInv => OneLoop
  BY DEF IInv, RunsInv, OneLoop
<1> QED BY <1>1, Inductive, PTL

\* A Stop that returned leaves its run dead for good, also when several
\* callers stop the same run or another one starts the next.
THEOREM StopIsFinal == Spec => []StopMeansStopped
<1>1. IInv => StopMeansStopped
  BY LifecycleAssumption
     DEF IInv, TypeOK, ChannelsInv, CallersInv, StopMeansStopped, Alive, Runs, Generations
<1> QED BY <1>1, Inductive, PTL

\* Neither the stop channel nor a done channel is closed a second time.
THEOREM ChannelsCloseOnce == Spec => []NoDoubleClose
<1>1. IInv => NoDoubleClose
  BY DEF IInv
<1> QED BY <1>1, Inductive, PTL
=============================================================================
