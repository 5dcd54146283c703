--------------------------- MODULE PollerLifecycle ---------------------------
(***************************************************************************)
(* Start, Stop and TriggerPoll of one Poller, called concurrently, and the *)
(* goroutine that run is.  Every Start that begins a run makes the three   *)
(* channels and the context anew; the generation of a run names them all,  *)
(* and generation 0 names the channels NewPoller made, which no run reads. *)
(*                                                                         *)
(* What a poll, a cleanup or a device refresh does is left out: they are   *)
(* steps of the loop that may take arbitrarily long, but end.              *)
(***************************************************************************)
EXTENDS Naturals, FiniteSets

CONSTANTS
    Callers,    \* goroutines that use the poller
    MaxRuns     \* bound: how many runs Start may begin

ASSUME LifecycleAssumption == MaxRuns \in Nat /\ IsFiniteSet(Callers)

Runs == 1 .. MaxRuns
Generations == 0 .. MaxRuns

VARIABLES
    backend,        \* whether the poller has a store and a source
    started,        \* how many runs were begun
    \* fields of the Poller, under p.mu; Nil for a nil channel
    running, stopChan, doneChan, triggerChan,
    \* the channels and contexts by generation
    stopClosed, doneClosed, triggered, cancelled,
    loop,           \* where the goroutine of each run is
    caller,         \* where each caller is
    panicked        \* whether a closed channel was closed again

fields == <<running, stopChan, doneChan, triggerChan>>
channels == <<stopClosed, doneClosed, triggered, cancelled>>
vars == <<backend, started, fields, channels, loop, caller, panicked>>

Nil == MaxRuns + 1
Free == [at |-> "free"]

Init ==
    /\ backend \in BOOLEAN
    /\ started = 0 /\ running = FALSE
    /\ stopChan = 0 /\ doneChan = 0 /\ triggerChan = 0
    /\ stopClosed = {} /\ doneClosed = {} /\ triggered = {} /\ cancelled = {}
    /\ loop = [g \in Runs |-> "none"]
    /\ caller = [c \in Callers |-> Free]
    /\ panicked = FALSE

-----------------------------------------------------------------------------
(* The callers                                                              *)

\* Start: a no-op while a run is on, else a new generation and its goroutine.
Start(c) ==
    /\ caller[c] = Free /\ ~running /\ started < MaxRuns
    /\ started' = started + 1
    /\ running' = TRUE
    /\ stopChan' = started' /\ doneChan' = started' /\ triggerChan' = started'
    /\ loop' = [loop EXCEPT ![started'] = "start"]
    /\ UNCHANGED <<backend, channels, caller, panicked>>

\* Mutant: the channel is closed but the field still holds it.
CloseStop_KeepField ==
    /\ stopClosed' = stopClosed \union {stopChan}
    /\ panicked' = (panicked \/ stopChan \in stopClosed)
    /\ UNCHANGED stopChan

\* Only the first concurrent Stop closes the channel.
CloseStop ==
    IF stopChan = Nil THEN UNCHANGED <<stopClosed, panicked, stopChan>>
    ELSE /\ stopClosed' = stopClosed \union {stopChan}
         /\ panicked' = (panicked \/ stopChan \in stopClosed)
         /\ stopChan' = Nil

\* Mutant: the poller counts as stopped as soon as Stop is called.
RunningInStop_Early == FALSE

\* Stop leaves the flag to the run, which clears it when it is over.
RunningInStop == running

\* Stop, up to the unlock; nothing to do when no run is on.
Stop(c) ==
    /\ caller[c] = Free /\ running
    /\ CloseStop
    /\ triggerChan' = Nil
    /\ running' = RunningInStop
    /\ caller' = [caller EXCEPT ![c] = [at |-> "cancel", gen |-> doneChan]]
    /\ UNCHANGED <<backend, started, doneChan, doneClosed, triggered, cancelled, loop>>

CancelRun(c) ==
    /\ caller[c].at = "cancel"
    /\ cancelled' = cancelled \union {caller[c].gen}
    /\ caller' = [caller EXCEPT ![c].at = "wait"]
    /\ UNCHANGED <<backend, started, fields, stopClosed, doneClosed, triggered, loop, panicked>>

\* Mutant: Stop returns without waiting for the run.
Awaited_Never(g) == TRUE

\* <-doneChan.
Awaited(g) == g \in doneClosed

StopReturns(c) ==
    /\ caller[c].at = "wait" /\ Awaited(caller[c].gen)
    /\ caller' = [caller EXCEPT ![c] = [at |-> "stopped", gen |-> caller[c].gen]]
    /\ UNCHANGED <<backend, started, fields, channels, loop, panicked>>

\* The caller goes on to other work, and may call again.
Resume(c) ==
    /\ caller[c].at = "stopped"
    /\ caller' = [caller EXCEPT ![c] = Free]
    /\ UNCHANGED <<backend, started, fields, channels, loop, panicked>>

\* TriggerPoll reads the channel under the lock and sends outside it.
TriggerPoll(c) ==
    /\ caller[c] = Free /\ triggerChan # Nil
    /\ caller' = [caller EXCEPT ![c] = [at |-> "send", gen |-> triggerChan]]
    /\ UNCHANGED <<backend, started, fields, channels, loop, panicked>>

\* The send never blocks: the channel holds one trigger, a second is dropped.
SendTrigger(c) ==
    /\ caller[c].at = "send"
    /\ triggered' = triggered \union {caller[c].gen}
    /\ caller' = [caller EXCEPT ![c] = Free]
    /\ UNCHANGED <<backend, started, fields, stopClosed, doneClosed, cancelled, loop, panicked>>

\* The context given to Start is cancelled.
ParentCancelled ==
    /\ cancelled # Runs
    /\ cancelled' = Runs
    /\ UNCHANGED <<backend, started, fields, stopClosed, doneClosed, triggered,
                   loop, caller, panicked>>

-----------------------------------------------------------------------------
(* run                                                                      *)

Goto(g, where) == loop' = [loop EXCEPT ![g] = where]

\* The steps before the loop, each followed by a check of the context: the
\* device refresh, the check for a backend, the cleanup.
StartUp(g) ==
    \/ /\ loop[g] = "start"
       /\ Goto(g, IF g \in cancelled THEN "exit" ELSE "refresh")
    \/ /\ loop[g] = "refresh"
       /\ Goto(g, IF g \in cancelled \/ ~backend THEN "exit" ELSE "cleanup")
    \/ /\ loop[g] = "cleanup"
       /\ Goto(g, IF g \in cancelled THEN "exit" ELSE "poll")

\* pollAndRecord and a scheduled cleanup end, whatever their outcome.
WorkEnds(g) == loop[g] = "poll" /\ Goto(g, "select")

\* select takes any case that is ready, not the first one: the tickers may
\* fire once more on a run that was told to stop.
TickerFires(g) == loop[g] = "select" /\ Goto(g, "poll")

LoopStep(g) ==
    /\ StartUp(g) \/ WorkEnds(g) \/ TickerFires(g)
    /\ UNCHANGED <<backend, started, fields, channels, caller, panicked>>

\* Mutant: the run was handed the channel from before Start made a new one.
TriggerReady_Old(g) == g - 1 \in triggered

TriggerReady(g) == g \in triggered

TakeTrigger(g) ==
    /\ loop[g] = "select" /\ TriggerReady(g)
    /\ triggered' = triggered \ {g}
    /\ Goto(g, "poll")
    /\ UNCHANGED <<backend, started, fields, stopClosed, doneClosed, cancelled,
                   caller, panicked>>

\* Mutant: the loop watches the field, which Stop has set to nil.
StopReady_Field(g) == g = stopChan /\ g \in stopClosed

StopReady(g) == g \in cancelled \/ g \in stopClosed

SeeStop(g) ==
    /\ loop[g] = "select" /\ StopReady(g)
    /\ Goto(g, "exit")
    /\ UNCHANGED <<backend, started, fields, channels, caller, panicked>>

\* The deferred function, up to its unlock.
Reset(g) ==
    IF doneChan = g
      THEN /\ running' = FALSE
           /\ doneChan' = Nil /\ stopChan' = Nil /\ triggerChan' = Nil
    ELSE UNCHANGED fields

Settle(g) ==
    /\ loop[g] = "exit"
    /\ Reset(g)
    /\ Goto(g, "closing")
    /\ UNCHANGED <<backend, started, channels, caller, panicked>>

CloseDone(g) ==
    /\ loop[g] = "closing"
    /\ doneClosed' = doneClosed \union {g}
    /\ panicked' = (panicked \/ g \in doneClosed)
    /\ Goto(g, "gone")
    /\ UNCHANGED <<backend, started, fields, stopClosed, triggered, cancelled, caller>>

-----------------------------------------------------------------------------
CallerStep(c) == CancelRun(c) \/ StopReturns(c) \/ SendTrigger(c)

RunStep(g) == LoopStep(g) \/ SeeStop(g) \/ TakeTrigger(g) \/ Settle(g) \/ CloseDone(g)

Next ==
    \/ \E c \in Callers : Start(c) \/ Stop(c) \/ TriggerPoll(c) \/ Resume(c) \/ CallerStep(c)
    \/ \E g \in Runs : RunStep(g)
    \/ ParentCancelled

\* Goroutines run on; select chooses at random among the cases that are
\* ready, so a case that stays ready is not passed over for ever.
Fairness ==
    /\ \A c \in Callers : WF_vars(CallerStep(c))
    /\ \A g \in Runs : WF_vars(RunStep(g)) /\ SF_vars(SeeStop(g)) /\ SF_vars(TakeTrigger(g))

Spec == Init /\ [][Next]_vars /\ Fairness

-----------------------------------------------------------------------------
Alive(g) == loop[g] \in {"start", "refresh", "cleanup", "poll", "select", "exit"}

\* The variables keep their types, no channel field names a generation that
\* was never made, and none that Stop could close again.
TypeOK ==
    /\ backend \in BOOLEAN /\ started \in Generations /\ running \in BOOLEAN
    /\ {stopChan, doneChan, triggerChan} \subseteq (0 .. started) \union {Nil}
    /\ stopChan \notin stopClosed
    /\ stopClosed \subseteq Generations /\ doneClosed \subseteq 1 .. started
    /\ triggered \subseteq 0 .. started /\ cancelled \subseteq Runs
    /\ loop \in [Runs -> {"none", "start", "refresh", "cleanup", "poll", "select",
                          "exit", "closing", "gone"}]
    /\ caller \in [Callers -> {Free} \union
                              [at : {"cancel", "wait", "stopped", "send"}, gen : 0 .. started]]
    /\ panicked \in BOOLEAN

\* A concurrent Start cannot overlap two poll loops.
OneLoop == \A g, h \in Runs : Alive(g) /\ Alive(h) => g = h

\* When Stop returns, the run it stopped does no more work, whoever else
\* called Stop or Start meanwhile.
StopMeansStopped == \A c \in Callers : caller[c].at = "stopped" => ~Alive(caller[c].gen)

\* No interleaving closes a channel twice, which would panic.
NoDoubleClose == ~panicked

\* Every Stop returns.
StopEnds == \A c \in Callers : caller[c].at = "cancel" ~> caller[c].at = "stopped"

\* A trigger that reached the channel of a live run causes a poll, or the
\* run ends first.
TriggerIsServed ==
    \A g \in Runs : (g \in triggered /\ Alive(g)) ~> (g \notin triggered \/ ~Alive(g))
=============================================================================
