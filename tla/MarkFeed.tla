------------------------------ MODULE MarkFeed ------------------------------
(***************************************************************************)
(* The services that watch open loans.  The mark loop keeps one poller per *)
(* loan of the registry; a poller fetches the venue's trades on a timer    *)
(* and signs a mark, a sparse signal, or a gap on the first failure of an  *)
(* outage.  The settlement watch looks through the registry on a timer and *)
(* signs one trace for a loan past its maturity; its ticks may overlap.    *)
(* An action ends where the code awaits; the process may stop at any of    *)
(* them, and starts again from the event log.  An append rejects with or   *)
(* without its line in the log: the flush or the index may be what failed. *)
(*                                                                         *)
(* The log is kept as what the properties ask of it, per loan.             *)
(***************************************************************************)
EXTENDS Twap

CONSTANTS
  Loans,
  Ticks,        \* ticks of the settlement watch that run at once
  MaxHalts,     \* bound: stops of the process
  MaxMisfires   \* bound: appends of a loan's trace that write it and reject

ASSUME FeedAssumption == IsFiniteSet(Ticks) /\ MaxHalts \in Nat /\ MaxMisfires \in Nat

VARIABLES
  up,           \* the process runs
  registry,     \* LoanRegistry: the loans believed active
  pumping,      \* loans whose poller pumps: running, and its loop not left
  step,         \* where each poller stands in its tick
  fetched,      \* the trades it is building its mark of
  failing,      \* failureState: the poller's last fetch failed
  seen,         \* settlement watch: loans traced in this life
  todo,         \* loans a tick of the watch has still to look at ...
  emitting,     \* ... and the one whose trace it is appending
  mature,       \* loans past their maturity
  opened, closed,   \* the log: loans with an origination, a closing event
  late,         \* the log: observations of a loan after its removal
  gaps,         \* the log: gaps of a loan since its last good fetch or boot
  traces,       \* the log: maturity traces of a loan
  told,         \* history: loans traced since the last boot
  misfires,     \* history: traces of a loan whose append rejected
  unlogged,     \* history: loans whose gap could not be appended
  halts         \* history

pollers == <<pumping, step, fetched, failing>>
watch == <<seen, todo, emitting>>
tracing == <<traces, told, misfires>>
logged == <<opened, closed, late, gaps, tracing, unlogged>>
feedVars == <<up, registry, pollers, watch, mature, logged, halts>>

FeedInit ==
  /\ up = FALSE /\ registry = {}
  /\ pumping = {} /\ step = [l \in Loans |-> "idle"] /\ failing = {}
  /\ fetched = [l \in Loans |-> <<>>]
  /\ seen = {} /\ todo = [t \in Ticks |-> {}] /\ emitting = [t \in Ticks |-> {}]
  /\ mature = {} /\ opened = {} /\ closed = {}
  /\ late = [l \in Loans |-> 0] /\ gaps = [l \in Loans |-> 0]
  /\ traces = [l \in Loans |-> 0] /\ told = {} /\ misfires = [l \in Loans |-> 0]
  /\ unlogged = {} /\ halts = 0

-----------------------------------------------------------------------------
(* Loans open and close; the process starts and stops.                     *)

\* bootstrap hydrates the registry from the log, markLoop.start a poller each.
Boot ==
  /\ ~up /\ up' = TRUE
  /\ registry' = opened \ closed
  /\ pumping' = opened \ closed
  /\ UNCHANGED <<step, fetched, failing, watch, mature, logged, halts>>

\* An exit or a kill.  markLoop.stop waits for no tick of its pollers.
Halt ==
  /\ up /\ halts < MaxHalts
  /\ halts' = halts + 1
  /\ up' = FALSE /\ registry' = {}
  /\ pumping' = {} /\ step' = [l \in Loans |-> "idle"] /\ failing' = {}
  /\ fetched' = [l \in Loans |-> <<>>]
  /\ seen' = {} /\ todo' = [t \in Ticks |-> {}] /\ emitting' = [t \in Ticks |-> {}]
  /\ gaps' = [l \in Loans |-> 0] /\ told' = {} /\ unlogged' = {}
  /\ UNCHANGED <<mature, opened, closed, late, traces, misfires>>

Mature(l) ==
  /\ l \notin mature
  /\ mature' = mature \cup {l}
  /\ UNCHANGED <<up, registry, pollers, watch, logged, halts>>

\* An origination is signed and registered: onChange starts a poller.
Add(l) ==
  /\ up /\ l \notin opened
  /\ opened' = opened \cup {l}
  /\ registry' = registry \cup {l}
  /\ pumping' = pumping \cup {l}
  /\ UNCHANGED <<up, step, fetched, failing, watch, mature, closed, late, gaps, tracing, unlogged, halts>>

\* Mutant: onChange forgets the handle of a removed loan and leaves it running.
RemoveHandleOnly(l) ==
  /\ up /\ l \in registry
  /\ closed' = closed \cup {l}
  /\ registry' = registry \ {l}
  /\ UNCHANGED <<up, pollers, watch, mature, opened, late, gaps, tracing, unlogged, halts>>

\* A closing event is signed and the loan removed: onChange stops its poller.
Remove(l) ==
  /\ up /\ l \in registry
  /\ closed' = closed \cup {l}
  /\ registry' = registry \ {l}
  /\ pumping' = pumping \ {l}
  /\ UNCHANGED <<up, step, fetched, failing, watch, mature, opened, late, gaps, tracing, unlogged, halts>>

\* The append of the closing event rejects after its line is in the log: the
\* settlement ends there, the loan stays registered and its poller running.
Strand(l) ==
  /\ up /\ l \in registry
  /\ closed' = closed \cup {l}
  /\ UNCHANGED <<up, registry, pollers, watch, mature, opened, late, gaps, tracing, unlogged, halts>>

-----------------------------------------------------------------------------
(* A poller.                                                               *)

Outcomes == {"observation", "gap"}

MovesTo(l, s) == step' = [step EXCEPT ![l] = s]

\* pump, after its sleep.
Tick(l) ==
  /\ l \in pumping /\ step[l] = "idle"
  /\ MovesTo(l, "fetching")
  /\ UNCHANGED <<up, registry, pumping, fetched, failing, watch, mature, logged, halts>>

\* The trades arrive: a mark of them is to be appended, or a sparse signal if
\* they give none.
FetchOk(l) ==
  /\ step[l] = "fetching"
  /\ MovesTo(l, "observation")
  /\ \E list \in VenueLists : fetched' = [fetched EXCEPT ![l] = list]
  /\ failing' = failing \ {l}
  /\ gaps' = [gaps EXCEPT ![l] = 0]
  /\ unlogged' = unlogged \ {l}
  /\ UNCHANGED <<up, registry, pumping, watch, mature, opened, closed, late, tracing, halts>>

\* Mutant: every failed fetch reports a gap.
FetchFailsAgain(l) ==
  /\ step[l] = "fetching"
  /\ failing' = failing \cup {l}
  /\ MovesTo(l, "gap")
  /\ UNCHANGED <<up, registry, pumping, fetched, watch, mature, logged, halts>>

\* The fetch fails: the first time in a row a gap is to be appended.
FetchFails(l) ==
  /\ step[l] = "fetching"
  /\ failing' = failing \cup {l}
  /\ MovesTo(l, IF l \in failing THEN "idle" ELSE "gap")
  /\ UNCHANGED <<up, registry, pumping, fetched, watch, mature, logged, halts>>

\* The line is written, whether the append then resolves or rejects: the pump
\* goes on alike, the failure state was set before.
Emit(l) ==
  /\ step[l] \in Outcomes
  /\ MovesTo(l, "idle")
  /\ fetched' = [fetched EXCEPT ![l] = <<>>]
  /\ late' = IF l \in registry THEN late ELSE [late EXCEPT ![l] = @ + 1]
  /\ gaps' = IF step[l] = "gap" THEN [gaps EXCEPT ![l] = @ + 1] ELSE gaps
  /\ UNCHANGED <<up, registry, pumping, failing, watch, mature, opened, closed,
                 tracing, unlogged, halts>>

\* Mutant: the pump does not catch what its tick throws.
EmitFailsPump(l) ==
  /\ step[l] \in Outcomes
  /\ MovesTo(l, "left")
  /\ fetched' = [fetched EXCEPT ![l] = <<>>]
  /\ unlogged' = IF step[l] = "gap" THEN unlogged \cup {l} ELSE unlogged
  /\ UNCHANGED <<up, registry, pumping, failing, watch, mature, opened, closed,
                 late, gaps, tracing, halts>>

\* The append rejects with nothing written: the tick throws, the pump goes on.
EmitFails(l) ==
  /\ step[l] \in Outcomes
  /\ MovesTo(l, "idle")
  /\ fetched' = [fetched EXCEPT ![l] = <<>>]
  /\ unlogged' = IF step[l] = "gap" THEN unlogged \cup {l} ELSE unlogged
  /\ UNCHANGED <<up, registry, pumping, failing, watch, mature, opened, closed,
                 late, gaps, tracing, halts>>

-----------------------------------------------------------------------------
(* The settlement watch.                                                   *)

Idle(t) == todo[t] = {} /\ emitting[t] = {}

\* The interval fires, whether or not the last tick is over.
WatchTick(t) ==
  /\ up /\ Idle(t)
  /\ todo' = [todo EXCEPT ![t] = registry \cap mature]
  /\ UNCHANGED <<up, registry, pollers, seen, emitting, mature, logged, halts>>

\* Mutant: a loan is marked as traced before its trace is appended.
LookAndMark(t, l) ==
  /\ emitting[t] = {} /\ l \in todo[t]
  /\ todo' = [todo EXCEPT ![t] = @ \ {l}]
  /\ emitting' = [emitting EXCEPT ![t] = {l} \ seen]
  /\ seen' = seen \cup {l}
  /\ UNCHANGED <<up, registry, pollers, mature, logged, halts>>

\* The next loan of the snapshot, if it was not traced.
Look(t, l) ==
  /\ emitting[t] = {} /\ l \in todo[t]
  /\ todo' = [todo EXCEPT ![t] = @ \ {l}]
  /\ emitting' = [emitting EXCEPT ![t] = {l} \ seen]
  /\ UNCHANGED <<up, registry, pollers, seen, mature, logged, halts>>

\* The trace a tick appends is in the log.
Trace(t, l) ==
  /\ l \in emitting[t]
  /\ traces' = [traces EXCEPT ![l] = @ + 1]
  /\ told' = told \cup {l}
  /\ emitting' = [emitting EXCEPT ![t] = {}]
  /\ UNCHANGED <<up, registry, pollers, todo, mature, opened, closed, late, gaps, unlogged, halts>>

\* Mutant: the loan is not marked as traced.
TracedUnseen(t, l) == Trace(t, l) /\ UNCHANGED <<seen, misfires>>

\* The append resolves: the loan is marked.
Traced(t, l) ==
  /\ Trace(t, l)
  /\ seen' = seen \cup {l}
  /\ UNCHANGED misfires

\* It rejects, the line written: the loan is not marked, a later tick traces it
\* again.
TraceUnmarked(t, l) ==
  /\ misfires[l] < MaxMisfires
  /\ Trace(t, l)
  /\ misfires' = [misfires EXCEPT ![l] = @ + 1]
  /\ UNCHANGED seen

\* It rejects, nothing written.
TraceFails(t) ==
  /\ emitting[t] # {}
  /\ emitting' = [emitting EXCEPT ![t] = {}]
  /\ UNCHANGED <<up, registry, pollers, seen, todo, mature, logged, halts>>

PollerStep(l) == Tick(l) \/ FetchOk(l) \/ FetchFails(l) \/ Emit(l) \/ EmitFails(l)
WatchStep(t) ==
  \/ WatchTick(t) \/ TraceFails(t)
  \/ \E l \in Loans : Look(t, l) \/ Traced(t, l) \/ TraceUnmarked(t, l)

FeedNext ==
  \/ Boot \/ Halt
  \/ \E l \in Loans :
       \/ Mature(l) \/ Add(l) \/ Remove(l) \/ Strand(l)
       \/ Tick(l) \/ FetchOk(l) \/ FetchFails(l) \/ Emit(l) \/ EmitFails(l)
  \/ \E t \in Ticks :
       \/ WatchTick(t) \/ TraceFails(t)
       \/ \E l \in Loans : Look(t, l) \/ Traced(t, l) \/ TraceUnmarked(t, l)

\* Timers fire and every await ends; an append does not fail for ever.
Fairness ==
  /\ WF_feedVars(Boot)
  /\ \A l \in Loans : WF_feedVars(PollerStep(l))
  /\ \A t \in Ticks, l \in Loans :
       WF_feedVars(WatchTick(t)) /\ WF_feedVars(Look(t, l)) /\ SF_feedVars(Traced(t, l))

FeedSpec == FeedInit /\ [][FeedNext]_feedVars
FairSpec == FeedSpec /\ Fairness

-----------------------------------------------------------------------------
(* Properties.                                                             *)

\* Types; while the process runs every registered loan has its poller, and every
\* loan the log has open is registered.
FeedTypeOK ==
  /\ up \in BOOLEAN /\ halts \in 0 .. MaxHalts
  /\ closed \subseteq opened /\ opened \cup mature \cup failing \cup unlogged \subseteq Loans
  /\ up => pumping = registry /\ opened \ closed \subseteq registry /\ registry \subseteq opened
  /\ step \in [Loans -> {"idle", "fetching"} \cup Outcomes]
  /\ fetched \in [Loans -> VenueLists \cup {<<>>}]
  /\ late \in [Loans -> Nat] /\ gaps \in [Loans -> Nat] /\ traces \in [Loans -> Nat]
  /\ told \subseteq Loans /\ misfires \in [Loans -> 0 .. MaxMisfires]
  /\ seen \subseteq Loans /\ todo \in [Ticks -> SUBSET Loans]
  /\ emitting \in [Ticks -> SUBSET Loans]

\* mark-loop.ts onChange: once a loan is removed the log gets at most one more
\* observation of it, that of the tick then in flight.  (The closing event itself
\* does not stop the poller: see Strand.)
OneObservationAfterRemoval == \A l \in Loans : late[l] <= 1

\* poller.ts failureState: an outage is reported once, by the time its tick is
\* over, unless the append failed; the next outage is reported again.
OneGapPerOutage ==
  \A l \in Loans :
    /\ gaps[l] <= 1
    /\ l \in failing /\ step[l] # "gap" => gaps[l] = 1 \/ l \in unlogged
    /\ gaps[l] = 1 => l \in failing /\ step[l] # "gap"

\* twap.ts: a mark is the average of the price in force over the whole window,
\* in whatever order the venue lists the trades, with repetitions, ties and
\* trades that fall outside the window.
MarksAreStepIntegrals ==
  \A l \in Loans :
    Valid(fetched[l]) =>
      /\ Numerator(fetched[l]) = StepIntegral(fetched[l])
      /\ Denominator(fetched[l]) = WindowLen

\* settlement-watch.ts seen: a life of the process traces the maturity of a loan
\* once, and once more for every tick that overlaps the first; the log has no more
\* traces of it than that, but for one per append that wrote its line and rejected.
MaturityTracedOnce ==
  \A l \in Loans : traces[l] <= Cardinality(Ticks) * (1 + halts) + misfires[l]

\* poller.ts pump: whatever fetches and appends do, a poller goes on ticking as
\* long as its loan is open.
PollersGoOn ==
  \A l \in Loans :
    /\ (l \in pumping /\ step[l] = "idle") ~> (l \notin pumping \/ step[l] = "fetching")
    /\ (step[l] = "fetching") ~> (step[l] = "idle")

\* An open loan past its maturity is traced in every life that lasts.
MaturityIsTraced ==
  \A l \in Loans : (l \in mature \cap registry) ~> (l \notin registry \/ l \in told)
=============================================================================
