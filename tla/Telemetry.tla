---------------------------- MODULE Telemetry ----------------------------
(* The metrics of a process: goroutines count and time the steps of ingestion *)
(* and set gauges while a collector reads them                               *)
(* (adapter/secondary/telemetry/telemetry.go).                               *)
EXTENDS Integers, Sequences, SequencesExt, FiniteSets, FiniteSetsExt

CONSTANTS
    Observers,       \* goroutines that observe
    StepNames, Outcomes, \* what they name the steps and outcomes
    Took,            \* how long a step may take
    Buckets,         \* defaultHistogramBuckets, the bounds in order
    GaugeNames, GaugeValues,
    MaxObservations, MaxScrapes \* bounds on what is observed and collected

ASSUME TelemetryAssumption ==
    IsFiniteSet(Observers) /\ {"", "collector"} \cap Observers = {} /\ MaxScrapes \in Nat

VARIABLES
    counts,    \* IngestStepOutcomes: its series, by their labels
    durations, \* IngestStepDuration: its series, each a histogram
    gauges,    \* the registered gauges
    observer,  \* per goroutine, what it is about to do
    scrape,    \* the collection that is under way
    scraped,   \* the last two that were answered, the older one first
    told       \* what was observed of a series, in the order of its lock

telemetryVars == <<counts, durations, gauges, observer, scrape, scraped, told>>

NoSeries == <<>>
NewHistogram == [count |-> 0, fill |-> [b \in DOMAIN Buckets |-> 0], holder |-> ""]
Resting == [at |-> "rest"]
NoScrape == [at |-> "rest"]
Collector == "collector"
Collection(at, todo, c, d) == [at |-> at, todo |-> todo, counts |-> c, durations |-> d]

BoundedIngestStep(step) == IF step \in {"process", "decode", "persist", "side_effects"} THEN step ELSE "other"
BoundedIngestOutcome(outcome) == IF outcome \in {"success", "failure", "skipped"} THEN outcome ELSE "unknown"

\* get: the series of the labels, made when there is none, under the lock of the vector.
WithSeries(vector, labels, new) ==
    [l \in DOMAIN vector \cup {labels} |-> IF l \in DOMAIN vector THEN vector[l] ELSE new]
WithValue(vector, labels, v) == [l \in DOMAIN vector \cup {labels} |-> IF l = labels THEN v ELSE vector[l]]
Goes(o, at) == observer' = [observer EXCEPT ![o] = at]
Observed == MapThenSumSet(LAMBDA labels : counts[labels], DOMAIN counts)

-----------------------------------------------------------------------------
(* Observing                                                                 *)

\* ObserveIngestStep: the series of the counter, its increment, the series of the histogram, its observation.
ObserveIngestStep(o, step, outcome, took) ==
    LET labels == <<BoundedIngestStep(step), BoundedIngestOutcome(outcome)>>
    IN  /\ observer[o] = Resting /\ Observed + Cardinality({p \in Observers : observer[p].at = "count"}) < MaxObservations
        /\ counts' = WithSeries(counts, labels, 0)
        /\ Goes(o, [at |-> "count", labels |-> labels, took |-> took])
        /\ UNCHANGED <<durations, gauges, scrape, scraped, told>>
Count(o) ==
    LET labels == observer[o].labels
    IN  /\ observer[o].at = "count"
        /\ counts' = [counts EXCEPT ![labels] = @ + 1]
        /\ durations' = WithSeries(durations, labels, NewHistogram)
        /\ told' = WithSeries(told, labels, <<>>)
        /\ Goes(o, [observer[o] EXCEPT !.at = "time"])
        /\ UNCHANGED <<gauges, scrape, scraped>>

\* Mutant of IsFree: a histogram is read and written at once.
IsFreeForAll(labels) == durations[labels].holder # Collector
IsFree(labels) == durations[labels].holder = ""
BeginObserve(o) ==
    LET labels == observer[o].labels
    IN  /\ observer[o].at = "time" /\ IsFree(labels)
        /\ durations' = [durations EXCEPT ![labels].holder = o, ![labels].count = @ + 1]
        /\ told' = [told EXCEPT ![labels] = Append(@, observer[o].took)]
        /\ Goes(o, [observer[o] EXCEPT !.at = "fill"])
        /\ UNCHANGED <<counts, gauges, scrape, scraped>>
FillBuckets(o) ==
    LET labels == observer[o].labels
    IN  /\ observer[o].at = "fill"
        /\ durations' = [durations EXCEPT ![labels].holder = "",
                            ![labels].fill = [b \in DOMAIN Buckets |-> @[b] + IF observer[o].took <= Buckets[b] THEN 1 ELSE 0]]
        /\ Goes(o, Resting)
        /\ UNCHANGED <<counts, gauges, scrape, scraped, told>>

\* A gauge is looked up, and made, under the lock of the registry, which a collection shares: not meanwhile.
SetGauge(name, v) ==
    /\ scrape = NoScrape
    /\ gauges' = WithValue(gauges, name, v)
    /\ UNCHANGED <<counts, durations, observer, scrape, scraped, told>>

-----------------------------------------------------------------------------
(* Collecting                                                                *)

\* Handler: the series of the counter are listed under its lock and then read one after the other, then the
\* same with the histograms, each of them under its own lock.
Handler ==
    /\ scrape = NoScrape /\ Len(scraped) < MaxScrapes
    /\ scrape' = Collection("counters", SetToSeq(DOMAIN counts), NoSeries, NoSeries)
    /\ UNCHANGED <<counts, durations, gauges, observer, scraped, told>>
WriteCounter ==
    /\ scrape.at = "counters" /\ scrape.todo # <<>>
    /\ LET labels == Head(scrape.todo)
       IN  scrape' = Collection("counters", Tail(scrape.todo), WithValue(scrape.counts, labels, counts[labels]), scrape.durations)
    /\ UNCHANGED <<counts, durations, gauges, observer, scraped, told>>
ListHistograms ==
    /\ scrape.at = "counters" /\ scrape.todo = <<>>
    /\ scrape' = Collection("histograms", SetToSeq(DOMAIN durations), scrape.counts, scrape.durations)
    /\ UNCHANGED <<counts, durations, gauges, observer, scraped, told>>
WriteBuckets ==
    LET labels == Head(scrape.todo)
    IN  /\ scrape.at = "histograms" /\ scrape.todo # <<>> /\ IsFree(labels)
        /\ durations' = [durations EXCEPT ![labels].holder = Collector]
        /\ scrape' = Collection("count", scrape.todo, scrape.counts,
                                WithValue(scrape.durations, labels, [fill |-> durations[labels].fill, count |-> 0]))
        /\ UNCHANGED <<counts, gauges, observer, scraped, told>>
WriteCount ==
    LET labels == Head(scrape.todo)
    IN  /\ scrape.at = "count"
        /\ durations' = [durations EXCEPT ![labels].holder = ""]
        /\ scrape' = Collection("histograms", Tail(scrape.todo), scrape.counts,
                WithValue(scrape.durations, labels, [fill |-> scrape.durations[labels].fill, count |-> durations[labels].count]))
        /\ UNCHANGED <<counts, gauges, observer, scraped, told>>
Answer ==
    /\ scrape.at = "histograms" /\ scrape.todo = <<>>
    /\ scraped' = Append(scraped, [counts |-> scrape.counts, durations |-> scrape.durations])
    /\ scrape' = NoScrape
    /\ UNCHANGED <<counts, durations, gauges, observer, told>>

TelemetryInit ==
    /\ counts = NoSeries /\ durations = NoSeries /\ gauges = NoSeries /\ told = NoSeries
    /\ observer = [o \in Observers |-> Resting] /\ scrape = NoScrape /\ scraped = <<>>
TelemetryNext ==
    \/ \E o \in Observers :
        \/ \E step \in StepNames, outcome \in Outcomes, took \in Took : ObserveIngestStep(o, step, outcome, took)
        \/ Count(o) \/ BeginObserve(o) \/ FillBuckets(o)
    \/ \E name \in GaugeNames, v \in GaugeValues : SetGauge(name, v)
    \/ Handler \/ WriteCounter \/ ListHistograms \/ WriteBuckets \/ WriteCount \/ Answer

TelemetrySpec == TelemetryInit /\ [][TelemetryNext]_telemetryVars

-----------------------------------------------------------------------------
(* Properties                                                                *)

TelemetryTypeOK ==
    /\ \A labels \in DOMAIN counts : counts[labels] \in Nat
    /\ DOMAIN durations \subseteq DOMAIN counts /\ DOMAIN told = DOMAIN durations
    /\ Len(scraped) <= MaxScrapes

\* A histogram is collected as it was between two observations: its buckets and its count tell of the same ones.
Upto(labels, n, bound) == Cardinality({k \in 1..n : told[labels][k] <= bound})
HistogramsAreWhole ==
    \A k \in DOMAIN scraped : \A labels \in DOMAIN scraped[k].durations :
        LET h == scraped[k].durations[labels]
        IN  h.count <= Len(told[labels]) /\ \A b \in DOMAIN Buckets : h.fill[b] = Upto(labels, h.count, Buckets[b])

\* Counters never fall from one collection to the next, no observation is lost, and a step that is counted is
\* timed unless its goroutine is on the way.
CountersGrow ==
    \A k \in DOMAIN scraped :
        /\ k > 1 => \A labels \in DOMAIN scraped[k - 1].counts :
            labels \in DOMAIN scraped[k].counts /\ scraped[k - 1].counts[labels] <= scraped[k].counts[labels]
        /\ \A labels \in DOMAIN scraped[k].counts : scraped[k].counts[labels] > 0 =>
            /\ labels \in DOMAIN scraped[k].durations
            /\ scraped[k].counts[labels] <= scraped[k].durations[labels].count + Cardinality(Observers)
NothingIsLost ==
    \A labels \in DOMAIN durations :
        counts[labels] = Len(told[labels]) + Cardinality({o \in Observers : observer[o].at = "time" /\ observer[o].labels = labels})

CollectedIsTrue == TelemetryTypeOK /\ HistogramsAreWhole /\ CountersGrow /\ NothingIsLost
=============================================================================
