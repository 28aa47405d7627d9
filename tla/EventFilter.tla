----------------------------- MODULE EventFilter -----------------------------
(***************************************************************************)
(* The events of a block's begin or end phase on their way to the custom   *)
(* parsers: ProcessRPCBlockEvents and FilterRPCBlockEvents of              *)
(* core/block_events.go.  An event stands for its type and attributes; a   *)
(* single filter and a pattern of a rolling window are the set of events   *)
(* they match, by type, by regular expression or by attribute value.       *)
(* Events and parsers count from 1 here and from 0 in the code.            *)
(***************************************************************************)
EXTENDS Integers, Sequences

ParserCount(parsers, event) == IF event \in DOMAIN parsers THEN parsers[event] ELSE 0

\* What ParseBlockEvent makes of every event of a type with parsers, before any
\* filter.  The inner loop has an index of its own: the data of parser p goes to
\* the p-th event of the block.
Datasets(parsers, events) ==
  UNION {{[of |-> k, at |-> p] : p \in 1 .. ParserCount(parsers, events[k])} :
           k \in DOMAIN events}

\* An index beyond the events is a panic.
ParsersFit(parsers, events) == \A d \in Datasets(parsers, events) : d.at \in DOMAIN events

-----------------------------------------------------------------------------
\* A window matches where it fits and each pattern matches the event in its place.
EventsMatch(window, events, at) ==
  /\ at + Len(window.patterns) - 1 <= Len(events)
  /\ \A i \in DOMAIN window.patterns : events[at + i - 1] \in window.patterns[i]

Covers(window, at, k) == at <= k /\ k < at + Len(window.patterns)

\* The writes of filterIndexes[k], each at the round of the outer loop it is made in.
Hits(singles, windows, events, k) ==
  {[at |-> k, by |-> "single", filter |-> i] :
     i \in {i \in DOMAIN singles : events[k] \in singles[i].matches}}
  \cup UNION {{[at |-> at, by |-> "window", filter |-> i] :
                 i \in {i \in DOMAIN windows : /\ Covers(windows[i], at, k)
                                               /\ EventsMatch(windows[i], events, at)}} :
                at \in DOMAIN events}

Includes(singles, windows, hit) ==
  IF hit.by = "single" THEN singles[hit.filter].include ELSE windows[hit.filter].include

\* A round takes the single filters in order and then the windows.
After(hit, other) ==
  \/ hit.at > other.at
  \/ hit.at = other.at /\ hit.by = "window" /\ other.by = "single"
  \/ hit.at = other.at /\ hit.by = other.by /\ hit.filter > other.filter

\* Variant: an event no filter has decided about is kept.
KeptUnlessExcluded(singles, windows, events, k) ==
  LET hits == Hits(singles, windows, events, k)
  IN  \A hit \in hits : (\A other \in hits \ {hit} : After(hit, other))
                          => Includes(singles, windows, hit)

\* filterIndexes is a whitelist, and every hit overwrites it: the last decides.
Kept(singles, windows, events, k) ==
  LET hits == Hits(singles, windows, events, k)
  IN  \E hit \in hits : /\ Includes(singles, windows, hit)
                        /\ \A other \in hits \ {hit} : After(hit, other)

\* The indexes of the events that are kept.
FilterRPCBlockEvents(singles, windows, events) ==
  IF singles = <<>> /\ windows = <<>> THEN DOMAIN events
  ELSE {k \in DOMAIN events : Kept(singles, windows, events, k)}
=============================================================================
