-------------------------------- MODULE Tracing --------------------------------
(***************************************************************************)
(* Tracer, Span, ScopedSpan and InMemorySpanExporter (tracer.cpp,          *)
(* span.cpp, span_exporter.cpp), with the sampler (sl_trace_sampler.c) and *)
(* the contexts (sl_trace_context.c) they rest on.  A trace identifier is  *)
(* its number and whether its first bytes lie below the sampling ratio,    *)
(* number 0 the one of zeros; a context whose span identifier is zeros is  *)
(* not live.  Names, kinds, attributes and times are left out.             *)
(***************************************************************************)
EXTENDS Integers, Sequences, FiniteSets

CONSTANTS MaxSpans, MaxTraces

VARIABLES ratio,       \* sampler: none, some or all
          spans,       \* the Span objects, in the order they were started
          sink,        \* InMemorySpanExporter: spans_
          drained,     \* history: spans returned by drain()
          stats, traces
tvars == <<ratio, spans, sink, drained, stats, traces>>

\* Contexts: the local roots, and those that came in from another process.
Ctx(trace, low, sampled, debug, live) ==
    [trace |-> trace, low |-> low, sampled |-> sampled, debug |-> debug, live |-> live]
is_zero(ctx) == ctx.trace = 0 \/ ~ctx.live

TInit ==
    /\ ratio \in {"none", "some", "all"}
    /\ spans = <<>> /\ sink = {} /\ drained = {} /\ traces = 0
    /\ stats = [started |-> 0, exported |-> 0, dropped |-> 0]

should_sample(ctx) ==
    \/ ctx.debug
    \/ ratio = "all"
    \/ ratio = "some" /\ ctx.low

\* A span as start_root_span and start_span hand it out.
Started(ctx, parent) ==
    /\ Len(spans) < MaxSpans
    /\ spans' = Append(spans, [ctx |-> ctx, parent |-> parent, ended |-> FALSE,
                               at |-> "open"])
    /\ stats' = [stats EXCEPT !.started = @ + 1]
    /\ UNCHANGED <<ratio, sink, drained>>

\* Random bytes may fail for both identifiers of sl_trace_ctx_root or for the second.
start_root_span ==
    \E low, live, id \in BOOLEAN :
        LET c == Ctx(IF id THEN traces + 1 ELSE 0, low /\ id, FALSE, FALSE, live /\ id)
        IN  /\ traces < MaxTraces
            /\ traces' = IF id THEN traces + 1 ELSE traces
            /\ Started([c EXCEPT !.sampled = should_sample(c)], 0)

\* A child keeps trace and flags; when the random bytes fail it keeps the trace only.
\* The variant starts without flags.
Child_bare(ctx, live) == Ctx(ctx.trace, ctx.low, FALSE, FALSE, live)
Child(ctx, live) ==
    Ctx(ctx.trace, ctx.low, live /\ ctx.sampled, live /\ ctx.debug, live)
start_span(ctx, parent) ==
    /\ ~is_zero(ctx)
    /\ \E live \in BOOLEAN : Started(Child(ctx, live), parent)

\* Under a span of this process (one with zeros is no parent: start_root_span), or
\* under a context that another process decided about.
start_child(i) == start_span(spans[i].ctx, i) /\ UNCHANGED traces
start_remote ==
    /\ traces < MaxTraces /\ traces' = traces + 1
    /\ \E low, sampled, debug \in BOOLEAN :
          start_span(Ctx(traces + 1, low, sampled, debug, TRUE), 0)

end(i) ==
    /\ spans[i].at = "open" /\ ~spans[i].ended
    /\ spans' = [spans EXCEPT ![i].ended = TRUE]
    /\ UNCHANGED <<ratio, sink, drained, stats, traces>>

\* ~ScopedSpan ends the span and calls finish, which hands a sampled one to the
\* exporter and then counts it under the tracer's lock.
finish(i) ==
    /\ spans[i].at = "open"
    /\ IF spans[i].ctx.sampled
       THEN /\ spans' = [spans EXCEPT ![i].ended = TRUE, ![i].at = "exporting"]
            /\ sink' = sink \cup {i}
            /\ UNCHANGED stats
       ELSE /\ spans' = [spans EXCEPT ![i].ended = TRUE, ![i].at = "done"]
            /\ stats' = [stats EXCEPT !.dropped = @ + 1]
            /\ UNCHANGED sink
    /\ UNCHANGED <<ratio, drained, traces>>
finish_counts(i) ==
    /\ spans[i].at = "exporting"
    /\ spans' = [spans EXCEPT ![i].at = "done"]
    /\ stats' = [stats EXCEPT !.exported = @ + 1]
    /\ UNCHANGED <<ratio, sink, drained, traces>>
drain ==
    /\ sink # {}
    /\ drained' = drained \cup sink
    /\ sink' = {}
    /\ UNCHANGED <<ratio, spans, stats, traces>>

TNext ==
    \/ start_root_span \/ start_remote \/ drain
    \/ \E i \in 1..Len(spans) :
           start_child(i) \/ end(i) \/ finish(i) \/ finish_counts(i)

-------------------------------------------------------------------------------
Finished == {i \in 1..Len(spans) : spans[i].at # "open"}
Handed(i) == i \in sink \cup drained

\* A trace is recorded whole or not at all, whoever decided about it: finished spans
\* of one trace with a whole context are all handed to the exporter or all dropped,
\* and the counters lag behind by the spans whose
\* finish() is between its two locks (Tracer::start_span, Tracer::finish).
TraceWhole ==
    /\ \A i, j \in Finished :
          /\ spans[i].ctx.trace = spans[j].ctx.trace
          /\ ~is_zero(spans[i].ctx) /\ ~is_zero(spans[j].ctx)
          => (Handed(i) <=> Handed(j))
    /\ \A i \in Finished : spans[i].ended
    /\ stats.exported + Cardinality({i \in Finished : spans[i].at = "exporting"})
          = Cardinality(sink) + Cardinality(drained)
    /\ stats.dropped = Cardinality({i \in Finished : ~Handed(i)})
===============================================================================
