------------------------------ MODULE MCDataPath ------------------------------
(***************************************************************************)
(* The data path and what observes it, each checked by itself in one run:  *)
(* mode says which of the byte ring, the wire formats, the record pipe,    *)
(* the tracer, the time series and the metrics moves.                      *)
(***************************************************************************)
EXTENDS Ring

CONSTANTS B, NameMax, BodyMax, TypeMax, ListMax, H,
          QCap, RCap, SockMax, HeaderLen, RecordMax, Lengths, MaxRecords,
          MaxSpans, MaxTraces, SCap, Values, MaxPush, MaxClock, Threads, MaxUpdates

VARIABLES mode, item,
          pbuf, qhead, qtail, qused, sock, reader, rbuf, alive, accepted, taken,
          ratio, spans, sink, drained, stats, traces,
          ring, shead, sused, clock, pushed,
          series, counter, gauge, reading, incs, net, overlapped, updates

pipe == <<pbuf, qhead, qtail, qused, sock, reader, rbuf, alive, accepted, taken>>
tracer == <<ratio, spans, sink, drained, stats, traces>>
samples == <<ring, shead, sused, clock, pushed>>
metrics == <<series, counter, gauge, reading, incs, net, overlapped, updates>>
allvars == <<mode, rvars, item, pipe, tracer, samples, metrics>>

WF == INSTANCE WireFormats
RP == INSTANCE RecordPipe WITH buf <- pbuf
TR == INSTANCE Tracing
MS == INSTANCE Measures WITH head <- shead, used <- sused

MCInit ==
    /\ mode \in {"ring", "wire", "pipe", "tracer", "samples", "metrics"}
    /\ RInit /\ WF!WInit /\ RP!Init /\ TR!TInit /\ MS!SInit /\ MS!MInit
    /\ mode # "wire" => item.at = "lists"
    /\ mode # "pipe" => reader = "recv_buf"
    /\ mode # "tracer" => ratio = "all"

MCNext ==
    \/ mode = "ring" /\ RNext /\ UNCHANGED <<mode, item, pipe, tracer, samples, metrics>>
    \/ mode = "wire" /\ WF!WNext
       /\ UNCHANGED <<mode, rvars, pipe, tracer, samples, metrics>>
    \/ mode = "pipe" /\ RP!Next
       /\ UNCHANGED <<mode, rvars, item, tracer, samples, metrics>>
    \/ mode = "tracer" /\ TR!TNext
       /\ UNCHANGED <<mode, rvars, item, pipe, samples, metrics>>
    \/ mode = "samples" /\ MS!SNext
       /\ UNCHANGED <<mode, rvars, item, pipe, tracer, metrics>>
    \/ mode = "metrics" /\ MS!MNext
       /\ UNCHANGED <<mode, rvars, item, pipe, tracer, samples>>

\* The event loop calls flush and read again as long as the socket is ready, and the
\* caller takes records until none is whole.
Pumping(action) == mode = "pipe" /\ action /\ UNCHANGED <<mode, rvars, item, tracer, samples, metrics>>
MCSpec ==
    /\ MCInit /\ [][MCNext]_allvars
    /\ WF_pipe(Pumping(RP!Flushes)) /\ WF_pipe(Pumping(RP!Pushes)) /\ WF_pipe(Pumping(RP!take))

\* Messages survive packing and unpacking, and nothing else is accepted: WireFormats.
FormatsExact == mode = "wire" => WF!WireExact /\ WF!CodecsExact

\* Records arrive whole, in order, and eventually: RecordPipe.
PipeSound == mode = "pipe" => RP!TakenInOrder /\ RP!NeverWedged
Arrives == mode = "pipe" => RP!Arrives

\* Traces are exported whole: Tracing.
TraceWhole == mode = "tracer" => TR!TraceWhole

\* The newest samples and their statistics; counters are exact, gauges off by overlapping
\* updates at most: Measures.
MeasuresExact ==
    /\ mode = "samples" => MS!SeriesExact
    /\ mode = "metrics" => MS!DriftBounded
===============================================================================
