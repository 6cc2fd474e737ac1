------------------------ MODULE MCTailSamplingMetrics ------------------------
(***************************************************************************)
(* A small instance of the tail-sampling processor.                        *)
(***************************************************************************)
EXTENDS MCTailSampling, TailSampling

\* A trace in two packets.  The second has no times, so that it falls in the
\* window of the moment; its payload is damaged and cannot be merged.
MetricGroups == {Trace(0)}
MetricPackets ==
    {[Pkt(Trace(0), <<1, 2>>, "none", Summary(<<1, 2>>)) EXCEPT
        !.start = 1, !.end = 4, !.maxTime = 2, !.hasError = TRUE],
     [Pkt(Trace(0), <<3>>, "damaged", Summary(<<3>>)) EXCEPT !.start = 1]}

MetricWorkloads == {MetricPackets}

MetricConfigs ==
    {<<1, Tracing(1, 20, <<Keep(<<Where(<<IsError>>)>>)>>)>>}
MetricBuckets == <<1, 2>>

\* The decision itself is the subject of MCTailSampling; here a group is kept
\* when it has the error, and the payload is needed to tell.
MetricCoverable(ps) == FALSE
MetricDecision(packet, ps) ==
    [match |-> TRUE, keep |-> \E i \in DOMAIN packet.points : packet.points[i] = 3]

=============================================================================
