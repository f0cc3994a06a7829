--------------------------- MODULE MetricRegistry ---------------------------
(***************************************************************************)
(* The metric registry of package api: counters, gauges and histograms,    *)
(* each operation under the registry's mutex.  Labels are a function of    *)
(* the metric's label names, <<>> for none; the encoding of labels as text *)
(* is injective and left out, as is the sum of what was observed.  An      *)
(* operation that returns an error changes nothing and is no step.         *)
(***************************************************************************)
EXTENDS Integers

CONSTANTS
    Metrics, LabelNames, LabelValues,
    Bounds, Samples,    \* numbers: bucket bounds, observed values
    MaxCount            \* bound of the model

VARIABLES
    descriptors,    \* for each metric its type and label names, or Unregistered
    values,         \* of counters and gauges, for each metric and labels
    histograms      \* for each metric and labels; the one of <<>> is the template

registry == <<descriptors, values, histograms>>

Unregistered == [type |-> "none", names |-> {}]
NoHistogram == [buckets |-> {}, counts |-> <<>>, count |-> 0]

Labels == UNION {[names -> LabelValues] : names \in SUBSET LabelNames}
Keys == Metrics \X Labels

RegistryInit ==
    /\ descriptors = [m \in Metrics |-> Unregistered]
    /\ values = [k \in Keys |-> 0]
    /\ histograms = [k \in Keys |-> NoHistogram]

Register(m, type, names) ==
    /\ descriptors[m] = Unregistered
    /\ descriptors' = [descriptors EXCEPT ![m] = [type |-> type, names |-> names]]
    /\ UNCHANGED <<values, histograms>>

\* encodeMetricLabels: exactly the metric's labels.
Labelled(m, labels) == DOMAIN labels = descriptors[m].names

\* Slip: a counter may be lowered.
AddAny(m, labels, delta) ==
    /\ descriptors[m].type \in {"counter", "gauge"}
    /\ Labelled(m, labels)
    /\ values' = [values EXCEPT ![<<m, labels>>] = @ + delta]
    /\ UNCHANGED <<descriptors, histograms>>

Add(m, labels, delta) ==
    /\ descriptors[m].type \in {"counter", "gauge"}
    /\ descriptors[m].type = "counter" => delta >= 0
    /\ Labelled(m, labels)
    /\ values' = [values EXCEPT ![<<m, labels>>] = @ + delta]
    /\ UNCHANGED <<descriptors, histograms>>

Set(m, labels, value) ==
    /\ descriptors[m].type = "gauge"
    /\ Labelled(m, labels)
    /\ values' = [values EXCEPT ![<<m, labels>>] = value]
    /\ UNCHANGED <<descriptors, histograms>>

Empty(buckets) == [buckets |-> buckets, counts |-> [b \in buckets |-> 0], count |-> 0]

\* Only the template is replaced, and with it what was observed without labels.
ConfigureHistogram(m, buckets) ==
    /\ descriptors[m].type = "histogram"
    /\ buckets # {}
    /\ histograms' = [histograms EXCEPT ![<<m, <<>> >>] = Empty(buckets)]
    /\ UNCHANGED <<descriptors, values>>

\* Slip: a sample is counted in the first bucket that holds it only.
ObservedOnce(h, sample) ==
    [h EXCEPT !.count = @ + 1,
              !.counts = [b \in h.buckets |->
                  IF sample <= b /\ \A c \in h.buckets : sample <= c => b <= c
                  THEN @[b] + 1 ELSE @[b]]]

Observed(h, sample) ==
    [h EXCEPT !.count = @ + 1,
              !.counts = [b \in h.buckets |-> IF sample <= b THEN @[b] + 1 ELSE @[b]]]

Observe(m, labels, sample) ==
    /\ descriptors[m].type = "histogram"
    /\ Labelled(m, labels)
    /\ LET template == histograms[<<m, <<>> >>]
           h == histograms[<<m, labels>>]
       IN  /\ template # NoHistogram
           /\ h.count < MaxCount
           /\ histograms' = [histograms EXCEPT ![<<m, labels>>] =
                                Observed(IF h = NoHistogram THEN Empty(template.buckets) ELSE h, sample)]
    /\ UNCHANGED <<descriptors, values>>

RegistryNext ==
    \E m \in Metrics :
        \/ \E type \in {"counter", "gauge", "histogram"}, names \in SUBSET LabelNames :
              Register(m, type, names)
        \/ \E labels \in Labels :
              \/ \E n \in {-1, 1} :
                    values[<<m, labels>>] + n \in -MaxCount..MaxCount /\ Add(m, labels, n)
              \/ \E n \in {-1, 1} : Set(m, labels, n)
              \/ \E sample \in Samples : Observe(m, labels, sample)
        \/ \E buckets \in SUBSET Bounds : ConfigureHistogram(m, buckets)

RegistrySpec == RegistryInit /\ [][RegistryNext]_registry

-----------------------------------------------------------------------------
\* renderHistogram: histograms without labels are not written at all.
Rendered == {k \in Keys : k[2] # <<>> /\ histograms[k] # NoHistogram}

\* What is rendered of a histogram is cumulative: no bucket holds more than a
\* wider one, nor any more than the +Inf bucket, also after new buckets were
\* configured.
BucketsCumulative ==
    \A k \in Rendered :
        LET h == histograms[k]
        IN  \A b, c \in h.buckets : b <= c => h.counts[b] <= h.counts[c] /\ h.counts[c] <= h.count

NotLower ==
    /\ \A k \in Keys : descriptors[k[1]].type = "counter" => values'[k] >= values[k]
    /\ \A k \in Rendered :
          /\ histograms'[k].count >= histograms[k].count
          /\ \A b \in histograms[k].buckets :
                b \in histograms'[k].buckets /\ histograms'[k].counts[b] >= histograms[k].counts[b]

\* What a scrape reads of a counter or histogram never goes down.
NeverLower == [][NotLower]_registry

=============================================================================
