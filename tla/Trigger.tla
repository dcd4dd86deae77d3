------------------------------- MODULE Trigger -------------------------------
(***************************************************************************)
(* One camera's GO trigger over a capture run: the samples RunWindow       *)
(* appends (a round whose fetch failed, or brought the frame before again, *)
(* appends none) and Evaluate, which fires at most once. Scores and gates  *)
(* are integers, the ratio gate a fraction; time is counted in halves of   *)
(* the polling interval.                                                   *)
(***************************************************************************)
EXTENDS Integers, Sequences, FiniteSets

CONSTANTS
    Scores,             \* the scores a frame can get
    Gaps,               \* half intervals between two samples
    MaxSamples,         \* bound on the samples of one run
    ThresholdAbs, RatioNum, RatioDen, DeltaAbs, RiseDelta    \* TriggerParams

ASSUME ScoreAssumption == Scores \subseteq Nat /\ Gaps \subseteq Nat /\ MaxSamples \in Nat
ASSUME ParamAssumption == /\ ThresholdAbs \in Nat /\ DeltaAbs \in Nat /\ RiseDelta \in Nat
                          /\ RatioNum \in Nat /\ RatioDen \in Nat \ {0}

Interval   == 2
minSamples == 5

VARIABLES
    samples,    \* TriggerState.samples: when, and which score
    fired       \* TriggerState.fired

trigger == <<samples, fired>>

NewTrigger == samples = <<>> /\ fired = FALSE

-----------------------------------------------------------------------------
\* medianScores of the samples i..j, an odd number of them: the score with
\* fewer than half of them below it and more than half not above it.
Median(s, i, j) ==
    LET half == (j - i + 1) \div 2
        Below(v) == Cardinality({k \in i..j : s[k].score < v})
        UpTo(v) == Cardinality({k \in i..j : s[k].score <= v})
    IN  CHOOSE v \in {s[k].score : k \in i..j} : Below(v) <= half /\ half < UpTo(v)

\* Faulty: refuses a gap of exactly two intervals.
GapsStrict(s) ==
    \A i \in {Len(s) - 2, Len(s) - 1} : s[i].t - s[i - 1].t < 2 * Interval

\* The two gaps before the newest sample's own: the loop starts one late.
GapsShort(s) ==
    \A i \in {Len(s) - 2, Len(s) - 1} : s[i].t - s[i - 1].t <= 2 * Interval

Baseline(s) == Median(s, 1, minSamples)
Recent(s)   == Median(s, Len(s) - 2, Len(s))

\* Faulty: the prior window overlaps the recent one.
PriorOverlap(s) == IF Len(s) >= 6 THEN Median(s, Len(s) - 4, Len(s) - 2) ELSE Baseline(s)

Prior(s) == IF Len(s) >= 6 THEN Median(s, Len(s) - 5, Len(s) - 3) ELSE Baseline(s)

\* Faulty: puts the newest score through the gates, not the recent median.
GatesNewest(s) ==
    LET newest == s[Len(s)].score
    IN  /\ newest >= ThresholdAbs
        /\ newest * RatioDen >= Baseline(s) * RatioNum
        /\ newest - Baseline(s) >= DeltaAbs
        /\ newest - Prior(s) >= RiseDelta

Gates(s) ==
    /\ Recent(s) >= ThresholdAbs
    /\ Recent(s) * RatioDen >= Baseline(s) * RatioNum
    /\ Recent(s) - Baseline(s) >= DeltaAbs
    /\ Recent(s) - Prior(s) >= RiseDelta

Evaluate(s) == ~fired /\ Len(s) >= minSamples /\ GapsShort(s) /\ Gates(s)

\* RunWindow appends a scored frame and evaluates.
Sample(gap, score) ==
    /\ Len(samples) < MaxSamples
    /\ LET before == IF samples = <<>> THEN 0 ELSE samples[Len(samples)].t
           s == Append(samples, [t |-> before + gap, score |-> score])
       IN  /\ samples' = s
           /\ fired' = (fired \/ Evaluate(s))

NextSample == \E gap \in Gaps, score \in Scores : Sample(gap, score)

TriggerSpec == NewTrigger /\ [][NextSample]_trigger

-----------------------------------------------------------------------------
(* Properties *)

\* The samples are scores with their times.
Scored    == [t : Nat, score : Scores]
SamplesOK == samples \in Seq(Scored) /\ fired \in BOOLEAN

\* Evaluate returns true.
Fires == ~fired /\ fired'

\* How many of the samples i..j satisfy P.
Count(s, i, j, P(_)) == Cardinality({k \in i..j : P(s[k].score)})

\* One outlier never fires: at every fire two of the last three frames reach
\* the threshold, and lie DeltaAbs above three of the first five.
NoOutlierFires ==
    [][Fires =>
        LET s == samples'
            n == Len(s)
        IN  \E i, j \in (n - 2)..n :
                /\ i # j
                /\ s[i].score >= ThresholdAbs /\ s[j].score >= ThresholdAbs
                /\ \A k \in {i, j} :
                       LET under(v) == v + DeltaAbs <= s[k].score
                       IN  Count(s, 1, minSamples, under) >= 3]_trigger

\* A sky that has stopped brightening never fires: two of the last three
\* frames lie RiseDelta above two of the three before them.
StillRising ==
    [][Fires =>
        LET s == samples'
            n == Len(s)
        IN  n >= 6 =>
              \E i, j \in (n - 2)..n, k, l \in (n - 5)..(n - 3) :
                  /\ i # j /\ k # l
                  /\ \A hi \in {i, j}, lo \in {k, l} : s[hi].score >= s[lo].score + RiseDelta]_trigger

\* A real sunset fires: with the samples two intervals apart at most, two of
\* the last three frames as far above three of the first five and above two of
\* the three before them as the gates ask for leave the trigger fired.
SunsetFires ==
    [][LET s == samples'
           n == Len(s)
           Above(v, w, x) == /\ x >= ThresholdAbs
                             /\ x * RatioDen >= v * RatioNum /\ x >= v + DeltaAbs
                             /\ x >= w + RiseDelta
       IN  /\ n >= minSamples + 1
           /\ \A i \in (n - 2)..n : s[i].t - s[i - 1].t <= 2 * Interval
           /\ \E v, w \in Scores :
                 LET low(x) == x <= v
                     before(x) == x <= w
                     bright(x) == Above(v, w, x)
                 IN  /\ Count(s, 1, minSamples, low) >= 3
                     /\ Count(s, n - 5, n - 3, before) >= 2
                     /\ Count(s, n - 2, n, bright) >= 2
           => fired']_trigger
=============================================================================
