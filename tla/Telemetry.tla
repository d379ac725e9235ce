----------------------------- MODULE Telemetry -----------------------------
(***************************************************************************)
(* FixedLatencyHistogram (Tuner/Telemetry.cpp): one bucket per bit width   *)
(* of a duration, counters that saturate, and percentiles answered with    *)
(* the upper end of a bucket.  The code has 64 bits for durations and for  *)
(* counts; the model has Bits for durations and MaxSamples for counts.     *)
(*                                                                         *)
(* `accepted` is not in the code: it is what the histogram forgets, how    *)
(* often each duration was counted.                                        *)
(***************************************************************************)
EXTENDS Integers, FiniteSets

CONSTANTS
  Bits,         \* width of a duration
  Elapsed,      \* what timers may measure; the code allows for negatives
  MaxSamples,   \* the largest count
  Percentiles   \* what is asked for

TwoTo[b \in 0..Bits] == IF b = 0 THEN 1 ELSE 2 * TwoTo[b - 1]

MaxDuration == TwoTo[Bits] - 1

ASSUME BitsAssumption == Bits \in Nat
ASSUME ElapsedAssumption == Elapsed \in SUBSET Int /\ \A t \in Elapsed : t <= MaxDuration
ASSUME MaxSamplesAssumption == MaxSamples \in Nat
ASSUME PercentilesAssumption == Percentiles \subseteq Nat

VARIABLES buckets, samples, total, minimum, maximum, accepted

histogramVars == <<buckets, samples, total, minimum, maximum, accepted>>

Durations == {t \in Elapsed : t >= 0}

Least(a, b) == IF a <= b THEN a ELSE b
Greatest(a, b) == IF a >= b THEN a ELSE b

\* What f adds up to where it is defined on 0..k.
SumUpTo(f, k) ==
  LET sum[i \in 0..k] ==
        (IF i = 0 THEN 0 ELSE sum[i - 1]) + (IF i \in DOMAIN f THEN f[i] ELSE 0)
  IN  sum[k]

\* std::bit_width
BucketFor(value) == CHOOSE b \in 0..Bits : value < TwoTo[b] /\ (b = 0 \/ value >= TwoTo[b - 1])

BucketUpper(bucket) == IF bucket >= Bits THEN MaxDuration ELSE TwoTo[bucket] - 1

NoneIn(set) == [x \in set |-> 0]

HistogramInit ==
  /\ buckets = NoneIn(0..Bits)
  /\ samples = 0
  /\ total = 0
  /\ minimum = MaxDuration
  /\ maximum = 0
  /\ accepted = NoneIn(Durations)

\* (fault) the extremes of the samples before stay.
ResetCountersOnly ==
  /\ buckets' = NoneIn(0..Bits)
  /\ samples' = 0
  /\ total' = 0
  /\ accepted' = NoneIn(Durations)
  /\ UNCHANGED <<minimum, maximum>>

Reset ==
  /\ buckets' = NoneIn(0..Bits)
  /\ samples' = 0
  /\ total' = 0
  /\ minimum' = MaxDuration
  /\ maximum' = 0
  /\ accepted' = NoneIn(Durations)

\* (fault) the total wraps around.
ObserveWrapping(duration) ==
  /\ samples < MaxSamples
  /\ buckets' = [buckets EXCEPT ![BucketFor(duration)] = @ + 1]
  /\ samples' = samples + 1
  /\ minimum' = Least(minimum, duration)
  /\ maximum' = Greatest(maximum, duration)
  /\ total' = (total + duration) % (MaxDuration + 1)
  /\ accepted' = [accepted EXCEPT ![duration] = @ + 1]

Observe(duration) ==
  /\ samples < MaxSamples
  /\ buckets' = [buckets EXCEPT ![BucketFor(duration)] = @ + 1]
  /\ samples' = samples + 1
  /\ minimum' = Least(minimum, duration)
  /\ maximum' = Greatest(maximum, duration)
  /\ total' = Least(total + duration, MaxDuration)
  /\ accepted' = [accepted EXCEPT ![duration] = @ + 1]

\* At the largest count nothing is counted any more.
ObserveFull(duration) ==
  /\ samples = MaxSamples
  /\ UNCHANGED histogramVars

\* ~ScopedLatencyTimer: a negative reading is dropped.
StopTimer(elapsed) ==
  \/ elapsed >= 0 /\ (Observe(elapsed) \/ ObserveFull(elapsed))
  \/ elapsed < 0 /\ UNCHANGED histogramVars

HistogramNext == Reset \/ \E elapsed \in Elapsed : StopTimer(elapsed)

HistogramSpec == HistogramInit /\ [][HistogramNext]_histogramVars

-----------------------------------------------------------------------------
(* Summary                                                                 *)

\* (fault) the rank is rounded down.
RankFloor(count, percentile) ==
  (count \div 100) * percentile + ((count % 100) * percentile) \div 100

\* The nearest rank: percentile/100 of the samples, rounded up, without a
\* product that could leave the word.
Rank(count, percentile) ==
  (count \div 100) * percentile + ((count % 100) * percentile + 99) \div 100

PercentileUpper(percentile) ==
  LET reaching == {b \in 0..Bits : SumUpTo(buckets, b) >= Rank(samples, percentile)}
  IN  IF samples = 0 \/ percentile = 0 \/ percentile > 100 THEN 0
      ELSE IF reaching = {} THEN maximum
      ELSE BucketUpper(CHOOSE b \in reaching : \A c \in reaching : b <= c)

-----------------------------------------------------------------------------
(* Properties                                                              *)

HistogramTypeOK ==
  /\ buckets \in [0..Bits -> 0..MaxSamples]
  /\ samples \in 0..MaxSamples
  /\ {total, minimum, maximum} \subseteq 0..MaxDuration
  /\ accepted \in [Durations -> 0..MaxSamples]

\* The counters describe the same samples: every bucket holds the accepted
\* durations of its width, and the total is their sum or stands at the limit.
CountersAgree ==
  LET sum == SumUpTo([t \in Durations |-> t * accepted[t]], MaxDuration)
  IN  /\ samples = SumUpTo(accepted, MaxDuration)
      /\ \A b \in 0..Bits :
           SumUpTo(buckets, b) = SumUpTo(accepted, TwoTo[b] - 1)
      /\ total = Least(sum, MaxDuration)
      /\ \A t \in Durations : accepted[t] > 0 => minimum <= t /\ t <= maximum
      /\ IF samples = 0
         THEN minimum = MaxDuration /\ maximum = 0
         ELSE /\ {minimum, maximum} \subseteq Durations
              /\ accepted[minimum] > 0 /\ accepted[maximum] > 0

\* What a summary is taken from is, through resets and saturation, a faithful
\* digest of the samples counted since the last reset.
HistogramInv == HistogramTypeOK /\ CountersAgree

\* "saturating counters": between resets no figure of a summary turns back.
FiguresOnlySaturate ==
  [][samples' # 0 => /\ samples' >= samples /\ total' >= total
                     /\ maximum' >= maximum /\ minimum' <= minimum
                     /\ \A b \in 0..Bits : buckets'[b] >= buckets[b]]_histogramVars
=============================================================================
