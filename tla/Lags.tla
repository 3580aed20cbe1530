-------------------------------- MODULE Lags --------------------------------
(***************************************************************************)
(* Index arithmetic of sync/correlation.py, which finds the chirp in a     *)
(* recording: the peak of a circular correlation, within a window of lags, *)
(* and its index turned into a signed lag.                                 *)
(*                                                                         *)
(* Signals are short sequences of integers.  The correlation is written    *)
(* as the sum the FFTs compute, a fraction as <<numerator, denominator>>   *)
(* with a positive denominator.                                            *)
(***************************************************************************)
EXTENDS Integers, Sequences, FiniteSetsExt

LowerOf(m, n) == IF m < n THEN m ELSE n

\* _next_pow2: one, doubled while it is less than n.
Doubled(p, n) == IF p < n THEN 2 * p ELSE p
NextPow2(n) ==
  LET p[k \in 0..n] == IF k = 0 THEN 1 ELSE Doubled(p[k - 1], n) IN p[n]

\* A signal of n samples, padded with zeros, indexed from 0.
Padded(s, n) == [i \in 0..n - 1 |-> IF i < Len(s) THEN s[i + 1] ELSE 0]

\* The sum of the first n entries.
Total(f, n) == LET sum[i \in 0..n] == IF i = 0 THEN 0 ELSE sum[i - 1] + f[i - 1] IN sum[n]

\* irfft(rfft(x) * conj(rfft(y))): entry k is the sum of x[i] * y[i - k].
CircularCorrelation(x, y, n) ==
  LET px == Padded(x, n)
      py == Padded(y, n)
  IN  [k \in 0..n - 1 |-> Total([i \in 0..n - 1 |-> px[i] * py[(i - k) % n]], n)]

\* numpy's argmax: the first of the largest entries.
ArgMax(f) == Min({i \in DOMAIN f : \A j \in DOMAIN f : f[j] <= f[i]})

\* Mutant: the slice starts one entry early.
WindowLagShort(xcorr, n, max_lag) ==
  [i \in 0..n - 1 |->
    IF max_lag < n \div 2 /\ i \in max_lag..n - max_lag - 1 THEN 0 ELSE xcorr[i]]

\* _window_lag: zeros all lags beyond max_lag on either side of index 0.
WindowLag(xcorr, n, max_lag) ==
  [i \in 0..n - 1 |->
    IF max_lag < n \div 2 /\ i \in max_lag + 1..n - max_lag - 1
      THEN 0 ELSE xcorr[i]]

\* A circular index as a lag in (-n/2, n/2].
SignedLag(peak, n) == IF peak <= n \div 2 THEN peak ELSE peak - n

\* The length of the transforms and the windowed correlation of find_offset.
ChirpCorrelation(reference, recording, n, max_lag) ==
  WindowLag(CircularCorrelation(reference, recording, n), n, max_lag)

find_offset(reference, recording, max_lag) ==
  LET n == NextPow2(Len(reference) + Len(recording))
  IN  -SignedLag(ArgMax(ChirpCorrelation(reference, recording, n, max_lag)), n)

\* The peak of the parabola through the three samples around index p, as an
\* offset from p.  The denominator is twice the curvature.
Parabola(f, p, n) ==
  LET before == f[(p - 1) % n]
      after  == f[(p + 1) % n]
      curve  == 2 * (2 * f[p] - before - after)
  IN  IF curve = 0 THEN <<0, 1>> ELSE <<after - before, curve>>

\* int() of a non-negative fraction, and of one of either sign.
TowardsZero(num, den) == IF num >= 0 THEN num \div den ELSE -((-num) \div den)

find_offset_sub_sample(reference, recording, max_lag) ==
  LET n    == NextPow2(Len(reference) + Len(recording))
      corr == ChirpCorrelation(reference, recording, n, max_lag)
      peak == ArgMax(corr)
      d    == Parabola(corr, peak, n)
      refined == peak * d[2] + d[1]    \* times d[2]
  IN  IF peak \in {0, n - 1} THEN -SignedLag(peak, n)
      ELSE IF refined <= (n \div 2) * d[2] THEN -TowardsZero(refined, d[2])
      ELSE -TowardsZero(refined - n * d[2], d[2])

(****************** one call of each, on a known signal ******************)

CONSTANTS
  Chirp,         \* the reference: any signal that is not silent
  MaxRecording,  \* bound: samples of a recording
  MaxLags        \* lag windows of the chirp search; one of half the transform
                 \* or more leaves the correlation whole, as max_lag = None does

ASSUME LagsAssumption ==
  /\ Chirp \in Seq(Int) /\ \E i \in 1..Len(Chirp) : Chirp[i] # 0
  /\ MaxRecording \in Nat /\ MaxLags \subseteq Nat

VARIABLE trial   \* the last call: what it was given and what it returned

LagsInit == trial = [of |-> "none"]

\* A recording in which the chirp starts at sample d.
RecordingWith(d, size) ==
  [i \in 1..size |-> IF i - d \in 1..Len(Chirp) THEN Chirp[i - d] ELSE 0]

\* The chirp lies whole in the recording and the window admits its lag; either
\* of the two signals is the late one.
FindChirp(size, max_lag, d) ==
  LET late == RecordingWith(d, size)
      Call(reference, recording, delay) ==
        trial' = [of |-> "chirp", delay |-> delay,
                  n |-> NextPow2(Len(reference) + Len(recording)),
                  lag |-> find_offset(reference, recording, max_lag),
                  fine |-> find_offset_sub_sample(reference, recording, max_lag)]
  IN  /\ d <= LowerOf(size - Len(Chirp), max_lag)
      /\ Call(Chirp, late, d) \/ Call(late, Chirp, -d)

LagsNext ==
  /\ trial.of = "none"
  /\ \E size \in Len(Chirp)..MaxRecording, max_lag \in MaxLags, d \in 0..MaxRecording :
       FindChirp(size, max_lag, d)

LagsSpec == LagsInit /\ [][LagsNext]_trial

-----------------------------------------------------------------------------
\* The chirp is found wherever it starts within half the transform, whichever
\* signal is the late one, and whatever signal the chirp is: at half the transform
\* and beyond its index is read from the other side.  The sub-sample estimate, which
\* truncates towards zero, is less than a sample off (correlation.py 36-52, 65-94,
\* 97-114).
LagsAreSigned ==
  trial.of = "chirp" /\ 2 * trial.delay \in -trial.n..trial.n - 1
    => trial.lag = trial.delay /\ trial.fine - trial.delay \in -1..1

=============================================================================
