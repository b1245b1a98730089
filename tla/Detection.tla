----------------------------- MODULE Detection -----------------------------
(***************************************************************************)
(* The pure arithmetic every component shares: time buckets, the HOT/COLD  *)
(* state machine, the classification of an observation and the conditions  *)
(* a DetectionConfig satisfies.  Times are UTC epoch seconds.              *)
(***************************************************************************)
EXTENDS Integers

HOT == "HOT"
COLD == "COLD"
IpState == {HOT, COLD}

\* A DetectionConfig, reduced to the fields the aggregator's window uses.
ConfigType ==
  [version : Nat, window_seconds : Nat, bucket_seconds : Nat,
   hot_threshold : Int, cold_threshold : Int,
   allowed_lateness_seconds : Nat, state_retention_seconds : Nat]

\* DetectionConfig.__post_init__ (the positivity of the durations is the
\* schema's): what construction guarantees.
IsConfig(c) ==
  /\ c \in ConfigType
  /\ c.version >= 1
  /\ c.bucket_seconds > 0 /\ c.window_seconds > 0
  /\ c.cold_threshold < c.hot_threshold
  /\ c.window_seconds % c.bucket_seconds = 0
  /\ c.state_retention_seconds >= c.window_seconds

bucket_count(c) == c.window_seconds \div c.bucket_seconds

\* The second at which the bucket containing t begins.
bucket_start(t, B) == (t \div B) * B

\* The ring slot of the bucket containing t.
bucket_index(t, B, N) == (t \div B) % N

\* The authoritative state machine, with hysteresis between the thresholds.
evaluate_ip_state(previous, count, c) ==
  IF previous = COLD
  THEN IF count >= c.hot_threshold THEN HOT ELSE COLD
  ELSE IF count < c.cold_threshold THEN COLD ELSE HOT

\* What the worker does with an observation reported for [start, start+span).
classify_observation(start, span, now, c) ==
  IF span > c.window_seconds THEN "WINDOW_TOO_LONG"
  ELSE IF start > now THEN "FUTURE"
  ELSE IF now - start > c.window_seconds + c.allowed_lateness_seconds THEN "LATE"
  ELSE IF bucket_start(now, c.bucket_seconds) - bucket_start(start, c.bucket_seconds)
            >= c.window_seconds
       THEN "EXPIRED_BUCKET"
  ELSE "APPLIED"
=============================================================================
