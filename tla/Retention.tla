----------------------------- MODULE Retention -----------------------------
(***************************************************************************)
(* The buckets of the historian: the retention policies and continuous     *)
(* queries a storage is set up with (storage/influxdb_v1.go), and which    *)
(* bucket and field a question about the past is sent to                   *)
(* (storage/mapping.go).                                                   *)
(*                                                                         *)
(* Durations are whole minutes.  A relative time such as "10m" is a record *)
(* [n, unit], and NoTime is the empty string.  A field is told by the      *)
(* number of times "mean_" stands before its name.                         *)
(***************************************************************************)
EXTENDS Integers

Profiles == {"simple", "optimized", "raw"}

\* A retention policy is a bucket.
Buckets == {"gen_raw", "gen_day", "gen_week", "gen_month", "gen_year", "gen_default"}

Hour  == 60
Day   == 24 * Hour
Week  == 7 * Day
Month == 4 * Week

-----------------------------------------------------------------------------
(* Set-up *)

\* Mutated form of BucketDuration: gen_month is kept for three months, as gen_week is.
BucketDurationShort(profile, b) ==
    CASE profile = "optimized" /\ b = "gen_year" -> 240 * Week
      [] profile = "optimized" /\ b \in {"gen_month", "gen_week", "gen_default"} -> 12 * Week
      [] profile = "optimized" /\ b \in {"gen_day", "gen_raw"} -> 2 * Week
      [] profile # "optimized" /\ b \in {"gen_raw", "gen_default"} -> 240 * Week
      [] OTHER -> 0

\* How long InitDefaultBuckets and InitSimpleBuckets let a bucket keep its points;
\* 0 for a bucket they do not make.
BucketDuration(profile, b) ==
    CASE profile = "optimized" /\ b = "gen_year" -> 240 * Week
      [] profile = "optimized" /\ b = "gen_month" -> 48 * Week
      [] profile = "optimized" /\ b \in {"gen_week", "gen_default"} -> 12 * Week
      [] profile = "optimized" /\ b \in {"gen_day", "gen_raw"} -> 2 * Week
      [] profile # "optimized" /\ b \in {"gen_raw", "gen_default"} -> 240 * Week
      [] OTHER -> 0

\* The continuous queries of InitDefaultBuckets, in the order of their making.
Chain == <<"raw_to_day", "day_to_week", "week_to_month", "month_to_year">>
ContinuousQueries == {"raw_to_day", "day_to_week", "week_to_month", "month_to_year"}

Source(q) ==
    CASE q = "raw_to_day"    -> "gen_raw"
      [] q = "day_to_week"   -> "gen_day"
      [] q = "week_to_month" -> "gen_week"
      [] q = "month_to_year" -> "gen_month"

\* Mutated form of Target: the third query fills gen_week, which the second fills too.
TargetRepeated(q) ==
    CASE q = "raw_to_day"    -> "gen_day"
      [] q \in {"day_to_week", "week_to_month"} -> "gen_week"
      [] q = "month_to_year" -> "gen_year"

Target(q) ==
    CASE q = "raw_to_day"    -> "gen_day"
      [] q = "day_to_week"   -> "gen_week"
      [] q = "week_to_month" -> "gen_month"
      [] q = "month_to_year" -> "gen_year"

\* The interval whose mean is one point of the target.
Width(q) ==
    CASE q = "raw_to_day"    -> 1
      [] q = "day_to_week"   -> 10
      [] q = "week_to_month" -> Hour
      [] q = "month_to_year" -> Day

-----------------------------------------------------------------------------
(* Questions *)

NoTime == [n |-> 0, unit |-> ""]

\* A unit that is not one of the four makes the duration 0.
ResolveDurationFromRelativeTime(t) ==
    CASE t.unit = "h" -> t.n * Hour
      [] t.unit = "d" -> t.n * Day
      [] t.unit = "m" -> t.n
      [] t.unit = "w" -> t.n * Week
      [] OTHER -> 0

\* The bucket for what lies back so long at most.
ResolveRetentionByElapsedTimeDuration(elapsed, profile) ==
    CASE profile # "optimized" -> "gen_raw"
      [] profile = "optimized" /\ elapsed > 12 * Month -> "gen_year"
      [] profile = "optimized" /\ elapsed > 1 * Month /\ elapsed <= 12 * Month -> "gen_month"
      [] profile = "optimized" /\ elapsed > 1 * Week /\ elapsed <= 1 * Month -> "gen_week"
      [] profile = "optimized" /\ elapsed > 1 * Day /\ elapsed <= 1 * Week -> "gen_day"
      [] OTHER -> "gen_raw"

\* How wide the points of a bucket are.
GetRetentionTimeGroupDuration(b, profile) ==
    CASE profile = "optimized" /\ b = "gen_day"   -> 1
      [] profile = "optimized" /\ b = "gen_week"  -> 10
      [] profile = "optimized" /\ b = "gen_month" -> Hour
      [] profile = "optimized" /\ b = "gen_year"  -> Day
      [] OTHER -> 0

\* The coarsest bucket whose points are no wider than the group.
ResolveRetentionByTimeGroup(group, profile) ==
    LET d == ResolveDurationFromRelativeTime(group)
    IN  CASE profile # "optimized" -> "gen_raw"
          [] profile = "optimized" /\ d >= Day -> "gen_year"
          [] profile = "optimized" /\ d >= Hour /\ d < Day -> "gen_month"
          [] profile = "optimized" /\ d >= 10 /\ d < Hour -> "gen_week"
          [] profile = "optimized" /\ d >= 1 /\ d < 10 -> "gen_day"
          [] OTHER -> "gen_raw"

\* How often "mean_" stands before the name of a field.
ResolveFieldFullName(b) ==
    CASE b = "gen_day"   -> 1
      [] b = "gen_week"  -> 2
      [] b = "gen_month" -> 3
      [] b = "gen_year"  -> 4
      [] OTHER -> 0
=============================================================================
