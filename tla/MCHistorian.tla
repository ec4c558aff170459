---------------------------- MODULE MCHistorian ----------------------------
(* Instances of Historian for TLC. *)
EXTENDS Historian

Time(n, unit) == [n |-> n, unit |-> unit]

Question(m, relative, group, func) ==
    [measurement |-> m, since |-> 0, relativeTime |-> relative, groupByTime |-> group,
     groupByTag |-> FALSE, dataFunction |-> func, listed |-> FALSE]

\* A range on either side of every threshold of the query side, each with a group on
\* either side of every width.
Ranges == {Time(24, "h"), Time(2, "d"), Time(1, "w"), Time(4, "w"), Time(5, "w"),
           Time(48, "w"), Time(240, "w")}
Groups == {NoTime, Time(1, "m"), Time(10, "m"), Time(1, "h"), Time(1, "d")}

AllQuestions ==
    {Question("power", r, g, "") : r \in Ranges, g \in Groups}
    \cup {[Question("power", NoTime, NoTime, "") EXCEPT !.since = s] :
              s \in {Day, Week + 1, Month, 12 * Month + 1}}
    \cup {Question("power", Time(1, "w"), Time(1, "d"), "last"),
          [Question("power", Time(2, "d"), NoTime, "") EXCEPT !.groupByTag = TRUE],
          [Question("power", Time(1, "h"), NoTime, "") EXCEPT !.listed = TRUE],
          Question("presence", Time(1, "d"), NoTime, ""),
          Question("presence", Time(12, "w"), Time(1, "d"), ""),
          Question("energy_sampled", Time(1, "w"), Time(1, "d"), ""),
          Question("energy_sampled", Time(240, "w"), NoTime, ""),
          [Question("energy_sampled", Time(240, "w"), Time(1, "d"), "") EXCEPT
              !.groupByTag = TRUE],
          [Question("energy_sampled", NoTime, Time(1, "h"), "") EXCEPT
              !.since = 240 * Week, !.groupByTag = TRUE]}

\* The ages at which a window closes, a threshold is passed or a bucket gives up.
AllAges ==
    {1, 2, 10, 11, Hour, Hour + 1, Day, Day + 1, Week, 2 * Week, 2 * Week + 1, 4 * Week,
     12 * Week, 12 * Week + 1, 48 * Week, 48 * Week + 1, 240 * Week, 240 * Week + 1}
=============================================================================
