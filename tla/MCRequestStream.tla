--------------------------- MODULE MCRequestStream ---------------------------
(* Instances of RequestStream for TLC: days of three slots, the last slot   *)
(* being the last second of the day.                                        *)
EXTENDS RequestStream

MCAt == [midnight |-> 2, next |-> 3]

Plain == [wellFormed |-> TRUE, status |-> 200, management |-> FALSE, asset |-> FALSE, site |-> TRUE, host |-> TRUE]
MCItem == [r \in Records |-> IF r = "next" THEN [Plain EXCEPT !.status = 403, !.management = TRUE] ELSE Plain]

Saved(h, c, hd, cd) ==
  [hot |-> h, cold |-> c, toHot |-> FALSE, toCold |-> FALSE, fallback |-> FALSE,
   import |-> TRUE, hotDays |-> hd, coldDays |-> cd]
Tiered == Saved("opensearch", "clickhouse", 1, 2)
OnlyFiles == [Saved("file", "file", 1, 2) EXCEPT !.fallback = TRUE]

MCSettings == {Tiered, OnlyFiles}
MCQueries == {[day |-> 0, tz |-> 1, since |-> None], [day |-> None, tz |-> 0, since |-> 1]}
=============================================================================
