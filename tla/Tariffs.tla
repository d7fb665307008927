------------------------------ MODULE Tariffs ------------------------------
(***************************************************************************)
(* Electricity prices (app/shared/tariff_service.py and                    *)
(* app/ingest/regional_tariff_loader.py): the master data set has a price  *)
(* for every season and local hour of a region; a curve has one point for  *)
(* every hour of UTC, each looked up on its own and kept in the table      *)
(* regional_tariffs.  A process remembers the file it has read until the   *)
(* modification time changes; the operator may replace it at any moment.   *)
(***************************************************************************)
EXTENDS CandidateScheduler, Integers, Sequences

CONSTANTS
  Files,         \* the files, in order: region -> season -> local hour -> price
  Offset,        \* region -> tick of UTC -> ticks to add (shared/timezone.py)
  SummerDays,    \* the local days of summer, where summer is a matter of the date
  Seasonal,      \* the regions where it is
  DefaultPrice,  \* what an hour costs that the file does not have
  Windows,       \* the windows <<start, end>> that are asked for
  Pricers        \* processes that store what they price, with one thread each

ASSUME TariffAssumption ==
    Windows \subseteq Nat \X Nat /\ \A w \in Windows : w[1] <= w[2]

VARIABLES
  tariffFile, \* index of the file now in place, which stands for its time too
  memo,       \* process -> the time and the content it remembers
  curve,      \* process -> the curve it is making
  tariffRows  \* regional_tariffs

tariffVars == <<tariffFile, memo, curve, tariffRows>>

Day == 24 * PerHour

\* utc_to_region_time, by a clock that begins a day earlier than that of UTC.
LocalTime(region, t) == t + Day + Offset[region][t]
LocalHour(region, t) == HourOf(LocalTime(region, t)) % 24
LocalDay(region, t) == LocalTime(region, t) \div Day

\* Noon of a date, which stands for it in get_hourly_tariffs.
NoonOf(day) == day * Day + 12 * PerHour

\* The zones of the regions are from UTC-8 to UTC+11: at noon of UTC the date is
\* the same everywhere.
ASSUME ZoneAssumption ==
    \A region \in DOMAIN Offset :
        /\ \A t \in DOMAIN Offset[region] :
             Offset[region][t] \in -(12 * PerHour) .. 12 * PerHour - 1
        /\ \A w \in Windows : \A t \in w[1] .. w[2] :
             {t, NoonOf(LocalDay(region, t) - 1)} \subseteq DOMAIN Offset[region]

Seasons(data, region) == IF region \in DOMAIN data THEN DOMAIN data[region] ELSE {}
FirstSeason(data, region) == CHOOSE s \in Seasons(data, region) : TRUE

\* determine_season_for_region.
SeasonOf(data, region, day) ==
    CASE region \in Seasonal -> IF day \in SummerDays THEN "SUMMER" ELSE "WINTER"
      [] region \notin Seasonal /\ Seasons(data, region) \ {"ALL-YEAR"} # {}
           /\ "ALL-YEAR" \notin Seasons(data, region) -> FirstSeason(data, region)
      [] OTHER -> "ALL-YEAR"

\* The hours of a season, or of the first when the file does not have that one.
Rates(data, region, season) ==
    CASE season \in Seasons(data, region) -> data[region][season]
      [] Seasons(data, region) = {} -> <<>>
      [] OTHER -> data[region][FirstSeason(data, region)]

\* get_tariff_for_region_and_time. The season is read from the data set again.
PriceAt(data, again, region, t) ==
    LET rates == Rates(data, region, SeasonOf(again, region, LocalDay(region, t)))
        hour == LocalHour(region, t)
    IN  IF hour \in DOMAIN rates THEN rates[hour] ELSE DefaultPrice

\* get_hourly_tariffs: the hours of a date, by the season at noon UTC.
HourlyTable(data, region, day) ==
    Rates(data, region, SeasonOf(data, region, LocalDay(region, NoonOf(day))))
----------------------------------------------------------------------------
Blank == [pc |-> "idle", region |-> Unset, window |-> Unset, next |-> 0, asked |-> 0,
          seen |-> 0, held |-> Unset, points |-> {}, fresh |-> {}]

TariffInit ==
    /\ tariffFile = 1 /\ tariffRows = {}
    /\ memo = [p \in Pricers |-> [time |-> 0, content |-> 0]]
    /\ curve = [p \in Pricers |-> Blank]

ReplaceFile ==
    /\ tariffFile < Len(Files)
    /\ tariffFile' = tariffFile + 1
    /\ UNCHANGED <<memo, curve, tariffRows>>

\* The first point is that of the hour that has begun.
BeginCurve(p) ==
    /\ curve[p].pc \in {"idle", "done"}
    /\ \E region \in DOMAIN Offset, w \in Windows :
          curve' = [curve EXCEPT ![p] =
            [Blank EXCEPT !.pc = "look", !.region = region, !.window = w,
                          !.next = HourOf(w[1]) * PerHour]]
    /\ UNCHANGED <<tariffFile, memo, tariffRows>>

Goes(p, to) == curve' = [curve EXCEPT ![p].pc = to]

\* load_master_tariff_data: what is remembered will do if the time is the same ...
LookAtFile(p) ==
    /\ curve[p].pc = "look"
    /\ curve' = [curve EXCEPT ![p].pc = IF memo[p].time = tariffFile THEN "take" ELSE "parse",
                              ![p].seen = tariffFile,
                              ![p].asked = IF curve[p].held = Unset THEN tariffFile ELSE @]
    /\ UNCHANGED <<tariffFile, memo, tariffRows>>

\* Mutant: the time is that of the file when it has been read, not before.
ParseFile_TimeAfter(p) ==
    /\ \/ curve[p].pc = "parse"
          /\ memo' = [memo EXCEPT ![p].content = tariffFile] /\ Goes(p, "stamp")
       \/ curve[p].pc = "stamp"
          /\ memo' = [memo EXCEPT ![p].time = tariffFile] /\ Goes(p, "take")
    /\ UNCHANGED <<tariffFile, tariffRows>>

\* ... and otherwise the file is read, whatever it is by now.
ParseFile(p) ==
    /\ curve[p].pc = "parse"
    /\ memo' = [memo EXCEPT ![p] = [time |-> curve[p].seen, content |-> tariffFile]]
    /\ Goes(p, "take")
    /\ UNCHANGED <<tariffFile, tariffRows>>

\* The rows are taken first, then the season.
TakeRows(p) ==
    /\ curve[p].pc = "take" /\ curve[p].held = Unset
    /\ curve' = [curve EXCEPT ![p].pc = "look", ![p].held = memo[p].content]
    /\ UNCHANGED <<tariffFile, memo, tariffRows>>

\* Mutant: the hour in which the window ends is left out.
IsLast_Exclusive(at, window) == at + PerHour >= window[2]

IsLast(at, window) == at + PerHour > window[2]

\* One turn of the loop in get_regional_tariff_curve.
PriceHour(p) ==
    LET c == curve[p]
        again == memo[p].content
        point == [at |-> c.next, fallback |-> FALSE, asked |-> c.asked,
                  held |-> c.held, again |-> again,
                  value |-> PriceAt(Files[c.held], Files[again], c.region, c.next)]
    IN  /\ c.pc = "take" /\ c.held # Unset
        /\ curve' = [curve EXCEPT ![p].points = @ \cup {point}, ![p].held = Unset,
                       ![p].next = @ + PerHour,
                       ![p].pc = IF IsLast(c.next, c.window) THEN "check" ELSE "look"]
        /\ UNCHANGED <<tariffFile, memo, tariffRows>>

IsStored(region, at) == \E row \in tariffRows : row.region = region /\ row.at = at

\* The hours that are not in the table are added to it in one transaction; a
\* row that is there keeps its price.
CheckRows(p) ==
    LET c == curve[p] IN
    /\ c.pc = "check"
    /\ curve' = [curve EXCEPT ![p].pc = "store",
                   ![p].fresh = {q \in c.points : ~IsStored(c.region, q.at)}]
    /\ UNCHANGED <<tariffFile, memo, tariffRows>>

StoreRows(p) ==
    LET c == curve[p] IN
    /\ c.pc = "store"
    /\ tariffRows' = tariffRows \cup {[region |-> c.region, at |-> q.at] : q \in c.fresh}
    /\ Goes(p, "done")
    /\ UNCHANGED <<tariffFile, memo>>

PricerStep(p) ==
    \/ BeginCurve(p) \/ LookAtFile(p) \/ ParseFile(p) \/ TakeRows(p) \/ PriceHour(p)
    \/ CheckRows(p) \/ StoreRows(p)

TariffNext == ReplaceFile \/ \E p \in Pricers : PricerStep(p)

TariffSpec == TariffInit /\ [][TariffNext]_tariffVars
----------------------------------------------------------------------------
\* No price comes from a file older than the one in place when it was asked for,
\* although the file is replaced between the look at its time and the reading of
\* it (load_master_tariff_data, one thread).
PricesAreCurrent == \A p \in Pricers : \A q \in curve[p].points : q.held >= q.asked

\* get_tariff_for_region_and_time and _interpolate_tariff.
StartsPayTheirHour(c, data) ==
    \A t \in c.window[1] .. c.window[2] :
        \E u \in (t - PerHour + 1) .. (t + PerHour \div 2) :
            u >= 0 /\ InterpolateTariff(c.points, <<>>, t) = PriceAt(data, data, c.region, u)

\* get_hourly_tariffs.
TableAgrees(c, data) ==
    \A t \in c.window[1] .. c.window[2] :
        LET table == HourlyTable(data, c.region, LocalDay(c.region, t) - 1)
            hour == LocalHour(c.region, t)
        IN  hour \in DOMAIN table => table[hour] = PriceAt(data, data, c.region, t)

\* In zones with half hours and across changes of clock and season, the price a
\* start is charged is in force within the hour before it or the half hour after
\* it, wherever in the window it is; and the table of a date has for its hours
\* what the clock of the region says, also on the days on which a season begins
\* (get_regional_tariff_curve, get_hourly_tariffs).
PricesFollowTheClock ==
    \A p \in Pricers : curve[p].pc = "done" =>
        LET c == curve[p] IN
        /\ TableAgrees(c, Files[memo[p].content])
        /\ \A v \in 1 .. tariffFile :
              (\A q \in c.points : q.held = v /\ q.again = v) => StartsPayTheirHour(c, Files[v])

(***************************************************************************)
(* Why prices are current: what is remembered is at least as new as its    *)
(* time says, and is taken only when that is the time that was looked at.  *)
(***************************************************************************)
IsCurrent(p) ==
    LET c == curve[p] m == memo[p]
    IN  /\ DOMAIN c = DOMAIN Blank
        /\ c.asked \in Nat /\ c.seen \in Nat /\ c.held \in Figure
        /\ m.content >= m.time /\ c.seen =< tariffFile
        /\ c.held = Unset /\ c.pc \in {"parse", "take"} => c.asked = c.seen
        /\ c.pc = "take" => m.time = c.seen
        /\ c.held # Unset => c.held >= c.asked
        /\ \A q \in c.points : q.held >= q.asked

TariffInv ==
    /\ tariffFile \in Nat
    /\ memo \in [Pricers -> [time : Nat, content : Nat]]
    /\ DOMAIN curve = Pricers
    /\ \A p \in Pricers : IsCurrent(p)
=============================================================================
