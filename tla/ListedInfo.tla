------------------------------ MODULE ListedInfo ------------------------------
(***************************************************************************)
(* The listed companies as the domain sees them: JQuantsListedInfo and         *)
(* ListedInfoService on lists of them, TimePeriod, and the dates a fetch task  *)
(* works through.                                                            *)
(*                                                                          *)
(* A record has its date, its code and, for the eleven attributes that are    *)
(* only copied and compared, its market.  A date is the number of a day.      *)
(***************************************************************************)
EXTENDS Integers, Sequences, FiniteSets

LOCAL INSTANCE SequencesExt
LOCAL INSTANCE FiniteSetsExt
LOCAL INSTANCE TLC

CONSTANTS
    MonthStarts,   \* the days that are the first of a month
    Calendar       \* the days that periods begin and end on

ASSUME CalendarAssumption ==
    /\ MonthStarts \cup Calendar \subseteq Nat
    /\ \A d \in Calendar : (\E s \in MonthStarts : s <= d) /\ \E s \in MonthStarts : s > d

NoRecord == [date |-> 0, code |-> 0, market |-> "none"]
-----------------------------------------------------------------------------
(* JQuantsListedInfo *)

\* market_code, as the predicates of the entity compare it
MarketCodeOf == [prime |-> "0111", standard |-> "0112", growth |-> "0113"]

IsOnMarket(info, market) == info.market = MarketCodeOf[market]

IsSameListing(info, other) == info.date = other.date /\ info.code = other.code
-----------------------------------------------------------------------------
(* ListedInfoService *)

\* filter_by_market, filter_by_sector_17 and _33, filter_by_scale: the records
\* that have `value' in `field'; the other filters name the value themselves.
Filter(infos, field, value) == SelectSeq(infos, LAMBDA i : i[field] = value)

FilterByDate(infos, day) == Filter(infos, "date", day)

FilterMarket(infos, market) == SelectSeq(infos, LAMBDA i : IsOnMarket(i, market))

FindByCode(infos, code) ==
    LET found == Filter(infos, "code", code) IN
    IF found = <<>> THEN NoRecord ELSE found[1]

FindByCodes(infos, codes) == SelectSeq(infos, LAMBDA i : i.code \in codes)

\* group_by_market, group_by_sector_17 and _33
GroupBy(infos, field) ==
    FoldLeft(LAMBDA groups, i :
                 IF i[field] \in DOMAIN groups
                   THEN [groups EXCEPT ![i[field]] = Append(@, i)]
                   ELSE (i[field] :> <<i>>) @@ groups,
             <<>>, infos)

ExtractCodes(infos) == [n \in DOMAIN infos |-> infos[n].code]

ExtractUniqueCodes(infos) == {infos[n].code : n \in DOMAIN infos}

\* {info.code: info for info in infos}: the last record of a code stays
ByCode(infos) == FoldLeft(LAMBDA d, i : (i.code :> i) @@ d, <<>>, infos)

FindChanges(old, new) ==
    LET o == ByCode(old)
        n == ByCode(new) IN
    [added   |-> {n[c] : c \in DOMAIN n \ DOMAIN o},
     removed |-> {o[c] : c \in DOMAIN o \ DOMAIN n},
     changed |-> {n[c] : c \in {c \in DOMAIN n \cap DOMAIN o : ~IsSameListing(n[c], o[c])}}]

\* Slip: a later record of a code replaces one of a later date.
LatestSeen(infos) == ByCode(infos)

LatestByCode(infos) ==
    FoldLeft(LAMBDA latest, i :
                 IF i.code \notin DOMAIN latest \/ i.date > latest[i.code].date
                   THEN (i.code :> i) @@ latest
                   ELSE latest,
             <<>>, infos)
-----------------------------------------------------------------------------
(* TimePeriod *)

Period(start, end) == [start |-> start, end |-> end]

IsPeriod(p) == p.start <= p.end

NoPeriod == Period(1, 0)   \* ValueError

NumberOfDays(p) == p.end - p.start + 1

ContainsDay(p, day) == p.start <= day /\ day <= p.end

Overlaps(p, q) == ~(p.end < q.start \/ p.start > q.end)

IsAdjacent(p, q) == p.end + 1 = q.start \/ q.end + 1 = p.start

Merge(p, q) ==
    IF ~Overlaps(p, q) /\ ~IsAdjacent(p, q)
      THEN NoPeriod
      ELSE Period(Min({p.start, q.start}), Max({p.end, q.end}))

\* The last day of the month of a day
MonthEnd(day) == Min({s \in MonthStarts : s > day}) - 1

\* Slip: the next part starts a day late.
SplitByMonthsSkipping(p) ==
    LET from[current \in p.start..(p.end + 2)] ==
          LET end == Min({MonthEnd(current), p.end}) IN
          IF current > p.end THEN <<>> ELSE <<Period(current, end)>> \o from[end + 2]
    IN  from[p.start]

SplitByMonths(p) ==
    LET from[current \in p.start..(p.end + 1)] ==
          LET end == Min({MonthEnd(current), p.end}) IN
          IF current > p.end THEN <<>> ELSE <<Period(current, end)>> \o from[end + 1]
    IN  from[p.start]

LastNDays(n, from) == IF n < 1 THEN NoPeriod ELSE Period(from - (n - 1), from)

CurrentMonth(today) == Period(Max({s \in MonthStarts : s <= today}), today)
-----------------------------------------------------------------------------
(* _calculate_date_range *)

\* The target dates in the order of the code.  A period type it does not know,
\* or a custom period that lacks a date (0), is a ValueError: InvalidRange.
InvalidRange == <<0>>

DateRange(today, period) ==
    LET yesterday == today - 1 IN
    CASE period.type = "yesterday" -> <<yesterday>>
      [] period.type = "7days"  -> [n \in 1..7 |-> yesterday - (n - 1)]
      [] period.type = "30days" -> [n \in 1..30 |-> yesterday - (n - 1)]
      [] period.type = "custom" /\ period.from # 0 /\ period.to # 0 ->
             [n \in 1..(period.to - period.from + 1) |-> period.from + n - 1]
      [] OTHER -> InvalidRange
-----------------------------------------------------------------------------
(* What periods, months and dates have to say of one another *)

Periods == {p \in [start : Calendar, end : Calendar] : IsPeriod(p)}

Days(p) == p.start..p.end

\* The parts of a period are in order, one for each month, and are the period.
MonthsAgree(p) ==
    LET months == SplitByMonths(p) IN
    /\ \A k \in DOMAIN months :
         IsPeriod(months[k]) /\ MonthEnd(months[k].start) = MonthEnd(months[k].end)
    /\ \A k, l \in DOMAIN months : k < l => MonthEnd(months[k].end) < months[l].start
    /\ UNION {Days(months[k]) : k \in DOMAIN months} = Days(p)

\* Two periods merge if their days are without a gap, and keep them.
MergesAgree(p, q) ==
    LET both == Days(p) \cup Days(q) IN
    /\ Overlaps(p, q) <=> \E d \in Days(p) : ContainsDay(q, d)
    /\ IF \E first, last \in both : both = first..last
         THEN Days(Merge(p, q)) = both
         ELSE Merge(p, q) = NoPeriod

\* The period that a period type, and for "custom" its dates, stand for
NamedPeriod(today, period) ==
    CASE period.type = "yesterday" -> LastNDays(1, today - 1)
      [] period.type = "7days"     -> LastNDays(7, today - 1)
      [] period.type = "30days"    -> LastNDays(30, today - 1)
      [] period.type = "custom"    -> Period(period.from, period.to)

IsNamed(period) == period.type = "custom" => period.from # 0 /\ period.to # 0

\* Each day of the period is a target date, and none twice.
DatesAgree(today, period) ==
    LET dates == DateRange(today, period)
        named == NamedPeriod(today, period) IN
    /\ {dates[n] : n \in DOMAIN dates} = Days(named)
    /\ Len(dates) = IF IsPeriod(named) THEN NumberOfDays(named) ELSE 0

PeriodsAgree ==
    /\ \A p \in Periods : MonthsAgree(p)
    /\ \A p, q \in Periods : MergesAgree(p, q)
    /\ \A d \in Calendar : SplitByMonths(CurrentMonth(d)) = <<CurrentMonth(d)>>

=============================================================================
