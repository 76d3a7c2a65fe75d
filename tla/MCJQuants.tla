------------------------------ MODULE MCJQuants ------------------------------
(***************************************************************************)
(* JQuantsFetch for TLC: an API with a holiday, a day of two pages and a day    *)
(* with a record no entity can be made of, and the pure functions of            *)
(* ListedInfo on all short lists.                                             *)
(***************************************************************************)
EXTENDS JQuantsFetch, SequencesExt, FiniteSetsExt

Record(day, code, market) == [date |-> day, code |-> code, market |-> market]

Data(day, code, name) ==
    [Date |-> day, Code |-> code, CompanyName |-> name, MarketCode |-> "0111"]

ApiInstance ==
    (37 :> << <<>> >>) @@
    (38 :> << <<Data(38, 1301, "a")>>, <<Data(38, 1302, "b")>> >>) @@
    (39 :> << <<Data(39, 1302, "b"), Data(39, 1301, "")>> >>)

JobFor(by, type, from, to, codes) ==
    [by |-> by, period |-> [type |-> type, from |-> from, to |-> to], codes |-> codes]

JobsInstance == {
    JobFor("task", "custom", 37, 38, <<>>),
    JobFor("command", "custom", 38, 38, <<>>),
    JobFor("command", "yesterday", 0, 0, <<1301>>),
    JobFor("command", "yesterday", 0, 0, <<1302>>)}

Months == {1, 32, 34, 41, 60}

Dates == 30..42
-----------------------------------------------------------------------------
Codes == {1301, 1302}

Records == {Record(d, c, m) : d \in {38, 39}, c \in Codes, m \in {"0111", "0112"}}

Lists == BoundedSeq(Records, 3)

ShortLists == BoundedSeq(Records, 2)

\* What the queries on a list have to say of one another
GroupsAgree(l) ==
    \A field \in {"date", "code", "market"} :
        LET groups == GroupBy(l, field) IN
        /\ DOMAIN groups = {l[n][field] : n \in DOMAIN l}
        /\ \A v \in DOMAIN groups : groups[v] = Filter(l, field, v)

FindsAgree(l) ==
    /\ ExtractUniqueCodes(l) = ToSet(ExtractCodes(l))
    /\ FindByCodes(l, ExtractUniqueCodes(l)) = l
    /\ \A c \in Codes :
         FindByCode(l, c) = IF FindByCodes(l, {c}) = <<>> THEN NoRecord ELSE FindByCodes(l, {c})[1]
    /\ \A m \in DOMAIN MarketCodeOf : FilterMarket(l, m) = Filter(l, "market", MarketCodeOf[m])

LatestAgrees(l) ==
    LET latest == LatestByCode(l) IN
    /\ DOMAIN latest = ExtractUniqueCodes(l)
    /\ \A c \in DOMAIN latest :
         latest[c] = FilterByDate(Filter(l, "code", c),
                            Max({l[n].date : n \in {n \in DOMAIN l : l[n].code = c}}))[1]

ChangesAgree(old, new) ==
    LET changes == FindChanges(old, new)
        back == FindChanges(new, old)
        CodesOf(part) == {i.code : i \in changes[part]} IN
    /\ changes.added = back.removed
    /\ CodesOf("added") = ExtractUniqueCodes(new) \ ExtractUniqueCodes(old)
    /\ CodesOf("removed") = ExtractUniqueCodes(old) \ ExtractUniqueCodes(new)
    /\ CodesOf("changed") \subseteq ExtractUniqueCodes(old) \cap ExtractUniqueCodes(new)
    /\ old = new => changes = [added |-> {}, removed |-> {}, changed |-> {}]

AllListsAgree ==
    /\ \A l \in Lists : GroupsAgree(l) /\ FindsAgree(l) /\ LatestAgrees(l)
    /\ \A old, new \in ShortLists : ChangesAgree(old, new)

\* ListedInfoService answers on a list what the list holds: groups, filters and
\* finds agree, the latest record of a code is the latest whatever the order, and
\* the changes between two lists account for every code.  On the rows of the
\* table it finds what the repository finds (ListedInfoService,
\* JQuantsListedInfoRepositoryImpl).
ListsAgree ==
    /\ AllListsAgree
    /\ LET rows == SetToSeq(table) IN
       \A c \in Codes, d \in {38, 39} :
         /\ FindLatestByCode(table, c) = ToSet(SelectSeq(rows, LAMBDA i :
                c \in DOMAIN LatestByCode(rows) /\ i = LatestByCode(rows)[c]))
         /\ ToSet(FindAllByDate(table, d)) = ToSet(FilterByDate(rows, d))
         /\ FindByCodeAndDate(table, c, d) = ToSet(FindByCodes(FindAllByDate(table, d), {c}))

=============================================================================
