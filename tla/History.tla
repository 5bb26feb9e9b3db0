--------------------------------- MODULE History ---------------------------------
(***************************************************************************)
(* src/bdboard/derive/history.py and the bounds api_history (app.py)        *)
(* resolves: the window of a request, the fetch it needs, the closed list   *)
(* and its pages, the series per day, the percentiles of the lead times and *)
(* the status timeline of a bead.                                           *)
(*                                                                          *)
(* A bead is its status and its stamps; time is counted in ticks, several   *)
(* to a second, from a midnight of UTC.  A page is the set of its beads:    *)
(* sorted() and the slice are the rank of a bead.                           *)
(***************************************************************************)
EXTENDS Integers, SequencesExt

CONSTANTS
    None,        \* no stamp, no date, no bound
    Preset,      \* the preset ranges
    Default,     \* DEFAULT_HISTORY_RANGE
    Length,      \* HISTORY_RANGES: the length of each; None is the range "all"
    Date,        \* dates of the custom form, as days
    Size,        \* HISTORY_PAGE_SIZES
    DefaultSize, \* HISTORY_PAGE_SIZE
    Second,      \* ticks to a second
    Day,         \* ticks to a day
    Offset,      \* the server's zone, ahead of UTC
    Stamp,       \* moments a bead is created, started or closed at
    World,       \* sets of beads the derivations are checked on
    Log          \* commits of a bead, oldest first, the timeline is checked on

MaybeStamp == Stamp \cup {None}
MaybeDate == Date \cup {None}

\* active and closed lists may hold one id at two moments, as two beads.
Beads == [id: Nat, closed: BOOLEAN, createdAt: MaybeStamp, startedAt: MaybeStamp,
          closedAt: MaybeStamp]

\* An entry without an issue, or an issue without a status, has "none".
Status == {"none", "open", "in_progress", "closed"}

ASSUME HistoryAssumption ==
    /\ None \notin Int
    /\ Default \in Preset
    /\ Length \in [Preset -> Nat \cup {None}]
    /\ Date \subseteq Nat
    /\ Size \subseteq Nat \ {0}
    /\ DefaultSize \in Size
    /\ Second \in Nat \ {0}
    /\ Day \in Nat \ {0}
    /\ Offset \in Nat
    /\ Stamp \subseteq Nat
    /\ World \subseteq SUBSET Beads
    /\ \A beads \in World : IsFiniteSet(beads)
    /\ Log \subseteq Seq([status: Status, when: MaybeStamp])

--------------------------------------------------------------------------------
(* The window: a preset range, or the dates of the custom form.             *)

Window == [range: Preset, from: MaybeDate, to: MaybeDate]

Custom(w) == w.from # None \/ w.to # None
Inverted(w) == w.from # None /\ w.to # None /\ w.from > w.to

\* _range_to_cutoff(): measured back from now.
Cutoff(range, now) == IF Length[range] = None THEN None ELSE now - Length[range]

\* custom_bounds(): from its first moment to the end of the last day, also when
\* the dates come in the wrong order.
FromDay(w) == IF Inverted(w) THEN w.to ELSE w.from
ToDay(w) == IF Inverted(w) THEN w.from ELSE w.to

\* _resolve_bounds(): the dates win over the range.
Low(w, now) ==
    IF ~Custom(w) THEN Cutoff(w.range, now)
    ELSE IF FromDay(w) = None THEN None ELSE FromDay(w) * Day
High(w) == IF ToDay(w) = None THEN None ELSE (ToDay(w) + 1) * Day

Within(t, low, high) ==
    /\ t # None
    /\ low # None => low <= t
    /\ high # None => t < high

\* _closed_in_window(), _created_in_window().
ClosedIn(beads, w, now) ==
    {b \in beads : b.closed /\ Within(b.closedAt, Low(w, now), High(w))}
CreatedIn(beads, w, now) ==
    {b \in beads : Within(b.createdAt, Low(w, now), High(w))}

\* For the mutation runs: the bound rounded up to a whole second.
FetchedFromNextSecond(beads, low) ==
    {b \in beads :
        \/ ~b.closed \/ low = None
        \/ b.closedAt # None /\ b.closedAt >= ((low + Second - 1) \div Second) * Second}

\* What the lists hold for a request that pushes its lower bound down to bd,
\* which strftime cuts to whole seconds.
Fetched(beads, low) ==
    {b \in beads :
        \/ ~b.closed \/ low = None
        \/ b.closedAt # None /\ b.closedAt >= (low \div Second) * Second}

--------------------------------------------------------------------------------
(* The closed list and its pages.                                           *)

\* For the mutation runs: sorted without the minus.
OldestFirst(a, b) ==
    \/ a.closedAt < b.closedAt
    \/ a.closedAt = b.closedAt /\ a.id < b.id

\* Newest first, then by id.
Before(a, b) ==
    \/ a.closedAt > b.closedAt
    \/ a.closedAt = b.closedAt /\ a.id < b.id

Rank(b, ranked) == Cardinality({c \in ranked : Before(c, b)})

\* clamp_page_size(): a size that is missing or not offered is the default.
ClampSize(size) == IF size \in Size THEN size ELSE DefaultSize

\* history_window(): the items of a page, and whether there are more.
Items(ranked, page, size) ==
    {b \in ranked : Rank(b, ranked) \in ((page - 1) * size)..(page * size - 1)}
HasMore(ranked, page, size) == page * size < Cardinality(ranked)

--------------------------------------------------------------------------------
(* The series: beads per local day, without a gap.                          *)

DayOf(t) == (t + Offset) \div Day

\* _bucket_by_day(): the days that have a bead, and how many.
DaysOf(stamps) == {DayOf(t) : t \in stamps \ {None}}
ClosedOn(beads, d) == Cardinality({b \in beads : DayOf(b.closedAt) = d})
CreatedOn(beads, d) == Cardinality({b \in beads : DayOf(b.createdAt) = d})

\* _iter_day_span().
DaySpan(days) == IF days = {} THEN {} ELSE Min(days)..Max(days)

ClosedDays(beads, w, now) == DaysOf({b.closedAt : b \in ClosedIn(beads, w, now)})
CreatedDays(beads, w, now) == DaysOf({b.createdAt : b \in CreatedIn(beads, w, now)})

Throughput(beads, w, now) ==
    [d \in DaySpan(ClosedDays(beads, w, now)) |->
        ClosedOn(ClosedIn(beads, w, now), d)]

Created(beads, w, now) ==
    [d \in DaySpan(CreatedDays(beads, w, now)) |->
        CreatedOn(CreatedIn(beads, w, now), d)]

\* For the mutation runs: the days something was closed on.
SpanOfClosed(beads, w, now) == DaySpan(ClosedDays(beads, w, now))

CombinedSpan(beads, w, now) ==
    DaySpan(ClosedDays(beads, w, now) \cup CreatedDays(beads, w, now))

\* combined(): both on the days that saw either.
Combined(beads, w, now) ==
    [d \in CombinedSpan(beads, w, now) |->
        [created |-> CreatedOn(CreatedIn(beads, w, now), d),
         closed |-> ClosedOn(ClosedIn(beads, w, now), d)]]

--------------------------------------------------------------------------------
(* The statistics, in hundredths of a tick.                                 *)

\* From a stamp of a bead to its closing.
Span(b, start) == [id |-> b.id, from |-> start, to |-> b.closedAt]

\* How long the spans took that have a start and are not negative, sorted: fewer
\* than i of them are shorter than the i-th, and at least i are no longer.
Durations(spans) ==
    LET timed == {s \in spans : s.from # None /\ s.to >= s.from}
        Took(s) == s.to - s.from
        Shorter(t) == Cardinality({s \in timed : Took(s) < t})
        NoLonger(t) == Cardinality({s \in timed : Took(s) <= t})
    IN [i \in 1..Cardinality(timed) |->
            CHOOSE t \in {Took(s) : s \in timed} : Shorter(t) < i /\ i <= NoLonger(t)]

Leads(beads) == Durations({Span(b, b.createdAt) : b \in beads})
Cycles(beads) == Durations({Span(b, b.startedAt) : b \in beads})

\* For the mutation runs: the weights of the two ranks swapped.
PercentileSwapped(sorted, pct) ==
    LET rank == pct * (Len(sorted) - 1)
        low == rank \div 100
        high == Min({low + 1, Len(sorted) - 1})
    IN 100 * sorted[high + 1] - (sorted[high + 1] - sorted[low + 1]) * (rank % 100)

\* _percentile(): between the closest ranks, of a list that is not empty.
Percentile(sorted, pct) ==
    LET rank == pct * (Len(sorted) - 1)
        low == rank \div 100
        high == Min({low + 1, Len(sorted) - 1})
    IN 100 * sorted[low + 1] + (sorted[high + 1] - sorted[low + 1]) * (rank % 100)

--------------------------------------------------------------------------------
(* status_timeline().                                                       *)

\* For the mutation runs: compared with the commit before, whatever it holds.
ChangedCommits(log) ==
    {i \in DOMAIN log :
        log[i].status # "none" /\ (i > 1 => log[i - 1].status # log[i].status)}

\* The commits whose status differs from the last one seen.
Changes(log) ==
    {i \in DOMAIN log :
        /\ log[i].status # "none"
        /\ LET seen == {j \in 1..i - 1 : log[j].status # "none"}
           IN seen # {} => log[Max(seen)].status # log[i].status}

\* The commits that change the status, in order: i is the k-th of them.
Until(log, i) == {j \in Changes(log) : j <= i}
Stops(log) ==
    [k \in 1..Cardinality(Changes(log)) |->
        log[CHOOSE i \in Changes(log) : Cardinality(Until(log, i)) = k]]

\* Hours in a status until the next one; open-ended in the last, unknown when
\* a date is missing or the dates run backwards.
Dwell(stops, k) ==
    IF k = Len(stops) THEN None
    ELSE LET start == stops[k].when  end == stops[k + 1].when
         IN IF start = None \/ end = None THEN None
            ELSE IF end < start THEN None ELSE end - start

--------------------------------------------------------------------------------
(* For what a derivation would be wrong.                                     *)

\* A bead is closed after it is created, and a closed bead says when.
InOrder(b) ==
    b.closed => b.closedAt # None
                /\ (b.createdAt # None => b.createdAt <= b.closedAt)

\* A request that finds the lists as they are.
Case == [beads: World, window: Window, now: Stamp]

EnoughIsFetched(c) ==
    LET fetched == Fetched(c.beads, Low(c.window, c.now))
    IN /\ ClosedIn(fetched, c.window, c.now) = ClosedIn(c.beads, c.window, c.now)
       /\ (\A b \in c.beads : InOrder(b)) =>
            CreatedIn(fetched, c.window, c.now) = CreatedIn(c.beads, c.window, c.now)

\* The windows for which some table, at some time, is not read far enough.
Misfetched == {c.window : c \in {d \in Case : ~EnoughIsFetched(d)}}

\* What a series adds up to.
Total(f) == MapThenSumSet(LAMBDA d : f[d], DOMAIN f)

ChartAgrees(c) ==
    LET closed == ClosedIn(c.beads, c.window, c.now)
        through == Throughput(c.beads, c.window, c.now)
        created == Created(c.beads, c.window, c.now)
        both == Combined(c.beads, c.window, c.now)
    IN /\ Total(through) = Cardinality(closed)
       /\ Total([d \in DOMAIN both |-> both[d].closed]) = Cardinality(closed)
       /\ Total(created) = Total([d \in DOMAIN both |-> both[d].created])
       /\ DOMAIN through \cup DOMAIN created \subseteq DOMAIN both
       /\ DOMAIN both # {} =>
            \A d \in {Min(DOMAIN both), Max(DOMAIN both)} :
                both[d].created + both[d].closed > 0

Disagreeing == {c.window : c \in {d \in Case : ~ChartAgrees(d)}}

Splits(took) ==
    LET n == Len(took)
        AtMost(x) == Cardinality({i \in 1..n : 100 * took[i] <= x})
        AtLeast(x) == Cardinality({i \in 1..n : 100 * took[i] >= x})
        median == Percentile(took, 50)
        p90 == Percentile(took, 90)
    IN /\ 2 * AtMost(median) >= n /\ 2 * AtLeast(median) >= n
       /\ 10 * AtMost(p90) >= 9 * n - 9 /\ 10 * AtLeast(p90) >= n
       /\ 100 * took[1] <= median /\ median <= p90 /\ p90 <= 100 * took[n]

StatsSplit(c) ==
    LET closed == ClosedIn(c.beads, c.window, c.now)
    IN \A took \in {Leads(closed), Cycles(closed)} \ {<<>>} : Splits(took)

Unsplit == {c.window : c \in {d \in Case : ~StatsSplit(d)}}

ReadsBack(log) ==
    LET stops == Stops(log)
        dated == \A k \in DOMAIN stops : stops[k].when # None
        forward == \A k \in 1..Len(stops) - 1 : stops[k].when <= stops[k + 1].when
    IN /\ \A i \in DOMAIN log : log[i].status # "none" =>
            stops[Cardinality(Until(log, i))].status = log[i].status
       /\ \A k \in 1..Len(stops) - 1 : stops[k].status # stops[k + 1].status
       /\ stops # <<>> /\ dated /\ forward =>
            Total([k \in 1..Len(stops) - 1 |-> Dwell(stops, k)])
                = stops[Len(stops)].when - stops[1].when

\* The last date of a log that is told wrong.
LastDate(log) == Max({0} \cup ({log[i].when : i \in DOMAIN log} \ {None}))
Misread == {LastDate(log) : log \in {l \in Log : ~ReadsBack(l)}}
================================================================================
