----------------------------- MODULE DashboardLib ------------------------------
(***************************************************************************)
(* The pure helpers under the dashboard's reports (lib/report.ts,          *)
(* lib/suggestions.ts) next to what the API does with the same data:       *)
(* ranges and bucket sizes, the order and the cap of the suggestions.      *)
(* Each is checked on every sample of a bounded set of inputs.             *)
(***************************************************************************)
EXTENDS Browser, Functions

CONSTANTS
    Ranks,          \* the severities, as their rank: the most severe is 0
    Confidences,    \* the confidences
    Subjects,       \* category and first piece of evidence of a suggestion
    MaxSuggestions, \* MAX_SUGGESTIONS (12 in the code)
    MaxList         \* bound: the length of a list of suggestions

ASSUME LibAssumption ==
    /\ Ranks \subseteq Nat
    /\ Confidences \subseteq Nat
    /\ MaxSuggestions \in Nat
    /\ MaxList \in Nat

VARIABLE sample     \* the input under examination

-----------------------------------------------------------------------------
(* Ranges, as a span in hours. *)

Day == 24

\* Mutant: one more day in daily buckets.
granularityOneMore(span) == IF span <= 93 * Day THEN "day" ELSE "week"

\* granularityForSpan: days are fractions.
granularityForSpan(span) == IF span <= 92 * Day THEN "day" ELSE "week"

\* tokenUsageGranularityForSpan.
tokenUsageGranularityForSpan(span) ==
    IF span <= 2 * Day THEN "hour" ELSE granularityForSpan(span)

\* validateCustomRange, of two dates that are valid.
validateCustomRange(span) == 0 < span /\ span <= 366 * Day

\* The API counts whole days: timedelta.days.
Days(span) == span \div Day

validate_range(span) == 0 < span /\ Days(span) <= 366

resolve_granularity(span, requested) ==
    CASE requested = "day" /\ Days(span) > 92 -> "week"
      [] requested = "week" \/ (requested = "day" /\ Days(span) <= 92) -> requested
      [] OTHER -> IF Days(span) <= 92 THEN "day" ELSE "week"

\* agent_token_usage: an hourly series of more than a week is not granted.
usage_granularity(span, requested) ==
    IF requested = "hour" /\ Days(span) > 7 THEN resolve_granularity(span, None) ELSE requested

-----------------------------------------------------------------------------
(* Suggestions, as records of rank, confidence and what they are about. *)

Before(s, t) ==
    \/ s.rank < t.rank
    \/ s.rank = t.rank /\ s.confidence > t.confidence

\* Of several on one subject the first most confident.
Best(list, subject) ==
    CHOOSE i \in DOMAIN list :
       /\ list[i].about = subject
       /\ \A j \in DOMAIN list : list[j].about = subject =>
             \/ list[i].confidence > list[j].confidence
             \/ list[i].confidence = list[j].confidence /\ i <= j

\* The dictionary of validate_suggestions: a subject keeps the place of its first.
BestOnSubject(list) ==
    LET firsts == {i \in DOMAIN list : \A j \in 1 .. i - 1 : list[j].about # list[i].about}
        order == Ranked(firsts, [i \in firsts |-> {j \in firsts : j < i}])
    IN  [place \in 1 .. Cardinality(firsts) |-> list[Best(list, list[order[place]].about)]]

\* sorted() of Python and sort() of JavaScript leave equals in the order they had.
Precedes(list, i, j) ==
    \/ Before(list[i], list[j])
    \/ ~Before(list[j], list[i]) /\ i < j

Sorted(list) ==
    LET ahead == [i \in DOMAIN list |-> {j \in DOMAIN list : Precedes(list, j, i)}]
        order == Ranked(DOMAIN list, ahead)
    IN  [place \in 1 .. Len(list) |-> list[order[place]]]

Capped(list) == SubSeq(list, 1, IF Len(list) < MaxSuggestions THEN Len(list) ELSE MaxSuggestions)

\* Mutant: the list is cut to the bound before it is sorted.
CapFirst(list) == Sorted(Capped(BestOnSubject(list)))

validate_suggestions(list) == Capped(Sorted(BestOnSubject(list)))

\* sortSuggestions of the dashboard: the same order once more.
sortSuggestions(list) == Sorted(list)

-----------------------------------------------------------------------------
(* The samples. *)

Spans == {h \in 0 .. 367 * Day + 1 : h % Day \in {0, 1, Day - 1}}

Suggestions == [rank : Ranks, confidence : Confidences, about : Subjects]

Samples ==
    [kind : {"span"}, span : Spans]
       \cup [kind : {"suggestions"}, list : UNION {[1 .. n -> Suggestions] : n \in 0 .. MaxList}]

LibInit == sample = None

Examine ==
    /\ sample = None
    /\ sample' \in Samples
    /\ Quiet

-----------------------------------------------------------------------------
(* Properties. *)

Sampled(kind) == sample # None /\ sample.kind = kind

\* A custom range that the page accepts is accepted by the API, and the series
\* comes in the buckets that the page asked for and labels its chart with
\* (lib/report.ts:64-75,147-155 beside core/services/reports.py:115-137).
RangesAgree ==
    Sampled("span") /\ validateCustomRange(sample.span) =>
       LET day == granularityForSpan(sample.span)
           hour == tokenUsageGranularityForSpan(sample.span)
       IN  /\ validate_range(sample.span)
           /\ resolve_granularity(sample.span, day) = day
           /\ usage_granularity(sample.span, hour) = hour

\* The page shows the suggestions in the order of the API, one for a subject and
\* the most confident on it, and the cap leaves none of these out for one that
\* matters less (lib/suggestions.ts:53-57, core/services/suggestions/validation.py:79-100).
MostSevereShown ==
    Sampled("suggestions") =>
       LET list == sample.list
           api == validate_suggestions(list)
           shown == sortSuggestions(api)
       IN  /\ shown = api
           /\ \A i, j \in 1 .. Len(shown) : i < j =>
                 shown[i].about # shown[j].about /\ ~Before(shown[j], shown[i])
           /\ \A i \in 1 .. Len(shown) :
                 /\ shown[i] \in Range(list)
                 /\ \A s \in Range(list) :
                       s.about = shown[i].about => s.confidence <= shown[i].confidence
           /\ \A s \in Range(BestOnSubject(list)) :
                 s \in Range(shown) \/ \A i \in 1 .. Len(shown) : ~Before(s, shown[i])
=============================================================================
