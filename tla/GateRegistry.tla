--------------------------- MODULE GateRegistry ---------------------------
(***************************************************************************)
(* The results of the quality gates, as the live program reads them.      *)
(* Entries are a function from <<symbol, strategy>> to whether the gate    *)
(* was passed.  A file is a record: whether it can be read, whether its   *)
(* rows are as expected, its timeframe, its age in hours and its entries. *)
(***************************************************************************)
EXTENDS Integers, Sequences, SequencesExt

CONSTANTS
    SignalTimeframe,
    MaxAgeHours,        \* gate_cache_max_age_hours
    BuildOnMiss         \* gate_build_on_miss

ASSUME GateAssumption == MaxAgeHours \in Nat /\ BuildOnMiss \in BOOLEAN

\* BACKTEST_STRATEGY_NAMES
Rated == {"trend_following", "mean_reversion", "feature_score"}
NoEntries == <<>>

\* from_validation_report; validate_symbol rates every strategy
EntriesOf(report) ==
    [k \in {<<report.symbol, strategy>> : strategy \in Rated} |-> k[2] \in report.passed]

\* merge_reports: a later report of a symbol replaces an earlier one
MergeReports(reports) ==
    FoldLeft(LAMBDA entries, report : EntriesOf(report) @@ entries, NoEntries, reports)

\* build_gate_registry: a symbol with too few bars is skipped and has no entry
Build(symbols, passed, short) ==
    LET Enough(s)  == s \notin short
        rated      == SelectSeq(symbols, Enough)
    IN  MergeReports([i \in 1..Len(rated) |-> [symbol |-> rated[i], passed |-> passed[rated[i]]]])

\* load: nothing from a file that cannot be read or is for another timeframe
OfTimeframe(file)  == file.readable /\ file.timeframe = SignalTimeframe
LoadRegistry(file) == IF OfTimeframe(file) THEN file.entries ELSE NoEntries
IsFresh(file)      == file.age < MaxAgeHours

\* load_or_build_gate_registry.  Rows that lack a field raise, and the caller
\* goes on without a registry
LoadOrBuild(file, built) ==
    IF OfTimeframe(file) /\ ~file.wellFormed THEN NoEntries
    ELSE IF IsFresh(file) /\ LoadRegistry(file) # NoEntries THEN LoadRegistry(file)
    ELSE IF BuildOnMiss THEN built ELSE NoEntries

\* what allows() refuses: entries that failed, and nothing that is not listed
Refused(entries) == {k \in DOMAIN entries : ~entries[k]}
=============================================================================
