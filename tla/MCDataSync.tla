----------------------------- MODULE MCDataSync -----------------------------
EXTENDS DataSync

CONSTANTS a, b

MCSeriesSeq == <<a, b>>
MCStoredAtStart == {-1, 0}
=============================================================================
