----------------------------- MODULE MCBatchScan -----------------------------
EXTENDS BatchScan

\* Matches at both edges of a batch and in the last, shorter batch.
MCMatches == {0, 2, 3, 6}
=============================================================================
