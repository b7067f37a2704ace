--------------------------- MODULE MCScheduledRuns ---------------------------
EXTENDS ScheduledRuns

=============================================================================
