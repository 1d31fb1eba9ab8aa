-------------------------- MODULE MCHistoryDownload --------------------------
\* HistoryDownload with every set of quotes in a short span of dates.
EXTENDS HistoryDownload
=============================================================================
