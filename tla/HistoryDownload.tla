--------------------------- MODULE HistoryDownload ---------------------------
(***************************************************************************)
(* getHistoryPrices downloads the quotes of a period page by page, newest  *)
(* first, and printPrices writes them to a file through one global stream. *)
(*                                                                         *)
(* A date is a number; Eps stands for 0.0001 day, the difference below     *)
(* which the code takes two dates for the same: 0 if the quotes are bars   *)
(* of a minute or more, a few units if they are ticks.  The answer of each *)
(* request is the one the rendezvous of ResponseListener delivers: a page, *)
(* no response, or none in time.                                           *)
(***************************************************************************)
EXTENDS Integers, Sequences, FiniteSets, SequencesExt

CONSTANTS
    MaxDate,         \* bound: dates are 0 .. MaxDate
    QueryDepth,      \* quotes in a page
    Eps,             \* 0.0001 day, in units of a date
    Files, NoFile,   \* file names; NoFile is the empty name: print on the screen
    MayRefuse,       \* may a file refuse to be opened?
    MayLackFactory   \* may the session have no response reader factory?

\* A full page spans more than Eps.
ASSUME HistoryAssumption ==
    /\ MaxDate \in Nat /\ Eps \in Nat
    /\ QueryDepth \in Nat /\ QueryDepth > Eps + 1
    /\ NoFile \notin Files
    /\ MayRefuse \in BOOLEAN /\ MayLackFactory \in BOOLEAN

Dates  == 0 .. MaxDate
Header == -1         \* the line of column names in a file

VARIABLES
    quotes,              \* external: dates of the server's quotes
    pc,                  \* "idle", "send": before the next request, or "wait"
    dtFrom, dtTo, file,  \* arguments of the last call
    dtFirst,             \* the bound of the next page
    recNum,              \* rows printed
    io,                  \* outFile (open file, failure bit), and all files
    result,              \* what the last call has returned
    kept,                \* history: the last call has got its file and header
    whole                \* history: nothing went wrong in the last call

args == <<dtFrom, dtTo, file>>
past == <<kept, whole>>
vars == <<quotes, pc, args, dtFirst, recNum, io, result, past>>

\* A type invariant.
TypeOK ==
    /\ quotes \subseteq Dates
    /\ pc \in {"idle", "send", "wait"}
    /\ dtFrom \in Dates /\ dtTo \in Dates /\ dtFirst \in Dates
    /\ file \in Files \cup {NoFile}
    /\ recNum \in 0 .. 2 * (MaxDate + 1)
    /\ io \in [open : Files \cup {NoFile}, fail : BOOLEAN,
              files : [Files -> Seq(Dates \cup {Header})]]
    /\ result \in BOOLEAN
    /\ kept \in BOOLEAN /\ whole \in BOOLEAN

Init ==
    /\ quotes \in SUBSET Dates
    /\ pc = "idle"
    /\ dtFrom = 0 /\ dtTo = 0 /\ dtFirst = 0
    /\ file = NoFile
    /\ recNum = 0
    /\ io = [open |-> NoFile, fail |-> FALSE, files |-> [f \in Files |-> <<>>]]
    /\ result = FALSE
    /\ kept = FALSE /\ whole = FALSE

-----------------------------------------------------------------------------
\* External: std::ofstream.  A stream that is open cannot be opened again; a
\* stream that has failed writes nothing until it is opened successfully.

Open(s, f) ==
    LET failed == [s EXCEPT !.fail = TRUE]
        opened == [open |-> f, fail |-> FALSE, files |-> [s.files EXCEPT ![f] = <<>>]]
    IN  IF s.open # NoFile THEN {failed}
        ELSE IF MayRefuse THEN {opened, failed} ELSE {opened}

Write(s, lines) ==
    IF s.fail \/ s.open = NoFile THEN s
    ELSE [s EXCEPT !.files[s.open] = @ \o lines]

Close(s) ==
    IF s.open = NoFile THEN [s EXCEPT !.fail = TRUE] ELSE [s EXCEPT !.open = NoFile]

\* External: the server's answer to a request for from .. to is a set of dates.
Page(from, to) ==
    LET period == {q \in quotes : from <= q /\ q <= to}
    IN  {q \in period : Cardinality({r \in period : r > q}) < QueryDepth}

Oldest(page) == CHOOSE q \in page : \A r \in page : q <= r

-----------------------------------------------------------------------------
\* printPrices: the rows of a page, from the newest to the oldest

\* Mutant: the rows are printed in the order of the page.
RowsOldestFirst(page) ==
    CHOOSE s \in [1 .. Cardinality(page) -> page] :
      \A i, j \in 1 .. Cardinality(page) : i < j => s[i] < s[j]

\* Mutant: the loop over the rows stops before row 0.
RowsButLast(page) == SetToSortSeq(page \ {Oldest(page)}, >)

Rows(page) ==
    CHOOSE s \in [1 .. Cardinality(page) -> page] :
      \A i, j \in 1 .. Cardinality(page) : i < j => s[i] > s[j]

\* The first page opens the file and writes the header.
PrintOpen == IF recNum = 0 /\ file # NoFile THEN Open(io, file) ELSE {io}

Printed(s, page) ==
    LET header == IF recNum = 0 THEN <<Header>> ELSE <<>>
        rows   == IF s.open = NoFile THEN <<>> ELSE Rows(page)
    IN  IF file = NoFile THEN s ELSE Write(s, header \o rows)

\* The end of getHistoryPrices
Return(s, printed) ==
    /\ pc' = "idle"
    /\ result' = TRUE
    /\ io' = IF printed > 0 THEN Close(s) ELSE s

\* Mutant: the operands of the condition are swapped.
LoopOnSwapped(s, first, printed) ==
    IF dtFrom - first > Eps
      THEN /\ pc' = "send"
           /\ io' = s
           /\ UNCHANGED result
      ELSE Return(s, printed)

\* The condition of the loop
LoopOn(s, first, printed) ==
    IF first - dtFrom > Eps
      THEN /\ pc' = "send"
           /\ io' = s
           /\ UNCHANGED result
      ELSE Return(s, printed)

-----------------------------------------------------------------------------
\* getHistoryPrices up to the loop

\* No request factory: recNum keeps its value.
NoRequestFactory ==
    /\ pc = "idle"
    /\ result' = FALSE
    /\ UNCHANGED <<quotes, pc, args, dtFirst, recNum, io, past>>

\* A period that is empty, or a timeframe that does not exist
Refuse ==
    /\ pc = "idle"
    /\ recNum' = 0
    /\ result' = FALSE
    /\ UNCHANGED <<quotes, pc, args, dtFirst, io, past>>

\* Mutant: the count is not reset.
StartCountsOn(from, to, f) ==
    /\ pc = "idle" /\ from < to
    /\ dtFrom' = from /\ dtTo' = to /\ file' = f
    /\ dtFirst' = to
    /\ pc' = "send"
    /\ kept' = FALSE /\ whole' = TRUE
    /\ UNCHANGED <<quotes, recNum, io, result>>

Start(from, to, f) ==
    /\ pc = "idle" /\ from < to
    /\ dtFrom' = from /\ dtTo' = to /\ file' = f
    /\ dtFirst' = to
    /\ recNum' = 0
    /\ pc' = "send"
    /\ kept' = FALSE /\ whole' = TRUE
    /\ UNCHANGED <<quotes, io, result>>

-----------------------------------------------------------------------------
\* One round of the loop

SendRequest ==
    /\ pc = "send"
    /\ pc' = "wait"
    /\ UNCHANGED <<quotes, args, dtFirst, recNum, io, result, past>>

\* waitEvents times out: the call returns, and leaves the stream as it is.
PageTimeout ==
    /\ pc = "wait"
    /\ pc' = "idle"
    /\ result' = FALSE
    /\ whole' = FALSE
    /\ UNCHANGED <<quotes, args, dtFirst, recNum, io, kept>>

\* The request has failed, or its response is not a snapshot.
PageFailed ==
    /\ pc = "wait"
    /\ Return(io, recNum)
    /\ whole' = FALSE
    /\ UNCHANGED <<quotes, args, dtFirst, recNum, kept>>

\* Neither the loop nor printPrices can read the response.
PageUnreadable ==
    /\ pc = "wait" /\ MayLackFactory
    /\ \E s \in PrintOpen : LoopOn(s, dtFirst, recNum)
    /\ whole' = FALSE
    /\ UNCHANGED <<quotes, args, dtFirst, recNum, kept>>

\* Mutant: a page that brings nothing new is asked for again.
PageEndRetries ==
    /\ pc = "wait"
    /\ LET page == Page(dtFrom, dtFirst)
       IN  page # {} => dtFirst - Oldest(page) <= Eps
    /\ LoopOn(io, dtFirst, recNum)
    /\ UNCHANGED <<quotes, args, dtFirst, recNum, past>>

\* No rows, or none that is older than the bound
PageEnd ==
    /\ pc = "wait"
    /\ LET page == Page(dtFrom, dtFirst)
       IN  page # {} => dtFirst - Oldest(page) <= Eps
    /\ Return(io, recNum)
    /\ UNCHANGED <<quotes, args, dtFirst, recNum, past>>

\* The bound is moved to the oldest row, the page is printed, and the loop goes
\* on while the bound is not at the beginning of the period.
PageRows ==
    /\ pc = "wait"
    /\ LET page   == Page(dtFrom, dtFirst)
           oldest == Oldest(page)
       IN  /\ page # {} /\ dtFirst - oldest > Eps
           /\ dtFirst' = oldest
           /\ recNum' = recNum + Cardinality(page)
           /\ \E s \in PrintOpen :
                /\ kept' = (file # NoFile /\ s.open = file /\ ~s.fail)
                /\ whole' = (whole /\ (file # NoFile => kept'))
                /\ LoopOn(Printed(s, page), oldest, recNum')
    /\ UNCHANGED <<quotes, args>>

-----------------------------------------------------------------------------
Loop == SendRequest \/ PageTimeout \/ PageFailed \/ PageUnreadable \/ PageEnd \/ PageRows

Next ==
    \/ NoRequestFactory \/ Refuse
    \/ \E from, to \in Dates, f \in Files \cup {NoFile} : Start(from, to, f)
    \/ Loop

SafetySpec == Init /\ [][Next]_vars

\* The MATLAB thread runs on; each round of the loop ends by an answer or by the
\* timeout.
Spec == SafetySpec /\ WF_vars(Loop)

-----------------------------------------------------------------------------
InPeriod == {q \in quotes : dtFrom <= q /\ q <= dtTo}
Stored   == IF file \in Files THEN ToSet(io.files[file]) \ {Header} ELSE {}
Done     == pc = "idle" /\ result /\ whole /\ file \in Files

\* Whatever fails, and whatever an earlier call has left behind, every file is a
\* header followed by rows from new to old: no second header, no page out of
\* order, no rows of another download.
FilesInOrder ==
    \A f \in Files : LET lines == io.files[f] IN
        /\ \A i \in DOMAIN lines : lines[i] = Header <=> i = 1
        /\ \A i \in 2 .. Len(lines) - 1 : lines[i] >= lines[i + 1]

\* The promise, read off the file that the last call has got
Promise == INSTANCE Download WITH
    Dates <- Dates, quotes <- quotes, from <- dtFrom, to <- dtTo, bound <- dtFirst,
    running <- (pc # "idle"), kept <- kept, stored <- IF kept THEN Stored ELSE {}

\* The file of a download holds, after each of its pages and however it ends, all
\* the quotes from the bound on and no others: a timeout, a failed request or a
\* response that cannot be read leaves the recent part of the period, with no gap,
\* and nothing an earlier call has left behind gets into it.
NewestFirst == Promise!Spec

\* A download in which nothing failed has stored its whole period, but for
\* quotes that are the same, up to Eps, as the beginning of the period or as the
\* last bound.
Complete ==
    Done => \A q \in InPeriod \ (IF recNum > 0 THEN Stored ELSE {}) :
              q - dtFrom <= Eps \/ dtFirst - q \in 0 .. Eps

\* Every download ends, whether the server answers or not, unless one response
\* after another cannot be read for ever.
DownloadEnds == (pc # "idle" ~> pc = "idle") \/ []<><<PageUnreadable>>_vars

\* FC_histData.m:14: "output file - output file will be in CSV format".  A
\* download that returns true and has printed rows has written them.
OutputFile ==
    pc = "idle" /\ result /\ recNum > 0 /\ file \in Files => io.files[file] # <<>>
=============================================================================
