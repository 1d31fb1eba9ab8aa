--------------------------- MODULE TradingReports ---------------------------
(***************************************************************************)
(* What the user is told of orders, trades and failures (cb_sendMsg with   *)
(* type 2), and the listings of positions and of waiting orders.           *)
(*                                                                         *)
(* An order call sets the request ID of the ResponseListener, sends its    *)
(* request and returns after a Sleep, without waiting: what becomes of the *)
(* order is told by the library's thread, which compares the request of    *)
(* each row with the ID, that of the last call.  A listing sets the ID     *)
(* too, and waits.  mRequestID is a std::string under no lock: while it is *)
(* assigned, the other thread may read the old ID, the new one, or neither.*)
(*                                                                         *)
(* Rows carry requests.  Assumed: the row that announces an order carries  *)
(* the request that placed it.  The row that announces its end may carry   *)
(* that one or any request this terminal has sent, such as that of the     *)
(* removal: nothing in the repository says which.                          *)
(*                                                                         *)
(* A call whose request cannot be created returns at once and changes      *)
(* nothing: it is a stutter here.                                          *)
(***************************************************************************)
EXTENDS Naturals, Sequences, SequencesExt

CONSTANTS
    Requests,        \* requests of order calls
    Orders,
    RequestOf(_),    \* the request that placed an order
    Elsewhere,       \* the request of orders of other terminals
    Listing,         \* the request of a listing
    Torn,            \* a mixture of two IDs, or no ID yet
    Files, NoFile,   \* NoFile: the blank name
    Rows, Header,    \* lines of a listing
    MaxRows          \* bound: rows in a table

ASSUME ReportsAssumption ==
    /\ {Elsewhere, Listing, Torn} \cap Requests = {}
    /\ Elsewhere \notin {Listing, Torn} /\ Listing # Torn
    /\ \A o \in Orders : RequestOf(o) \in Requests \cup {Elsewhere}
    /\ NoFile \notin Files /\ Header \notin Rows
    /\ MaxRows \in Nat

VARIABLES
    pc,              \* of the MATLAB thread
    call,            \* the request of the call it is in, or was in last
    mRequestID,
    sent,            \* requests of order calls sent to the server
    handled, told,   \* news the library delivered, news the user was told
    torn,            \* history: news compared with an ID being assigned
    file,            \* fileName of the listing under way
    saveToFile,
    table, done,     \* the table it was answered with, rows written of it
    screen,          \* lines it has sent to the screen
    files            \* lines in each file

news    == <<handled, told, torn>>
locals  == <<file, saveToFile, table, done, screen>>
listing == <<locals, files>>
vars    == <<pc, call, mRequestID, sent, news, listing>>

IDs == Requests \cup {Elsewhere}

\* News of an order, each with the request in it, and of the failure of one
Added(o)      == <<"added", RequestOf(o), o>>
Deleted(o, r) == <<"deleted", r, o>>
Trade(o)      == <<"trade", RequestOf(o), o>>
Failed(r)     == <<"failed", r>>

RequestIn(one) == one[2]

AllNews == {"added", "deleted", "trade"} \X IDs \X Orders \cup {"failed"} \X Requests

Lines == Seq(Rows \cup {Header})

\* A type invariant.
TypeOK ==
    /\ pc \in {"idle", "set", "send", "wait", "print"}
    /\ call \in Requests \cup {Listing, Torn} /\ (call = Torn => pc = "idle")
    /\ mRequestID \in Requests \cup {Listing, Torn}
    /\ sent \subseteq Requests
    /\ handled \subseteq AllNews /\ told \subseteq handled /\ torn \subseteq handled
    /\ file \in Files \cup {NoFile} /\ saveToFile \in BOOLEAN
    /\ table \in Seq(Rows) /\ done \in 0 .. Len(table)
    /\ files \in [Files -> Lines] /\ screen \in Lines

Init ==
    /\ pc = "idle" /\ call = Torn /\ mRequestID = Torn
    /\ sent = {}
    /\ handled = {} /\ told = {} /\ torn = {}
    /\ file = NoFile /\ saveToFile = FALSE
    /\ table = <<>> /\ done = 0
    /\ files = [f \in Files |-> <<>>] /\ screen = <<>>

-----------------------------------------------------------------------------
\* The MATLAB thread

\* An order call has created its request, with a fresh ID.
CreateRequest(r) ==
    /\ pc = "idle"
    /\ r \notin sent
    /\ pc' = "set" /\ call' = r
    /\ UNCHANGED <<mRequestID, sent, news, listing>>

\* printOpenPos or printWaitingOrders has created its request.
List(fileName) ==
    /\ pc = "idle"
    /\ pc' = "set" /\ call' = Listing
    /\ file' = fileName
    /\ UNCHANGED <<mRequestID, sent, news, saveToFile, table, done, files, screen>>

\* Mutant: a call that does not wait leaves the ID alone.
SetRequestIDOfListing ==
    /\ pc = "set"
    /\ mRequestID' = IF call = Listing THEN call ELSE mRequestID
    /\ pc' = "send"
    /\ UNCHANGED <<call, sent, news, listing>>

\* The assignment in setRequestID ends.
SetRequestID ==
    /\ pc = "set"
    /\ mRequestID' = call
    /\ pc' = "send"
    /\ UNCHANGED <<call, sent, news, listing>>

\* sendRequest; after it an order call returns and a listing waits.
SendRequest ==
    /\ pc = "send"
    /\ IF call = Listing
         THEN pc' = "wait" /\ UNCHANGED sent
         ELSE pc' = "idle" /\ sent' = sent \cup {call}
    /\ UNCHANGED <<call, mRequestID, news, listing>>

\* The listing returns: its local variables are gone.
ListReturns ==
    /\ pc' = "idle"
    /\ file' = NoFile /\ saveToFile' = FALSE
    /\ table' = <<>> /\ done' = 0 /\ screen' = <<>>
    /\ UNCHANGED <<call, mRequestID, sent, news>>

\* No answer in time
ListExpires ==
    /\ pc = "wait"
    /\ ListReturns
    /\ UNCHANGED files

\* The file may be opened, and is truncated then, or be refused.
Opens == IF file = NoFile THEN {FALSE} ELSE BOOLEAN

FilesWith(opens, lines) == IF opens THEN [files EXCEPT ![file] = lines] ELSE files

\* The listing was refused by the server: the file has been opened already.
ListUnanswered ==
    /\ pc = "wait"
    /\ \E opens \in Opens : files' = FilesWith(opens, <<>>)
    /\ ListReturns

\* Mutant: is_open is not asked, rows of a refused file are lost.
ListAnsweredUnasked(rows) ==
    /\ pc = "wait"
    /\ table' = rows /\ done' = 0
    /\ saveToFile' = (file # NoFile)
    /\ \E opens \in Opens : files' = FilesWith(opens, <<Header>>)
    /\ screen' = IF file = NoFile THEN <<Header>> ELSE <<>>
    /\ pc' = "print"
    /\ UNCHANGED <<call, mRequestID, sent, news, file>>

\* The header goes to the file named, the rows to the file that is open.
ListAnswered(rows) ==
    /\ pc = "wait"
    /\ table' = rows /\ done' = 0
    /\ \E opens \in Opens : /\ saveToFile' = opens
                            /\ files' = FilesWith(opens, <<Header>>)
    /\ screen' = IF file = NoFile THEN <<Header>> ELSE <<>>
    /\ pc' = "print"
    /\ UNCHANGED <<call, mRequestID, sent, news, file>>

\* Mutant: the counter is advanced in the loop's body too.
PrintRowSkips ==
    /\ pc = "print" /\ done < Len(table)
    /\ done' = done + 2
    /\ UNCHANGED <<pc, call, mRequestID, sent, news, file, saveToFile, table,
                   files, screen>>

PrintRow ==
    /\ pc = "print" /\ done < Len(table)
    /\ done' = done + 1
    /\ IF saveToFile
         THEN /\ files' = [files EXCEPT ![file] = Append(@, table[done + 1])]
              /\ UNCHANGED screen
         ELSE screen' = Append(screen, table[done + 1]) /\ UNCHANGED files
    /\ UNCHANGED <<pc, call, mRequestID, sent, news, file, saveToFile, table>>

ListEnds ==
    /\ pc = "print" /\ done = Len(table)
    /\ ListReturns
    /\ UNCHANGED files

-----------------------------------------------------------------------------
\* The library's thread

ReadableIDs == IF pc = "set" THEN {mRequestID, call, Torn} ELSE {mRequestID}

\* Some news is handled: it is told always, or if its request is the one read.
Handle(one, always) ==
    /\ one \notin handled
    /\ handled' = handled \cup {one}
    /\ \E id \in ReadableIDs :
         told' = IF always \/ id = RequestIn(one) THEN told \cup {one} ELSE told
    /\ torn' = IF pc = "set" THEN torn \cup {one} ELSE torn
    /\ UNCHANGED <<pc, call, mRequestID, sent, listing>>

\* A request that the server has and has not refused
Accepted(r) == r \in sent \cup {Elsewhere} /\ Failed(r) \notin handled

RowAdded(o) == Accepted(RequestOf(o)) /\ Handle(Added(o), FALSE)

\* The order is there: its row has come and has not gone.
Listed(o) == /\ Added(o) \in handled
             /\ \A r \in IDs : Deleted(o, r) \notin handled

\* Mutant: the request is compared for added rows only.
RowDeletedOfAny(o) ==
    /\ Listed(o)
    /\ \E r \in {RequestOf(o)} \cup sent : Accepted(r) /\ Handle(Deleted(o, r), TRUE)

\* The last row of the order has its first request, or that of any later call.
RowDeleted(o) ==
    /\ Listed(o)
    /\ \E r \in {RequestOf(o)} \cup sent : Accepted(r) /\ Handle(Deleted(o, r), FALSE)

\* The order opened a trade or closed one.
TradeAdded(o) == Accepted(RequestOf(o)) /\ Handle(Trade(o), TRUE)

OnRequestFailed(r) ==
    /\ r \in sent
    /\ \A one \in handled : RequestIn(one) # r
    /\ Handle(Failed(r), FALSE)

-----------------------------------------------------------------------------
Tables == SeqOf(Rows, MaxRows)

Next ==
    \/ \E r \in Requests : CreateRequest(r) \/ OnRequestFailed(r)
    \/ \E f \in Files \cup {NoFile} : List(f)
    \/ SetRequestID \/ SendRequest
    \/ ListExpires \/ ListUnanswered
    \/ \E rows \in Tables : ListAnswered(rows)
    \/ PrintRow \/ ListEnds
    \/ \E o \in Orders : RowAdded(o) \/ RowDeleted(o) \/ TradeAdded(o)

Spec == Init /\ [][Next]_vars

-----------------------------------------------------------------------------
\* An order call does not wait to see what becomes of its order.  Yet until the
\* next call, however long the answer takes, everything delivered with its
\* request is told: its failure, its row's coming, the going of the row it placed
\* or of one it removed that carries its request; and trades are always told.
OutcomeTold ==
    [][\A one \in handled' \ handled :
          one[1] = "trade" \/ RequestIn(one) = call => one \in told']_vars

\* A user who is told that an order has gone was told that it had come, unless
\* its row came while a call was assigning another ID, or its last row carries
\* the request of another call of this terminal.  So an order whose coming was
\* missed, because later calls had moved the ID on, is not taken up again when
\* it goes; and of another terminal's order, nothing is told of a row that no
\* call of this one had a part in.
DeletionAfterAddition ==
    \A o \in Orders, r \in IDs : Deleted(o, r) \in told =>
        \/ Added(o) \in told \cup torn
        \/ r \in sent \ {RequestOf(o)}

\* A listing that was answered delivers the rows of the table, in its order and
\* nowhere twice, below the header: in the file named; on the screen if the
\* name is blank; and on the screen, without the header, if the file is refused.
ListingDelivered ==
    pc = "print" /\ done = Len(table) =>
        LET all == <<Header>> \o table
        IN  IF file = NoFile THEN screen = all
            ELSE (files[file] = all /\ screen = <<>>) \/ screen = table
=============================================================================
