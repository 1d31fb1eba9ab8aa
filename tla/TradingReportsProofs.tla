------------------------ MODULE TradingReportsProofs ------------------------
(***************************************************************************)
(* TradingReports for any requests, orders, files and tables.              *)
(*                                                                         *)
(* Why what is told is right: between two calls the ID is that of the last *)
(* one, and an order call is over once its request has been sent (IDInv);  *)
(* no news comes with a request of this terminal that was not sent         *)
(* (HandledInv).  An order whose coming was not told had the request that  *)
(* placed it superseded then, and no later call has the same request       *)
(* (SupersededInv): only a row with the request of another call can bring  *)
(* news of it.                                                             *)
(***************************************************************************)
EXTENDS TradingReports, SequenceTheorems, TLAPS

IDInv == /\ pc # "set" => mRequestID = call
         /\ call \in sent => pc = "idle"
         /\ pc \in {"wait", "print"} => call = Listing

HandledInv == \A one \in handled : RequestIn(one) \in sent \cup {Elsewhere}

SupersededInv == \A o \in Orders :
    Added(o) \in handled \ (told \cup torn) => RequestOf(o) \notin {mRequestID, call}

\* What the theorems share.
ReportsInv == TypeOK /\ IDInv /\ HandledInv

-----------------------------------------------------------------------------
\* One more row written below those written before.
LEMMA OneMoreRow ==
    ASSUME NEW S, NEW t \in Seq(S), NEW n \in 0 .. Len(t), n < Len(t)
    PROVE  /\ n + 1 \in 1 .. Len(t) /\ t[n + 1] \in S
           /\ SubSeq(t, 1, n) \in Seq(S)
           /\ Append(SubSeq(t, 1, n), t[n + 1]) = SubSeq(t, 1, n + 1)
<1>1. n + 1 \in 1 .. Len(t) /\ t[n + 1] \in S
  BY ElementOfSeq
<1>2. /\ SubSeq(t, 1, n) \in Seq(S) /\ Len(SubSeq(t, 1, n)) = n
      /\ \A i \in 1 .. n : SubSeq(t, 1, n)[i] = t[i]
  BY SubSeqProperties
<1>3. /\ SubSeq(t, 1, n + 1) \in Seq(S) /\ Len(SubSeq(t, 1, n + 1)) = n + 1
      /\ \A i \in 1 .. n + 1 : SubSeq(t, 1, n + 1)[i] = t[i]
  BY SubSeqProperties
<1>4. Append(SubSeq(t, 1, n), t[n + 1]) = SubSeq(t, 1, n + 1)
  <2> DEFINE a == Append(SubSeq(t, 1, n), t[n + 1])
  <2>1. /\ a \in Seq(S) /\ Len(a) = n + 1
        /\ \A i \in 1 .. n : a[i] = t[i]
        /\ a[n + 1] = t[n + 1]
    BY <1>1, <1>2, AppendProperties
  <2>2. \A i \in 1 .. n + 1 : a[i] = SubSeq(t, 1, n + 1)[i]
    BY <2>1, <1>3
  <2> QED BY <2>1, <2>2, <1>3, SeqEqual
<1> QED BY <1>1, <1>2, <1>4

-----------------------------------------------------------------------------
\* What each piece of news is.
LEMMA NewsFields ==
    ASSUME NEW o \in Orders
    PROVE  /\ Added(o) \in AllNews /\ Added(o)[1] = "added"
           /\ RequestIn(Added(o)) = RequestOf(o)
           /\ Trade(o) \in AllNews /\ Trade(o)[1] = "trade"
           /\ RequestIn(Trade(o)) = RequestOf(o)
           /\ \A r \in IDs : /\ Deleted(o, r) \in AllNews
                             /\ Deleted(o, r)[1] = "deleted"
                             /\ Deleted(o, r)[2] = r /\ Deleted(o, r)[3] = o
                             /\ RequestIn(Deleted(o, r)) = r
           /\ Added(o)[3] = o
<1>1. RequestOf(o) \in IDs
  BY ReportsAssumption DEF IDs
<1> QED BY <1>1 DEF AllNews, Added, Trade, Deleted, RequestIn

LEMMA FailureFields ==
    ASSUME NEW r \in Requests
    PROVE  /\ Failed(r) \in AllNews /\ Failed(r)[1] = "failed"
           /\ RequestIn(Failed(r)) = r
BY DEF AllNews, Failed, RequestIn

\* A step that handles news handles one, of an accepted request.
NewsStep(one, always) ==
    /\ one \in AllNews
    /\ RequestIn(one) \in sent \cup {Elsewhere}
    /\ Handle(one, always)

LEMMA NewsSteps ==
    ASSUME TypeOK
    PROVE  /\ \A o \in Orders : RowAdded(o) => NewsStep(Added(o), FALSE)
           /\ \A o \in Orders : TradeAdded(o) => NewsStep(Trade(o), TRUE)
           /\ \A o \in Orders : RowDeleted(o) =>
                \E r \in IDs : /\ r \in {RequestOf(o)} \cup sent
                              /\ Listed(o) /\ NewsStep(Deleted(o, r), FALSE)
           /\ \A r \in Requests : OnRequestFailed(r) => NewsStep(Failed(r), FALSE)
<1>1. ASSUME NEW o \in Orders, RowAdded(o) PROVE NewsStep(Added(o), FALSE)
  BY <1>1, NewsFields DEF RowAdded, Accepted, NewsStep
<1>2. ASSUME NEW o \in Orders, TradeAdded(o) PROVE NewsStep(Trade(o), TRUE)
  BY <1>2, NewsFields DEF TradeAdded, Accepted, NewsStep
<1>3. ASSUME NEW o \in Orders, RowDeleted(o)
      PROVE  \E r \in IDs : /\ r \in {RequestOf(o)} \cup sent
                            /\ Listed(o) /\ NewsStep(Deleted(o, r), FALSE)
  <2>1. PICK r \in {RequestOf(o)} \cup sent :
          Accepted(r) /\ Handle(Deleted(o, r), FALSE)
    BY <1>3 DEF RowDeleted
  <2>2. r \in IDs
    BY <2>1 DEF Accepted, IDs, TypeOK
  <2>3. Deleted(o, r) \in AllNews /\ RequestIn(Deleted(o, r)) = r
    BY <2>2, NewsFields
  <2> QED BY <1>3, <2>1, <2>2, <2>3 DEF RowDeleted, Accepted, NewsStep
<1>4. ASSUME NEW r \in Requests, OnRequestFailed(r) PROVE NewsStep(Failed(r), FALSE)
  BY <1>4, FailureFields DEF OnRequestFailed, NewsStep
<1> QED BY <1>1, <1>2, <1>3, <1>4

-----------------------------------------------------------------------------
LEMMA TypingStep == ASSUME TypeOK, [Next]_vars PROVE TypeOK'
<1> USE ReportsAssumption
<1>1. ASSUME NEW r \in Requests, CreateRequest(r) PROVE TypeOK'
  BY <1>1 DEF TypeOK, CreateRequest, news, listing, locals
<1>2. ASSUME NEW f \in Files \cup {NoFile}, List(f) PROVE TypeOK'
  BY <1>2 DEF TypeOK, List, news
<1>3. CASE SetRequestID
  BY <1>3 DEF TypeOK, SetRequestID, news, listing, locals
<1>4. CASE SendRequest
  BY <1>4 DEF TypeOK, SendRequest, news, listing, locals
<1>5. ASSUME ListReturns, files' \in [Files -> Lines] PROVE TypeOK'
  <2>1. <<>> \in Lines /\ <<>> \in Seq(Rows) /\ 0 \in 0 .. Len(<<>>)
    BY DEF Lines
  <2> QED BY <1>5, <2>1 DEF TypeOK, ListReturns, news
<1>6. CASE ListExpires
  BY <1>6, <1>5 DEF TypeOK, ListExpires
<1>7. ASSUME NEW opens, NEW lines \in Lines, TypeOK
      PROVE  FilesWith(opens, lines) \in [Files -> Lines]
  BY <1>7 DEF FilesWith, TypeOK
<1>8. CASE ListUnanswered
  <2>1. <<>> \in Lines  BY DEF Lines
  <2> QED BY <1>8, <1>5, <1>7, <2>1 DEF ListUnanswered
<1>9. ASSUME NEW rows \in Tables, rows \in Seq(Rows), ListAnswered(rows) PROVE TypeOK'
  <2>1. <<Header>> \in Lines /\ <<>> \in Lines  BY DEF Lines
  <2>2. files' \in [Files -> Lines]  BY <1>9, <1>7, <2>1 DEF ListAnswered
  <2>3. saveToFile' \in BOOLEAN  BY <1>9 DEF ListAnswered, Opens
  <2> QED BY <1>9, <2>1, <2>2, <2>3 DEF TypeOK, ListAnswered, news
<1>10. CASE PrintRow
  <2>1. done + 1 \in 1 .. Len(table) /\ table[done + 1] \in Rows \cup {Header}
    BY <1>10, ElementOfSeq DEF TypeOK, PrintRow
  <2>2. \A lines \in Lines : Append(lines, table[done + 1]) \in Lines
    BY <2>1 DEF Lines
  <2>3. screen' \in Lines  BY <1>10, <2>2 DEF TypeOK, PrintRow
  <2>4. ASSUME saveToFile PROVE files' \in [Files -> Lines]
    <3>1. files' = [files EXCEPT ![file] = Append(files[file], table[done + 1])]
      BY <1>10, <2>4 DEF PrintRow
    <3>2. \A f \in Files : Append(files[f], table[done + 1]) \in Lines
      BY <2>2 DEF TypeOK
    <3> QED BY <3>1, <3>2 DEF TypeOK
  <2>5. files' \in [Files -> Lines]  BY <1>10, <2>4 DEF TypeOK, PrintRow
  <2> QED BY <1>10, <2>1, <2>3, <2>5 DEF TypeOK, PrintRow, news
<1>11. CASE ListEnds
  BY <1>11, <1>5 DEF TypeOK, ListEnds
<1>12. ASSUME NEW one, NEW always, NewsStep(one, always) PROVE TypeOK'
  BY <1>12 DEF TypeOK, NewsStep, Handle, listing, locals
<1>13. ASSUME NEW o \in Orders, RowAdded(o) \/ RowDeleted(o) \/ TradeAdded(o)
       PROVE  TypeOK'
  BY <1>13, <1>12, NewsSteps
<1>14. ASSUME NEW r \in Requests, OnRequestFailed(r) PROVE TypeOK'
  BY <1>14, <1>12, NewsSteps
<1>15. CASE UNCHANGED vars
  BY <1>15 DEF TypeOK, vars, news, listing, locals
<1>16. \A rows \in Tables : rows \in Seq(Rows)
  BY DEF Tables, SeqOf
<1> QED BY <1>1, <1>2, <1>3, <1>4, <1>6, <1>8, <1>9, <1>10, <1>11, <1>13, <1>14,
           <1>15, <1>16 DEF Next

LEMMA Typing == Spec => []TypeOK
<1>1. Init => TypeOK
  <2>1. <<>> \in Lines /\ <<>> \in Seq(Rows) /\ 0 \in 0 .. Len(<<>>)
    BY DEF Lines
  <2> QED BY <2>1 DEF Init, TypeOK
<1> QED BY <1>1, TypingStep, PTL DEF Spec

\* The ID, the call and the requests sent.
LEMMA IDStep == ASSUME TypeOK, IDInv, [Next]_vars PROVE IDInv'
<1> USE ReportsAssumption DEF TypeOK, IDInv
<1>1. ASSUME NEW r \in Requests, CreateRequest(r) PROVE IDInv'
  BY <1>1 DEF CreateRequest
<1>2. ASSUME NEW f \in Files \cup {NoFile}, List(f) PROVE IDInv'
  BY <1>2 DEF List
<1>3. CASE SetRequestID
  BY <1>3 DEF SetRequestID
<1>4. CASE SendRequest
  BY <1>4 DEF SendRequest
<1>5. CASE ListExpires \/ ListUnanswered \/ ListEnds
  BY <1>5 DEF ListExpires, ListUnanswered, ListEnds, ListReturns
<1>6. ASSUME NEW rows \in Tables, ListAnswered(rows) PROVE IDInv'
  BY <1>6 DEF ListAnswered
<1>7. CASE PrintRow
  BY <1>7 DEF PrintRow
<1>8. ASSUME NEW one, NEW always, NewsStep(one, always) PROVE IDInv'
  BY <1>8 DEF NewsStep, Handle
<1>9. ASSUME NEW o \in Orders, RowAdded(o) \/ RowDeleted(o) \/ TradeAdded(o)
      PROVE  IDInv'
  BY <1>9, <1>8, NewsSteps
<1>10. ASSUME NEW r \in Requests, OnRequestFailed(r) PROVE IDInv'
  BY <1>10, <1>8, NewsSteps
<1>11. CASE UNCHANGED vars
  BY <1>11 DEF vars
<1> QED BY <1>1, <1>2, <1>3, <1>4, <1>5, <1>6, <1>7, <1>9, <1>10, <1>11 DEF Next

\* A step of the MATLAB thread leaves the news alone, and may send a request.
LEMMA MatlabSteps ==
    ASSUME [Next]_vars
    PROVE  \/ UNCHANGED news /\ sent \subseteq sent'
           \/ \E o \in Orders : RowAdded(o) \/ RowDeleted(o) \/ TradeAdded(o)
           \/ \E r \in Requests : OnRequestFailed(r)
BY DEF Next, CreateRequest, List, SetRequestID, SendRequest, ListExpires,
       ListUnanswered, ListReturns, ListAnswered, PrintRow, ListEnds, vars

LEMMA HandledStep == ASSUME TypeOK, HandledInv, [Next]_vars PROVE HandledInv'
<1>1. CASE UNCHANGED news /\ sent \subseteq sent'
  BY <1>1 DEF HandledInv, news
<1>2. ASSUME NEW one, NEW always, NewsStep(one, always) PROVE HandledInv'
  BY <1>2 DEF HandledInv, NewsStep, Handle
<1>3. ASSUME NEW o \in Orders, RowAdded(o) \/ RowDeleted(o) \/ TradeAdded(o)
      PROVE  HandledInv'
  BY <1>3, <1>2, NewsSteps
<1>4. ASSUME NEW r \in Requests, OnRequestFailed(r) PROVE HandledInv'
  BY <1>4, <1>2, NewsSteps
<1> QED BY <1>1, <1>3, <1>4, MatlabSteps

\* Every reachable state satisfies the invariant.
THEOREM ReportsInvariant == Spec => []ReportsInv
<1>1. Init => IDInv /\ HandledInv
  BY ReportsAssumption DEF Init, IDInv, HandledInv
<1>2. TypeOK /\ IDInv /\ HandledInv /\ [Next]_vars => IDInv' /\ HandledInv'
  BY IDStep, HandledStep
<1> QED BY <1>1, <1>2, Typing, PTL DEF Spec, ReportsInv

\* Types (TypeOK), for every value of the constants.
THEOREM ReportsTypeOK == Spec => []TypeOK
BY Typing

-----------------------------------------------------------------------------
\* Until the next call, what is delivered about the last one is told.
THEOREM EveryOutcomeTold == Spec => OutcomeTold
<1> DEFINE Told == \A one \in handled' \ handled :
             one[1] = "trade" \/ RequestIn(one) = call => one \in told'
<1>1. ASSUME ReportsInv, [Next]_vars PROVE Told
  <2> USE <1>1 DEF ReportsInv
  \* A request that was sent and is that of the last call is the ID read.
  <2>1. ASSUME NEW r \in sent \cup {Elsewhere}, r = call PROVE ReadableIDs = {r}
    BY <2>1, ReportsAssumption DEF TypeOK, IDInv, ReadableIDs
  <2>2. ASSUME NEW one, NEW always \in BOOLEAN, NewsStep(one, always),
               one[1] = "trade" => always
        PROVE  Told
    <3>1. handled' = handled \cup {one}
      BY <2>2 DEF NewsStep, Handle
    <3>2. always \/ RequestIn(one) = call => one \in told'
      BY <2>2, <2>1 DEF NewsStep, Handle
    <3> QED BY <2>2, <3>1, <3>2
  <2>3. CASE UNCHANGED news
    BY <2>3 DEF news
  <2>4. ASSUME NEW o \in Orders, RowAdded(o) PROVE Told
    BY <2>4, <2>2, NewsSteps, NewsFields
  <2>5. ASSUME NEW o \in Orders, RowDeleted(o) PROVE Told
    <3>1. PICK r \in IDs : NewsStep(Deleted(o, r), FALSE)
      BY <2>5, NewsSteps
    <3>2. Deleted(o, r)[1] # "trade"
      BY NewsFields
    <3> QED BY <3>1, <3>2, <2>2
  <2>6. ASSUME NEW o \in Orders, TradeAdded(o) PROVE Told
    BY <2>6, <2>2, NewsSteps
  <2>7. ASSUME NEW r \in Requests, OnRequestFailed(r) PROVE Told
    BY <2>7, <2>2, NewsSteps, FailureFields
  <2> QED BY <2>3, <2>4, <2>5, <2>6, <2>7, MatlabSteps
<1> QED BY <1>1, ReportsInvariant, PTL DEF Spec, OutcomeTold

-----------------------------------------------------------------------------
\* The calls that follow have other requests.
LEMMA SupersededStep ==
    ASSUME ReportsInv, SupersededInv, [Next]_vars PROVE SupersededInv'
<1> USE ReportsAssumption DEF ReportsInv, TypeOK, IDInv, HandledInv, SupersededInv
<1>1. ASSUME NEW r \in Requests, CreateRequest(r) PROVE SupersededInv'
  <2>1. \A o \in Orders : RequestIn(Added(o)) = RequestOf(o)
    BY NewsFields
  <2> QED BY <1>1, <2>1 DEF CreateRequest, news
<1>2. ASSUME NEW f \in Files \cup {NoFile}, List(f) PROVE SupersededInv'
  BY <1>2 DEF List, news
<1>3. CASE SetRequestID
  BY <1>3 DEF SetRequestID, news
<1>4. CASE UNCHANGED <<call, mRequestID, news>>
  BY <1>4 DEF news
<1>5. CASE SendRequest \/ ListExpires \/ ListUnanswered \/ PrintRow \/ ListEnds
  BY <1>5, <1>4 DEF SendRequest, ListExpires, ListUnanswered, ListReturns,
                    PrintRow, ListEnds
<1>6. ASSUME NEW rows \in Tables, ListAnswered(rows) PROVE SupersededInv'
  BY <1>6, <1>4 DEF ListAnswered
\* News other than the coming of an order, and the coming of an order
<1>7. ASSUME NEW one, NEW always, NewsStep(one, always), one[1] # "added"
      PROVE  SupersededInv'
  <2>1. \A o \in Orders : one # Added(o)
    BY <1>7, NewsFields
  <2> QED BY <1>7, <2>1 DEF NewsStep, Handle
<1>8. ASSUME NEW o \in Orders, RowAdded(o) PROVE SupersededInv'
  <2>1. /\ handled' = handled \cup {Added(o)}
        /\ told \subseteq told' /\ torn \subseteq torn'
        /\ UNCHANGED <<pc, call, mRequestID>>
        /\ \A n \in Orders : Added(n) = Added(o) => n = o
    BY <1>8, NewsFields DEF RowAdded, Handle
  <2>2. CASE pc = "set"
    <3>1. Added(o) \in torn'  BY <1>8, <2>2 DEF RowAdded, Handle
    <3> QED BY <2>1, <3>1
  <2>3. CASE pc # "set" /\ mRequestID = RequestOf(o)
    <3>1. Added(o) \in told'
      BY <1>8, <2>3, NewsFields DEF RowAdded, Handle, ReadableIDs
    <3> QED BY <2>1, <3>1
  <2>4. CASE pc # "set" /\ mRequestID # RequestOf(o)
    BY <2>1, <2>4
  <2> QED BY <2>2, <2>3, <2>4
<1>9. ASSUME NEW o \in Orders, RowDeleted(o) \/ TradeAdded(o) PROVE SupersededInv'
  <2>1. CASE RowDeleted(o)
    <3>1. PICK r \in IDs : NewsStep(Deleted(o, r), FALSE)
      BY <2>1, NewsSteps
    <3>2. Deleted(o, r)[1] # "added"
      BY NewsFields
    <3> QED BY <3>1, <3>2, <1>7
  <2>2. CASE TradeAdded(o)
    <3>1. Trade(o)[1] # "added"
      BY NewsFields
    <3> QED BY <2>2, <3>1, <1>7, NewsSteps
  <2> QED BY <1>9, <2>1, <2>2
<1>10. ASSUME NEW r \in Requests, OnRequestFailed(r) PROVE SupersededInv'
  <2>1. Failed(r)[1] # "added"
    BY FailureFields
  <2> QED BY <1>10, <2>1, <1>7, NewsSteps
<1>11. CASE UNCHANGED vars
  BY <1>11, <1>4 DEF vars
<1> QED BY <1>1, <1>2, <1>3, <1>5, <1>6, <1>8, <1>9, <1>10, <1>11 DEF Next

\* Who is told that an order has gone was told that it had come, or asked.
LEMMA DeletionStep ==
    ASSUME ReportsInv, SupersededInv, DeletionAfterAddition, [Next]_vars
    PROVE  DeletionAfterAddition'
<1> USE DEF DeletionAfterAddition
<1>1. CASE UNCHANGED news /\ sent \subseteq sent'
  BY <1>1 DEF news
<1>2. ASSUME NEW one, NEW always, NewsStep(one, always), one[1] # "deleted"
      PROVE  DeletionAfterAddition'
  <2>1. \A o \in Orders, r \in IDs : one # Deleted(o, r)
    BY <1>2, NewsFields
  <2> QED BY <1>2, <2>1 DEF NewsStep, Handle
<1>3. ASSUME NEW o \in Orders, RowDeleted(o) PROVE DeletionAfterAddition'
  <2>1. PICK r \in IDs : /\ r \in {RequestOf(o)} \cup sent /\ Listed(o)
                         /\ NewsStep(Deleted(o, r), FALSE)
    BY <1>3, NewsSteps DEF ReportsInv
  <2>2. /\ Added(o) \in handled
        /\ told \subseteq told' /\ told' \subseteq told \cup {Deleted(o, r)}
        /\ torn \subseteq torn' /\ sent' = sent
    BY <2>1 DEF Listed, NewsStep, Handle
  <2>3. \A n \in Orders, q \in IDs : Deleted(n, q) = Deleted(o, r) => n = o /\ q = r
    BY NewsFields
  <2>4. CASE Added(o) \in told \cup torn \/ r # RequestOf(o)
    BY <2>1, <2>2, <2>3, <2>4
  \* Its coming was missed, and its row still has the request that placed it.
  <2>5. CASE Added(o) \notin told \cup torn /\ r = RequestOf(o)
    <3>1. RequestIn(Deleted(o, r)) = r
      BY NewsFields
    <3>2. r \notin {mRequestID, call, Torn}
      BY <2>2, <2>5, ReportsAssumption DEF SupersededInv
    <3>3. told' = told
      BY <2>1, <3>1, <3>2 DEF NewsStep, Handle, ReadableIDs
    <3> QED BY <2>2, <3>3
  <2> QED BY <2>4, <2>5
<1>4. ASSUME NEW o \in Orders, RowAdded(o) \/ TradeAdded(o)
      PROVE  DeletionAfterAddition'
  <2>1. Added(o)[1] # "deleted" /\ Trade(o)[1] # "deleted"
    BY NewsFields
  <2> QED BY <1>4, <2>1, <1>2, NewsSteps DEF ReportsInv
<1>5. ASSUME NEW r \in Requests, OnRequestFailed(r) PROVE DeletionAfterAddition'
  <2>1. Failed(r)[1] # "deleted"
    BY FailureFields
  <2> QED BY <1>5, <2>1, <1>2, NewsSteps DEF ReportsInv
<1> QED BY <1>1, <1>3, <1>4, <1>5, MatlabSteps

\* No deletion of an order whose addition was missed, whatever calls come in
\* between, but by a row that carries the request of one of these calls.
THEOREM DeletionsAfterAdditions == Spec => []DeletionAfterAddition
<1>1. Init => SupersededInv /\ DeletionAfterAddition
  BY DEF Init, SupersededInv, DeletionAfterAddition
<1> QED BY <1>1, SupersededStep, DeletionStep, ReportsInvariant, PTL DEF Spec

-----------------------------------------------------------------------------
\* What a listing that prints has written.
Written == SubSeq(table, 1, done)

ListingInv ==
    /\ pc # "print" => ~saveToFile
    /\ pc = "print" =>
         CASE file = NoFile -> ~saveToFile /\ screen = <<Header>> \o Written
           [] file # NoFile /\ saveToFile ->
                screen = <<>> /\ files[file] = <<Header>> \o Written
           [] OTHER -> screen = Written

LEMMA ListingStep ==
    ASSUME TypeOK, ListingInv, [Next]_vars PROVE ListingInv'
<1>1. CASE UNCHANGED listing /\ (UNCHANGED pc \/ "print" \notin {pc, pc'})
  BY <1>1 DEF ListingInv, Written, listing, locals
<1>2. CASE ListReturns
  BY <1>2 DEF ListingInv, ListReturns
<1>3. ASSUME NEW rows \in Tables, ListAnswered(rows) PROVE ListingInv'
  <2>1. Written' = <<>>
    BY <1>3, SubSeqEmpty DEF ListAnswered, Written
  <2>2. <<Header>> \o <<>> = <<Header>>
    OBVIOUS
  <2>3. saveToFile' \in Opens /\ (saveToFile' => file # NoFile /\ file \in Files)
    BY <1>3 DEF ListAnswered, Opens, TypeOK
  <2>4. saveToFile' => files'[file] = <<Header>>
    BY <1>3, <2>3 DEF ListAnswered, FilesWith, TypeOK
  <2> QED BY <1>3, <2>1, <2>2, <2>3, <2>4 DEF ListingInv, ListAnswered
<1>4. CASE PrintRow
  <2>1. /\ table[done + 1] \in Rows /\ Written \in Seq(Rows)
        /\ Append(Written, table[done + 1]) = SubSeq(table, 1, done + 1)
    BY <1>4, OneMoreRow DEF PrintRow, TypeOK, Written
  <2>2. Written' = Append(Written, table[done + 1])
    BY <1>4, <2>1 DEF PrintRow, Written
  <2>3. Append(<<Header>> \o Written, table[done + 1])
          = <<Header>> \o Append(Written, table[done + 1])
    <3> DEFINE S == Rows \cup {Header}
    <3>1. <<Header>> \in Seq(S) /\ Written \in Seq(S) /\ <<table[done + 1]>> \in Seq(S)
      BY <2>1
    <3>2. \A s \in Seq(S) : Append(s, table[done + 1]) = s \o <<table[done + 1]>>
      BY <2>1, AppendIsConcat
    <3> QED BY <3>1, <3>2, ConcatAssociative, ConcatProperties
  <2>4. saveToFile => file \in Files
    BY <1>4 DEF ListingInv, PrintRow, TypeOK
  <2>5. saveToFile => files'[file] = Append(files[file], table[done + 1])
    BY <1>4, <2>4 DEF PrintRow, TypeOK
  <2> QED BY <1>4, <2>2, <2>3, <2>4, <2>5 DEF ListingInv, PrintRow
<1>5. ASSUME NEW r \in Requests, CreateRequest(r) PROVE ListingInv'
  BY <1>5, <1>1 DEF CreateRequest
<1>6. ASSUME NEW f \in Files \cup {NoFile}, List(f) PROVE ListingInv'
  BY <1>6 DEF List, ListingInv
<1>7. CASE SetRequestID \/ SendRequest
  BY <1>7, <1>1 DEF SetRequestID, SendRequest
<1>8. CASE ListExpires \/ ListUnanswered \/ ListEnds
  BY <1>8, <1>2 DEF ListExpires, ListUnanswered, ListEnds
<1>9. ASSUME NEW o \in Orders, RowAdded(o) \/ RowDeleted(o) \/ TradeAdded(o)
      PROVE  ListingInv'
  BY <1>9, <1>1 DEF RowAdded, RowDeleted, TradeAdded, Handle
<1>10. ASSUME NEW r \in Requests, OnRequestFailed(r) PROVE ListingInv'
  BY <1>10, <1>1 DEF OnRequestFailed, Handle
<1>11. CASE UNCHANGED vars
  BY <1>11, <1>1 DEF vars
<1> QED BY <1>3, <1>4, <1>5, <1>6, <1>7, <1>8, <1>9, <1>10, <1>11 DEF Next

\* Every row of a table that was received is delivered, in its place.
THEOREM ListingsDelivered == Spec => []ListingDelivered
<1>1. Init => ListingInv
  BY DEF Init, ListingInv
<1>2. TypeOK /\ ListingInv => ListingDelivered
  <2>1. ASSUME TypeOK, done = Len(table) PROVE Written = table
    <3>1. /\ Written \in Seq(Rows) /\ Len(Written) = Len(table)
          /\ \A i \in 1 .. Len(table) : Written[i] = table[i]
      BY <2>1, SubSeqProperties DEF TypeOK, Written
    <3> QED BY <2>1, <3>1, SeqEqual DEF TypeOK
  <2> QED BY <2>1 DEF ListingInv, ListingDelivered
<1> QED BY <1>1, <1>2, ListingStep, Typing, PTL DEF Spec
=============================================================================
