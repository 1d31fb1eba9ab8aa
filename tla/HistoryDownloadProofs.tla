----------------------- MODULE HistoryDownloadProofs -----------------------
(***************************************************************************)
(* HistoryDownload for any span of dates, any quotes and any page size.    *)
(*                                                                         *)
(* The argument: a page holds every quote from its oldest one on up to the *)
(* bound (PageIsUpward), so that the pages kept so far and the next one    *)
(* leave no gap; and the stream writes only into the file that the call    *)
(* under way has opened (Inv).                                             *)
(***************************************************************************)
EXTENDS HistoryDownload, FiniteSetTheorems, SequenceTheorems, TLAPS

\* A finite set of integers can be listed from the greatest to the least.
LEMMA Descending ==
    ASSUME NEW S, S \subseteq Int, IsFiniteSet(S)
    PROVE  \E s \in [1 .. Cardinality(S) -> S] :
             \A i, j \in 1 .. Cardinality(S) : i < j => s[i] > s[j]
<1> DEFINE n == Cardinality(S)
           Up(q) == {r \in S : r >= q}
           f == [q \in S |-> Cardinality(Up(q))]
<1>0. n \in Nat
  BY FS_CardinalityType
<1>1. \A q \in S : IsFiniteSet(Up(q)) /\ Cardinality(Up(q)) \in 1 .. n
  <2> TAKE q \in S
  <2>1. Up(q) \in SUBSET S /\ q \in Up(q)
    OBVIOUS
  <2>2. IsFiniteSet(Up(q)) /\ Cardinality(Up(q)) <= n
    BY <2>1, FS_Subset
  <2>3. Cardinality(Up(q)) \in Nat /\ Cardinality(Up(q)) # 0
    BY <2>1, <2>2, FS_CardinalityType, FS_EmptySet
  <2> QED BY <1>0, <2>2, <2>3
<1>2. \A q, r \in S : q < r => Cardinality(Up(r)) < Cardinality(Up(q))
  <2> SUFFICES ASSUME NEW q \in S, NEW r \in S, q < r
               PROVE  Cardinality(Up(r)) < Cardinality(Up(q))
    OBVIOUS
  <2>0. \A x \in S : x \in Int
    OBVIOUS
  <2>1. Up(r) \in SUBSET Up(q) /\ q \in Up(q) /\ q \notin Up(r)
    <3>1. \A x \in Up(r) : x \in S /\ x >= q
      BY <2>0
    <3>2. q >= q /\ ~(q >= r)
      BY <2>0
    <3> QED BY <3>1, <3>2
  <2>2. Cardinality(Up(r)) <= Cardinality(Up(q)) /\ Cardinality(Up(q)) # Cardinality(Up(r))
    BY <1>1, <2>1, FS_Subset
  <2> QED BY <1>1, <2>2
<1>3. f \in Injection(S, 1 .. n)
  <2>1. f \in [S -> 1 .. n]
    BY <1>1
  <2>2. \A q, r \in S : f[q] = f[r] => q = r
    BY <1>1, <1>2
  <2> QED BY <2>1, <2>2 DEF Injection, IsInjective
<1>4. f \in Surjection(S, 1 .. n)
  BY <1>0, <1>3, FS_Injection, FS_Interval
<1>5. \A i \in 1 .. n : \E q \in S : f[q] = i
  BY <1>4 DEF Surjection
<1> DEFINE s == [i \in 1 .. n |-> CHOOSE q \in S : f[q] = i]
<1>6. \A i \in 1 .. n : s[i] \in S /\ f[s[i]] = i
  BY <1>5
<1>7. ASSUME NEW i \in 1 .. n, NEW j \in 1 .. n, i < j PROVE s[i] > s[j]
  <2>1. s[i] \in S /\ s[j] \in S /\ Cardinality(Up(s[i])) = i /\ Cardinality(Up(s[j])) = j
    BY <1>6
  <2>2. s[i] \in Int /\ s[j] \in Int
    BY <2>1
  <2> HIDE DEF s, Up
  <2>3. ~(i > j) /\ i # j
    BY <1>0, <1>7
  <2>4. ~(s[i] < s[j])
    BY <1>2, <2>1, <2>3
  <2>5. s[i] # s[j]
    BY <2>1, <2>3
  <2> QED BY <2>2, <2>4, <2>5
<1> QED BY <1>6, <1>7

\* The rows of a page are its quotes, from the newest to the oldest.
LEMMA RowsOfPage ==
    ASSUME NEW S, S \subseteq Int, IsFiniteSet(S)
    PROVE  /\ Rows(S) \in Seq(S) /\ Len(Rows(S)) = Cardinality(S)
           /\ \A i, j \in 1 .. Cardinality(S) : i < j => Rows(S)[i] > Rows(S)[j]
           /\ ToSet(Rows(S)) = S
<1> DEFINE n == Cardinality(S)
           s == Rows(S)
<1>0. n \in Nat
  BY FS_CardinalityType
<1>1. s \in [1 .. n -> S] /\ \A i, j \in 1 .. n : i < j => s[i] > s[j]
  BY Descending DEF Rows
<1>2. s \in Seq(S) /\ Len(s) = n /\ DOMAIN s = 1 .. n
  BY <1>0, <1>1
<1>3. s \in Injection(1 .. n, S)
  <2>1. \A i, j \in 1 .. n : s[i] = s[j] => i = j
    <3> SUFFICES ASSUME NEW i \in 1 .. n, NEW j \in 1 .. n, s[i] = s[j]
                 PROVE  i = j
      OBVIOUS
    <3>1. s[i] \in Int /\ s[j] \in Int
      BY <1>1
    <3> QED BY <1>0, <1>1, <3>1
  <2> QED BY <1>1, <2>1 DEF Injection, IsInjective
<1>4. s \in Surjection(1 .. n, S)
  BY <1>0, <1>3, FS_Injection, FS_Interval
<1>5. ToSet(s) = S
  BY <1>1, <1>2, <1>4 DEF Surjection, ToSet
<1> HIDE DEF s
<1> QED BY <1>1, <1>2, <1>5 DEF s

\* A finite set of integers that is not empty has a least and a greatest element.
LEMMA Extremes ==
    ASSUME NEW S, S \subseteq Int, IsFiniteSet(S), S # {}
    PROVE  /\ \E q \in S : \A r \in S : q <= r
           /\ \E q \in S : \A r \in S : r <= q
<1> DEFINE n == Cardinality(S)
           s == Rows(S)
<1>1. n \in Nat \ {0}
  BY FS_CardinalityType, FS_EmptySet
<1>2. /\ s \in Seq(S) /\ Len(s) = n
      /\ \A i, j \in 1 .. n : i < j => s[i] > s[j]
      /\ ToSet(s) = S
  BY RowsOfPage
<1>3. \A r \in S : \E i \in 1 .. n : s[i] = r
  <2>1. DOMAIN s = 1 .. n
    BY <1>2, LenProperties
  <2> QED BY <1>2, <2>1 DEF ToSet
<1>4. \A i \in 1 .. n : s[i] \in S /\ s[i] \in Int
  BY <1>2, ElementOfSeq
<1> HIDE DEF s, n
<1>5. \A i \in 1 .. n : s[n] <= s[i] /\ s[i] <= s[1]
  <2> TAKE i \in 1 .. n
  <2>1. CASE i = n  BY <1>1, <1>2, <1>4, <2>1
  <2>2. CASE i = 1  BY <1>1, <1>2, <1>4, <2>2
  <2>3. CASE i # 1 /\ i # n  BY <1>1, <1>2, <1>4, <2>3
  <2> QED BY <2>1, <2>2, <2>3
<1>6. s[n] \in S /\ s[1] \in S
  BY <1>1, <1>4
<1> QED BY <1>3, <1>5, <1>6

-----------------------------------------------------------------------------
\* The page that ends at a bound within the period
LEMMA PageIsUpward ==
    ASSUME NEW from \in Dates, NEW to \in Dates, quotes \subseteq Dates,
           NEW page, page = Page(from, to)
    PROVE  /\ page \subseteq Int /\ IsFiniteSet(page)
           /\ \A q \in page : q \in quotes /\ q \in Dates /\ from <= q /\ q <= to
           /\ page # {} =>
                /\ Oldest(page) \in page /\ \A q \in page : Oldest(page) <= q
                /\ \A q \in quotes : Oldest(page) <= q /\ q <= to => q \in page
                /\ Cardinality(page) \in 1 .. to - Oldest(page) + 1
           /\ (page # {} => to - Oldest(page) <= Eps) =>
                \A q \in quotes : from <= q /\ q <= to => q \in page
<1> USE HistoryAssumption DEF Dates
<1> DEFINE period == {q \in quotes : from <= q /\ q <= to}
           Newer(q) == {r \in period : r > q}
<1>1. page = {q \in period : Cardinality(Newer(q)) < QueryDepth}
  BY DEF Page
<1>2. /\ page \subseteq Int
      /\ \A q \in page : q \in quotes /\ q \in Dates /\ from <= q /\ q <= to
  <2>1. \A q \in page : q \in quotes /\ from <= q /\ q <= to
    BY <1>1
  <2>2. \A q \in quotes : q \in Dates /\ q \in Int
    OBVIOUS
  <2> QED BY <2>1, <2>2
<1>3. \A x \in SUBSET period : IsFiniteSet(x) /\ x \subseteq Int
  <2>1. IsFiniteSet(from .. to)  BY FS_Interval
  <2>2. \A q \in period : q \in from .. to /\ q \in Int  OBVIOUS
  <2> TAKE x \in SUBSET period
  <2>3. \A q \in x : q \in from .. to /\ q \in Int  BY <2>2
  <2>4. x \in SUBSET (from .. to) /\ x \subseteq Int  BY <2>3
  <2> QED BY <2>1, <2>4, FS_Subset
<1>4. page \in SUBSET period /\ IsFiniteSet(page)
  BY <1>1, <1>3
<1>5. ASSUME page # {}
      PROVE  Oldest(page) \in page /\ \A q \in page : Oldest(page) <= q
  <2>1. \E q \in page : \A r \in page : q <= r
    BY <1>2, <1>4, <1>5, Extremes
  <2> QED BY <2>1 DEF Oldest
<1>6. ASSUME page # {}, NEW q \in quotes, Oldest(page) <= q, q <= to PROVE q \in page
  <2> DEFINE o == Oldest(page)
  <2>1. o \in page /\ o \in Int /\ q \in period /\ q \in Int
    BY <1>2, <1>5, <1>6
  <2>2. Newer(q) \in SUBSET Newer(o) /\ IsFiniteSet(Newer(o))
    <3>1. \A x \in Newer(q) : x \in period /\ x > o
      BY <1>6, <2>1
    <3>2. Newer(o) \in SUBSET period
      OBVIOUS
    <3> QED BY <1>3, <3>1, <3>2
  <2>3. /\ Cardinality(Newer(q)) <= Cardinality(Newer(o))
        /\ Cardinality(Newer(q)) \in Nat /\ Cardinality(Newer(o)) \in Nat
    BY <2>2, FS_Subset, FS_CardinalityType
  <2>4. Cardinality(Newer(o)) < QueryDepth
    BY <1>1, <2>1
  <2> HIDE DEF Newer, period
  <2>5. Cardinality(Newer(q)) < QueryDepth
    BY <2>3, <2>4
  <2> QED BY <1>1, <2>1, <2>5
<1>7. ASSUME page # {} PROVE Cardinality(page) \in 1 .. to - Oldest(page) + 1
  <2> DEFINE o == Oldest(page)
  <2>1. o \in Int /\ o <= to /\ page \in SUBSET (o .. to)
    BY <1>2, <1>5, <1>7
  <2>2. IsFiniteSet(o .. to) /\ Cardinality(o .. to) = to - o + 1
    BY <2>1, FS_Interval
  <2>3. Cardinality(page) <= to - o + 1
    BY <2>1, <2>2, FS_Subset
  <2>4. Cardinality(page) \in Nat /\ Cardinality(page) # 0
    BY <1>4, <1>7, FS_CardinalityType, FS_EmptySet
  <2> QED BY <2>1, <2>3, <2>4
<1>8. ASSUME page # {} => to - Oldest(page) <= Eps,
             NEW q0 \in quotes, from <= q0, q0 <= to, q0 \notin page
      PROVE  FALSE
  <2> DEFINE rest == period \ page
  <2>1. q0 \in rest
    BY <1>8
  <2>2. PICK q \in rest : \A r \in rest : r <= q
    BY <1>3, <2>1, Extremes
  <2>3. Newer(q) \in SUBSET page
    <3>1. q \in Int /\ \A x \in period : x \in Int
      OBVIOUS
    <3>2. \A x \in period : x > q => x \in page
      BY <2>2, <3>1
    <3> QED BY <3>2
  <2>4. /\ Cardinality(Newer(q)) \in Nat
        /\ Cardinality(Newer(q)) <= Cardinality(page) /\ Cardinality(page) \in Nat
    BY <1>4, <2>3, FS_Subset, FS_CardinalityType
  <2>5. ~(Cardinality(Newer(q)) < QueryDepth)
    BY <1>1
  <2>6. Cardinality(page) > Eps + 1
    BY <2>4, <2>5
  <2>7. page # {}
    BY <2>6, FS_EmptySet
  <2>8. Oldest(page) \in Int
    BY <2>7, <1>5, <1>2
  <2> QED BY <1>7, <1>8, <2>6, <2>7, <2>8
<1> QED BY <1>2, <1>4, <1>5, <1>6, <1>7, <1>8

-----------------------------------------------------------------------------
InOrder(lines) ==
    /\ \A i \in DOMAIN lines : lines[i] = Header <=> i = 1
    /\ \A i \in 2 .. Len(lines) - 1 : lines[i] >= lines[i + 1]

Streams == [open : Files \cup {NoFile}, fail : BOOLEAN,
            files : [Files -> Seq(Dates \cup {Header})]]

Newest == {q \in quotes : dtFirst <= q /\ q <= dtTo}

\* The bound moves down, and each page has at most two rows for each of the
\* dates it moves over: the row at the bound is printed twice.
BoundsInv ==
    /\ dtFrom <= dtFirst /\ dtFirst <= dtTo
    /\ recNum <= 2 * (dtTo - dtFirst)
    /\ pc # "idle" => (recNum = 0 <=> dtFirst = dtTo)

\* The stream writes only if this call has opened it, and what is kept are the
\* quotes down to the bound.
StreamInv ==
    /\ kept => file \in Files /\ Stored = Newest
    /\ kept /\ pc # "idle" =>
         /\ recNum > 0
         /\ io.open = file /\ ~io.fail
         /\ io.files[file] # <<>>
         /\ \A i \in 2 .. Len(io.files[file]) : io.files[file][i] >= dtFirst
    /\ pc # "idle" /\ recNum > 0 /\ file # NoFile => kept \/ (io.fail /\ ~whole)

Inv == TypeOK /\ BoundsInv /\ StreamInv

-----------------------------------------------------------------------------
\* Rows that are not newer than the bound, below lines that are not older
LEMMA RowsBelow ==
    ASSUME NEW lines \in Seq(Dates \cup {Header}), lines # <<>>, InOrder(lines),
           NEW bound \in Dates, \A i \in 2 .. Len(lines) : lines[i] >= bound,
           NEW page, page \subseteq Int, IsFiniteSet(page), NEW oldest \in Int,
           \A q \in page : q \in Dates /\ oldest <= q /\ q <= bound,
           oldest <= bound
    PROVE  LET all == lines \o Rows(page) IN
           /\ all \in Seq(Dates \cup {Header}) /\ all # <<>>
           /\ InOrder(all)
           /\ \A i \in 2 .. Len(all) : all[i] >= oldest
           /\ ToSet(all) \ {Header} = (ToSet(lines) \ {Header}) \cup page
<1> USE HistoryAssumption DEF Dates, Header
<1> DEFINE L == Dates \cup {Header}
           n == Len(lines)
           m == Cardinality(page)
           rows == Rows(page)
           all == lines \o rows
<1>1. /\ rows \in Seq(page) /\ Len(rows) = m /\ ToSet(rows) = page
      /\ \A i, j \in 1 .. m : i < j => rows[i] > rows[j]
  BY RowsOfPage
<1>2. m \in Nat /\ n \in Nat /\ n > 0 /\ DOMAIN lines = 1 .. n /\ DOMAIN rows = 1 .. m
  BY <1>1, FS_CardinalityType, EmptySeq, LenProperties
<1>3. \A i \in 1 .. m : rows[i] \in page /\ rows[i] \in Int
  BY <1>1, ElementOfSeq
<1>4. \A i \in 1 .. n : lines[i] \in L /\ lines[i] \in Int
  BY <1>2, ElementOfSeq
<1> HIDE DEF rows, m, n
<1>5. rows \in Seq(L)
  <2>1. \A i \in 1 .. m : rows[i] \in L
    BY <1>3
  <2> QED BY <1>1, <1>2, <2>1
<1>6. /\ all \in Seq(L) /\ Len(all) = n + m /\ DOMAIN all = 1 .. n + m
      /\ \A i \in 1 .. n : all[i] = lines[i]
      /\ \A i \in 1 .. m : all[n + i] = rows[i]
  <2>1. /\ all \in Seq(L) /\ Len(all) = n + m
        /\ \A i \in 1 .. n + m : all[i] = IF i <= n THEN lines[i] ELSE rows[i - n]
    BY <1>1, <1>2, <1>5, ConcatProperties DEF n
  <2>2. DOMAIN all = 1 .. n + m
    BY <2>1, LenProperties
  <2>3. \A i \in 1 .. n : all[i] = lines[i]
    BY <1>2, <2>1
  <2>4. \A i \in 1 .. m : n + i \in 1 .. n + m /\ ~(n + i <= n) /\ (n + i) - n = i
    BY <1>2
  <2> QED BY <2>1, <2>2, <2>3, <2>4
<1> HIDE DEF all
<1>7. \A i \in 1 .. n + m : i \in 1 .. n \/ \E j \in 1 .. m : i = n + j
  <2> TAKE i \in 1 .. n + m
  <2>1. i <= n \/ (i - n \in 1 .. m /\ i = n + (i - n))
    BY <1>2
  <2> QED BY <1>2, <2>1
<1>8. \A j \in 1 .. m : all[n + j] >= oldest /\ all[n + j] <= bound /\ all[n + j] # Header
  <2> TAKE j \in 1 .. m
  <2>1. rows[j] \in page /\ rows[j] \in Int
    BY <1>3
  <2>2. rows[j] \in Dates /\ oldest <= rows[j] /\ rows[j] <= bound
    BY <2>1
  <2>3. rows[j] >= oldest /\ rows[j] <= bound /\ rows[j] # Header
    BY <2>1, <2>2
  <2> QED BY <1>6, <2>3
<1>9. \A i \in 2 .. n : all[i] >= bound
  BY <1>2, <1>6 DEF n
<1>10. \A i \in 2 .. Len(all) : all[i] >= oldest
  <2> TAKE i \in 2 .. Len(all)
  <2>1. CASE i \in 2 .. n
    <3>1. all[i] \in Int  BY <1>2, <1>4, <1>6, <2>1
    <3> QED BY <1>9, <2>1, <3>1
  <2>2. CASE \E j \in 1 .. m : i = n + j
    BY <1>8, <2>2
  <2> QED BY <1>2, <1>6, <1>7, <2>1, <2>2
<1>11. \A i \in DOMAIN all : all[i] = Header <=> i = 1
  <2> TAKE i \in DOMAIN all
  <2>1. CASE i \in 1 .. n
    BY <1>2, <1>6, <2>1 DEF InOrder
  <2>2. CASE \E j \in 1 .. m : i = n + j
    <3>1. PICK j \in 1 .. m : i = n + j
      BY <2>2
    <3>2. all[i] # Header /\ i # 1
      BY <1>2, <1>8, <3>1
    <3> QED BY <3>2
  <2> QED BY <1>6, <1>7, <2>1, <2>2
<1>12. \A i \in 2 .. Len(all) - 1 : all[i] >= all[i + 1]
  <2> TAKE i \in 2 .. Len(all) - 1
  <2>1. CASE i + 1 \in 1 .. n
    <3>1. i \in 1 .. n /\ i \in 2 .. n - 1
      BY <1>2, <2>1
    <3> QED BY <1>6, <2>1, <3>1 DEF InOrder, n
  <2>2. CASE i = n
    <3>1. all[i] >= bound /\ all[i] \in Int
      BY <1>2, <1>4, <1>6, <1>9, <2>2
    <3>2. 1 \in 1 .. m
      BY <1>2, <1>6, <2>2
    <3>3. all[n + 1] <= bound /\ all[n + 1] \in Int
      BY <1>3, <1>6, <1>8, <3>2
    <3> QED BY <2>2, <3>1, <3>3
  <2>3. CASE i > n
    <3>1. \E k, l \in 1 .. m : k < l /\ i = n + k /\ i + 1 = n + l
      <4>1. i - n \in 1 .. m /\ i - n + 1 \in 1 .. m /\ i - n < i - n + 1
            /\ i = n + (i - n) /\ i + 1 = n + (i - n + 1)
        BY <1>2, <1>6, <2>3
      <4> QED BY <4>1
    <3>0. PICK k \in 1 .. m, l \in 1 .. m : k < l /\ i = n + k /\ i + 1 = n + l
      BY <3>1
    <3>2. all[i] = rows[k] /\ all[i + 1] = rows[l]
      BY <1>6, <3>0
    <3>3. rows[k] \in Int /\ rows[l] \in Int
      BY <1>3
    <3>4. rows[k] > rows[l]
      BY <1>1, <3>0
    <3> QED BY <3>2, <3>3, <3>4
  <2> QED BY <1>2, <1>6, <2>1, <2>2, <2>3
<1>13. ToSet(all) = ToSet(lines) \cup ToSet(rows)
  <2>1. ToSet(all) \subseteq ToSet(lines) \cup ToSet(rows)
    <3> SUFFICES ASSUME NEW i \in 1 .. n + m
                 PROVE  all[i] \in ToSet(lines) \cup ToSet(rows)
      BY <1>6 DEF ToSet
    <3>1. CASE i \in 1 .. n  BY <1>2, <1>6, <3>1 DEF ToSet
    <3>2. CASE \E j \in 1 .. m : i = n + j  BY <1>2, <1>6, <3>2 DEF ToSet
    <3> QED BY <1>7, <3>1, <3>2
  <2>2. \A i \in 1 .. n : lines[i] \in ToSet(all)
    <3> TAKE i \in 1 .. n
    <3>1. i \in DOMAIN all /\ all[i] = lines[i]  BY <1>2, <1>6
    <3> QED BY <3>1 DEF ToSet
  <2>3. \A j \in 1 .. m : rows[j] \in ToSet(all)
    <3> TAKE j \in 1 .. m
    <3>1. n + j \in DOMAIN all /\ all[n + j] = rows[j]  BY <1>2, <1>6
    <3> QED BY <3>1 DEF ToSet
  <2>4. ToSet(lines) \subseteq ToSet(all) /\ ToSet(rows) \subseteq ToSet(all)
    BY <1>2, <2>2, <2>3 DEF ToSet
  <2> QED BY <2>1, <2>4
<1>14. Header \notin page
  OBVIOUS
<1>15. ToSet(all) \ {Header} = (ToSet(lines) \ {Header}) \cup page
  BY <1>1, <1>13, <1>14 DEF rows
<1>16. all # <<>>
  BY <1>2, <1>6, EmptySeq
<1> QED BY <1>6, <1>10, <1>11, <1>12, <1>15, <1>16 DEF InOrder, all, rows

-----------------------------------------------------------------------------
\* The stream when a page is about to be printed
LEMMA StreamOpened ==
    ASSUME TypeOK, NEW s \in PrintOpen
    PROVE  /\ s \in Streams
           /\ \/ s = io /\ (recNum # 0 \/ file = NoFile)
              \/ /\ recNum = 0 /\ file \in Files
                 /\ s.fail /\ s.open = io.open /\ s.files = io.files
              \/ /\ recNum = 0 /\ file \in Files
                 /\ ~s.fail /\ s.open = file
                 /\ s.files = [io.files EXCEPT ![file] = <<>>]
<1> USE HistoryAssumption
<1>1. CASE recNum = 0 /\ file # NoFile
  <2>1. file \in Files /\ s \in Open(io, file)
    BY <1>1 DEF PrintOpen, TypeOK
  <2> DEFINE failed == [io EXCEPT !.fail = TRUE]
             opened == [open |-> file, fail |-> FALSE,
                        files |-> [io.files EXCEPT ![file] = <<>>]]
  <2>2. failed \in Streams /\ failed.fail /\ failed.open = io.open /\ failed.files = io.files
    BY DEF TypeOK, Streams
  <2>3. opened \in Streams
    <3>1. <<>> \in Seq(Dates \cup {Header})
      OBVIOUS
    <3> QED BY <2>1, <3>1 DEF TypeOK, Streams
  <2>4. s = failed \/ s = opened
    BY <2>1 DEF Open
  <2>5. ~opened.fail /\ opened.open = file
        /\ opened.files = [io.files EXCEPT ![file] = <<>>]
    OBVIOUS
  <2> HIDE DEF failed, opened
  <2> QED BY <1>1, <2>1, <2>2, <2>3, <2>4, <2>5
<1>2. CASE ~(recNum = 0 /\ file # NoFile)
  BY <1>2 DEF PrintOpen, TypeOK, Streams
<1> QED BY <1>1, <1>2

\* The call returns or goes on: the lines in the files are left alone.
LEMMA LoopEnd ==
    ASSUME TypeOK, NEW s \in Streams, NEW first, NEW printed,
           LoopOn(s, first, printed) \/ Return(s, printed)
    PROVE  /\ io' \in Streams /\ io'.files = s.files
           /\ pc' \in {"idle", "send"} /\ result' \in BOOLEAN
           /\ pc' # "idle" => io' = s
<1>1. CASE Return(s, printed)
  <2>1. io' = s \/ io' = Close(s)
    BY <1>1 DEF Return
  <2>2. Close(s) \in Streams /\ Close(s).files = s.files
    BY DEF Close, Streams
  <2> QED BY <1>1, <2>1, <2>2 DEF Return, TypeOK
<1>2. CASE LoopOn(s, first, printed) /\ ~Return(s, printed)
  BY <1>2 DEF LoopOn, TypeOK
<1> QED BY <1>1, <1>2

\* What a page does: nothing of it is written, or all of it, below the header or
\* below the pages before it.
LEMMA PageEffect ==
    ASSUME Inv, PageRows
    PROVE  \E page \in SUBSET Dates :
        /\ page = Page(dtFrom, dtFirst) /\ page # {}
        /\ dtFirst - Oldest(page) > Eps /\ dtFirst' = Oldest(page)
        /\ recNum' = recNum + Cardinality(page)
        /\ io' \in Streams /\ pc' \in {"idle", "send"} /\ result' \in BOOLEAN
        /\ whole' = (whole /\ (file # NoFile => kept'))
        /\ kept' \in (IF recNum = 0 THEN BOOLEAN ELSE {kept})
        /\ ~kept' => io'.files = io.files /\ (pc' # "idle" /\ file # NoFile => io'.fail)
        /\ kept' =>
             /\ file \in Files
             /\ pc' # "idle" => io'.open = file /\ ~io'.fail
             /\ LET before == IF recNum = 0 THEN <<Header>> ELSE io.files[file]
                IN  io'.files = [io.files EXCEPT ![file] = before \o Rows(page)]
<1> USE HistoryAssumption
<1> DEFINE page == Page(dtFrom, dtFirst)
           oldest == Oldest(page)
<1>1. /\ page # {} /\ dtFirst - oldest > Eps
      /\ dtFirst' = oldest /\ recNum' = recNum + Cardinality(page)
  BY DEF PageRows
<1>2. PICK s \in PrintOpen :
        /\ kept' = (file # NoFile /\ s.open = file /\ ~s.fail)
        /\ whole' = (whole /\ (file # NoFile => kept'))
        /\ LoopOn(Printed(s, page), oldest, recNum')
  BY DEF PageRows
<1>3. /\ page \subseteq Int /\ IsFiniteSet(page) /\ page \in SUBSET Dates
  BY PageIsUpward DEF Inv, TypeOK
<1>4. Rows(page) \in Seq(Dates \cup {Header})
  <2>1. Rows(page) \in Seq(page)
    BY <1>3, RowsOfPage
  <2> QED BY <1>3, <2>1
<1> HIDE DEF page, oldest
<1> DEFINE before == IF recNum = 0 THEN <<Header>> ELSE io.files[file]
           after  == [io.files EXCEPT ![file] = before \o Rows(page)]
<1>5. CASE file = NoFile
  <2>1. s = io /\ Printed(s, page) = io /\ ~kept' /\ ~kept /\ io \in Streams
    BY <1>2, <1>5, StreamOpened DEF Inv, StreamInv, Printed
  <2>2. /\ io' \in Streams /\ io'.files = io.files
        /\ pc' \in {"idle", "send"} /\ result' \in BOOLEAN
    BY <1>2, <2>1, LoopEnd DEF Inv
  <2>3. kept' \in (IF recNum = 0 THEN BOOLEAN ELSE {kept})
    BY <1>2, <2>1 DEF Inv, TypeOK
  <2> QED BY <1>1, <1>2, <1>3, <1>5, <2>1, <2>2, <2>3 DEF page, oldest
<1>6. CASE file # NoFile /\ s.fail
  <2>1. /\ s \in Streams /\ s.files = io.files /\ Printed(s, page) = s /\ ~kept'
        /\ recNum # 0 => s = io
    BY <1>2, <1>6, StreamOpened DEF Inv, Printed, Write
  <2>2. recNum # 0 => ~kept
    BY <1>6, <2>1 DEF PageRows, Inv, StreamInv
  <2>3. /\ io' \in Streams /\ io'.files = s.files
        /\ pc' \in {"idle", "send"} /\ result' \in BOOLEAN
        /\ pc' # "idle" => io' = s
    BY <1>2, <2>1, LoopEnd DEF Inv
  <2>4. kept' \in (IF recNum = 0 THEN BOOLEAN ELSE {kept})
    BY <2>1, <2>2, <1>2 DEF Inv, TypeOK
  <2> QED BY <1>1, <1>2, <1>3, <1>6, <2>1, <2>3, <2>4 DEF page, oldest
<1>7. CASE file # NoFile /\ ~s.fail
  <2>1. /\ s \in Streams /\ file \in Files /\ s.open = file
        /\ \/ recNum = 0 /\ s.files = [io.files EXCEPT ![file] = <<>>]
           \/ recNum # 0 /\ s = io /\ kept
    BY <1>7, StreamOpened DEF PageRows, Inv, StreamInv, TypeOK
  <2>2. kept' /\ kept' \in (IF recNum = 0 THEN BOOLEAN ELSE {kept})
    BY <1>2, <1>7, <2>1 DEF Inv, TypeOK
  <2> DEFINE header == IF recNum = 0 THEN <<Header>> ELSE <<>>
             lines  == s.files[file] \o (header \o Rows(page))
  <2>3. s.files[file] \in Seq(Dates \cup {Header}) /\ header \in Seq(Dates \cup {Header})
    <3>1. <<Header>> \in Seq(Dates \cup {Header}) /\ <<>> \in Seq(Dates \cup {Header})
      OBVIOUS
    <3>2. s.files \in [Files -> Seq(Dates \cup {Header})]
      BY <2>1 DEF Streams
    <3> QED BY <2>1, <3>1, <3>2
  <2>4. lines = before \o Rows(page) /\ lines \in Seq(Dates \cup {Header})
    <3>1. \A x \in Seq(Dates \cup {Header}) : <<>> \o x = x
      BY ConcatEmptySeq
    <3>2. header \o Rows(page) \in Seq(Dates \cup {Header})
      BY <1>4, <2>3, ConcatProperties
    <3>3. CASE recNum = 0
      <4>1. s.files[file] = <<>>
        BY <2>1, <3>3 DEF Inv, TypeOK
      <4>2. lines = header \o Rows(page)
        BY <3>1, <3>2, <4>1
      <4> QED BY <3>2, <3>3, <4>2
    <3>4. CASE recNum # 0
      <4>1. header \o Rows(page) = Rows(page) /\ s.files[file] = before
        BY <1>4, <2>1, <3>1, <3>4
      <4> QED BY <1>4, <2>3, <4>1, ConcatProperties
    <3> QED BY <3>3, <3>4
  <2>5. Printed(s, page) = [s EXCEPT !.files[file] = lines]
    BY <1>7, <2>1 DEF Printed, Write
  <2> HIDE DEF lines, header
  <2>6. /\ Printed(s, page) \in Streams
        /\ Printed(s, page).files = [s.files EXCEPT ![file] = lines]
        /\ Printed(s, page).open = file /\ ~Printed(s, page).fail
    <3>1. /\ s.files \in [Files -> Seq(Dates \cup {Header})]
          /\ s = [open |-> s.open, fail |-> s.fail, files |-> s.files]
      BY <2>1 DEF Streams
    <3>2. [s.files EXCEPT ![file] = lines] \in [Files -> Seq(Dates \cup {Header})]
      BY <2>4, <3>1
    <3>3. Printed(s, page) = [open |-> s.open, fail |-> s.fail,
                              files |-> [s.files EXCEPT ![file] = lines]]
      BY <2>5, <3>1
    <3> QED BY <1>7, <2>1, <3>2, <3>3 DEF Streams
  <2>7. Printed(s, page).files = after
    BY <2>1, <2>4, <2>6 DEF Inv, TypeOK
  <2>8. /\ io' \in Streams /\ io'.files = after
        /\ pc' \in {"idle", "send"} /\ result' \in BOOLEAN
        /\ pc' # "idle" => io' = Printed(s, page)
    BY <1>2, <2>6, <2>7, LoopEnd DEF Inv
  <2> QED BY <1>1, <1>2, <1>3, <2>1, <2>2, <2>6, <2>8 DEF page, oldest
<1> QED BY <1>5, <1>6, <1>7

-----------------------------------------------------------------------------
\* The steps that print nothing: the stream may have been opened.
LEMMA QuietStep ==
    ASSUME Inv, FilesInOrder, UNCHANGED <<quotes, args, dtFirst, recNum, kept>>,
           NEW s \in PrintOpen \cup {io}, pc # "idle",
           io' \in Streams, io'.files = s.files, pc' \in {"idle", "send", "wait"},
           pc' # "idle" => io' = s, result' \in BOOLEAN,
           whole' \in BOOLEAN, whole' => whole
    PROVE  Inv' /\ FilesInOrder' /\ (kept => Stored' = Stored)
<1> USE HistoryAssumption
<1>1. /\ s = io \/ (recNum = 0 /\ file \in Files /\ s.files \in {io.files, [io.files EXCEPT ![file] = <<>>]})
      /\ kept => s = io
  BY StreamOpened DEF Inv, StreamInv
<1>2. TypeOK'
  BY DEF Inv, TypeOK, Streams, args
<1>3. BoundsInv'
  BY DEF Inv, BoundsInv, args
<1>4. FilesInOrder'
  <2>1. ASSUME NEW f \in Files PROVE io'.files[f] = io.files[f] \/ io'.files[f] = <<>>
    BY <1>1 DEF Inv, TypeOK
  <2>2. InOrder(<<>>)
    BY DEF InOrder
  <2> QED BY <2>1, <2>2 DEF FilesInOrder, InOrder
<1>5. kept => Stored' = Stored
  BY <1>1 DEF Stored, args
<1>6. StreamInv'
  <2>1. kept => Newest' = Newest
    BY DEF Newest, args
  <2>2. kept /\ pc' # "idle" => io' = io
    BY <1>1
  <2>3. recNum > 0 /\ pc' # "idle" => io' = io
    BY <1>1 DEF Inv, TypeOK
  <2> QED BY <1>5, <2>1, <2>2, <2>3 DEF Inv, StreamInv, args
<1> QED BY <1>2, <1>3, <1>4, <1>5, <1>6 DEF Inv

\* The header alone is a beginning of a file.
LEMMA HeaderAlone ==
    /\ <<Header>> \in Seq(Dates \cup {Header}) /\ <<Header>> # <<>>
    /\ InOrder(<<Header>>)
    /\ \A bound : \A i \in 2 .. Len(<<Header>>) : <<Header>>[i] >= bound
    /\ ToSet(<<Header>>) \ {Header} = {}
BY DEF InOrder, ToSet

\* A page keeps the invariant, and moves the bound down.
LEMMA PageStep ==
    ASSUME Inv, FilesInOrder, PageRows
    PROVE  /\ Inv' /\ FilesInOrder'
           /\ dtFrom <= dtFirst' /\ dtFirst' < dtFirst /\ recNum' > 0
           /\ kept' \in (IF recNum = 0 THEN BOOLEAN ELSE {kept})
           /\ whole' => (file # NoFile => kept')
<1> USE HistoryAssumption
<1>1. PICK page \in SUBSET Dates :
        /\ page = Page(dtFrom, dtFirst) /\ page # {}
        /\ dtFirst - Oldest(page) > Eps /\ dtFirst' = Oldest(page)
        /\ recNum' = recNum + Cardinality(page)
        /\ io' \in Streams /\ pc' \in {"idle", "send"} /\ result' \in BOOLEAN
        /\ whole' = (whole /\ (file # NoFile => kept'))
        /\ kept' \in (IF recNum = 0 THEN BOOLEAN ELSE {kept})
        /\ ~kept' => io'.files = io.files /\ (pc' # "idle" /\ file # NoFile => io'.fail)
        /\ kept' =>
             /\ file \in Files
             /\ pc' # "idle" => io'.open = file /\ ~io'.fail
             /\ LET before == IF recNum = 0 THEN <<Header>> ELSE io.files[file]
                IN  io'.files = [io.files EXCEPT ![file] = before \o Rows(page)]
  BY PageEffect
<1> DEFINE o == Oldest(page)
<1>2. UNCHANGED <<quotes, dtFrom, dtTo, file>> /\ pc = "wait"
  BY DEF PageRows, args
<1>3. /\ page \subseteq Int /\ IsFiniteSet(page)
      /\ \A q \in page : q \in quotes /\ q \in Dates /\ dtFrom <= q /\ q <= dtFirst
      /\ o \in page /\ \A q \in page : o <= q
      /\ \A q \in quotes : o <= q /\ q <= dtFirst => q \in page
      /\ Cardinality(page) \in 1 .. dtFirst - o + 1
  BY <1>1, PageIsUpward DEF Inv, TypeOK
<1>4. o \in Dates /\ dtFrom <= o /\ o < dtFirst /\ dtFirst' = o
  BY <1>1, <1>3 DEF Inv, TypeOK, Dates
<1>5. /\ recNum' \in Nat /\ recNum' > 0 /\ recNum' <= 2 * (dtTo - dtFirst')
      /\ dtFirst' <= dtTo /\ dtFirst' # dtTo
  BY <1>1, <1>3, <1>4 DEF Inv, TypeOK, BoundsInv, Dates
<1>6. BoundsInv'
  BY <1>2, <1>4, <1>5 DEF BoundsInv
<1>7. TypeOK'
  <2>1. recNum' \in 0 .. 2 * (MaxDate + 1)
    BY <1>4, <1>5 DEF Inv, TypeOK, Dates
  <2>2. kept' \in BOOLEAN
    BY <1>1 DEF Inv, TypeOK
  <2> QED BY <1>1, <1>2, <1>4, <2>1, <2>2 DEF Inv, TypeOK, Streams
<1>8. CASE ~kept'
  <2>1. FilesInOrder'
    BY <1>1, <1>8 DEF FilesInOrder
  <2>2. StreamInv'
    BY <1>1, <1>2, <1>8 DEF StreamInv
  <2> QED BY <1>1, <1>2, <1>4, <1>5, <1>6, <1>7, <2>1, <2>2 DEF Inv
<1>9. CASE kept'
  <2> DEFINE before == IF recNum = 0 THEN <<Header>> ELSE io.files[file]
             all == before \o Rows(page)
  <2>1. file \in Files /\ (recNum # 0 => kept)
    BY <1>1, <1>9
  <2>2. /\ before \in Seq(Dates \cup {Header}) /\ before # <<>> /\ InOrder(before)
        /\ \A i \in 2 .. Len(before) : before[i] >= dtFirst
    <3>1. CASE recNum = 0
      BY <3>1, HeaderAlone
    <3>2. CASE recNum # 0
      BY <1>2, <2>1, <3>2 DEF Inv, TypeOK, StreamInv, FilesInOrder, InOrder
    <3> QED BY <3>1, <3>2
  <2>3. ToSet(before) \ {Header} =
          IF recNum = 0 THEN {} ELSE {q \in quotes : dtFirst <= q /\ q <= dtTo}
    <3>1. CASE recNum = 0
      BY <3>1, HeaderAlone
    <3>2. CASE recNum # 0
      BY <1>2, <2>1, <3>2 DEF Inv, StreamInv, Stored, Newest
    <3> QED BY <3>1, <3>2
  <2>4. dtFirst \in Dates /\ o \in Int /\ o <= dtFirst
    BY <1>4 DEF Inv, TypeOK, Dates
  <2> HIDE DEF before, o
  <2>5. /\ all \in Seq(Dates \cup {Header}) /\ all # <<>> /\ InOrder(all)
        /\ \A i \in 2 .. Len(all) : all[i] >= o
        /\ ToSet(all) \ {Header} = (ToSet(before) \ {Header}) \cup page
    BY <1>3, <2>2, <2>4, RowsBelow
  <2>6. io'.files = [io.files EXCEPT ![file] = all]
    BY <1>1, <1>9 DEF before
  <2> HIDE DEF all
  <2>7. io'.files[file] = all /\ \A f \in Files \ {file} : io'.files[f] = io.files[f]
    BY <2>1, <2>6 DEF Inv, TypeOK
  <2>8. FilesInOrder'
    BY <2>5, <2>7 DEF FilesInOrder, InOrder
  <2>9. Stored' = Newest'
    <3>1. Stored' = (ToSet(before) \ {Header}) \cup page
      BY <1>2, <2>1, <2>5, <2>7 DEF Stored
    <3>2. Newest' = {q \in quotes : o <= q /\ q <= dtTo}
      BY <1>2, <1>4 DEF Newest
    <3>3. \A q \in quotes : q \in Int
      BY DEF Inv, TypeOK, Dates
    <3>4. dtFirst \in Int /\ dtTo \in Int /\ o \in Int /\ o < dtFirst /\ dtFirst <= dtTo
      BY <1>4 DEF Inv, TypeOK, BoundsInv, Dates, o
    <3>5. recNum = 0 => dtFirst = dtTo
      BY <1>2 DEF Inv, BoundsInv
    <3>6. \A q \in quotes : (o <= q /\ q <= dtTo)
              <=> q \in page \/ (recNum # 0 /\ dtFirst <= q /\ q <= dtTo)
      BY <1>3, <3>3, <3>4, <3>5 DEF o
    <3>7. \A q \in page : q \in quotes
      BY <1>3
    <3> QED BY <2>3, <3>1, <3>2, <3>6, <3>7
  <2>10. StreamInv'
    BY <1>1, <1>2, <1>4, <1>5, <1>9, <2>1, <2>5, <2>7, <2>9 DEF StreamInv, o
  <2> QED BY <1>1, <1>2, <1>4, <1>5, <1>6, <1>7, <2>8, <2>10 DEF Inv
<1> QED BY <1>8, <1>9

-----------------------------------------------------------------------------
\* The steps by which a call begins, or refuses to
LEMMA IdleStep ==
    ASSUME Inv, FilesInOrder, pc = "idle",
           \/ NoRequestFactory \/ Refuse
           \/ \E from, to \in Dates, f \in Files \cup {NoFile} : Start(from, to, f)
    PROVE  Inv' /\ FilesInOrder' /\ UNCHANGED <<quotes, io>>
<1> USE HistoryAssumption
<1>1. UNCHANGED <<quotes, io>>
  BY DEF NoRequestFactory, Refuse, Start
<1>2. FilesInOrder'
  BY <1>1 DEF FilesInOrder
<1>3. CASE NoRequestFactory \/ Refuse
  <2>1. UNCHANGED <<quotes, pc, dtFrom, dtTo, file, dtFirst, io, kept, whole>>
        /\ recNum' \in {0, recNum} /\ result' = FALSE
    BY <1>3 DEF NoRequestFactory, Refuse, args, past
  <2>2. TypeOK'
    <3>1. recNum' \in 0 .. 2 * (MaxDate + 1)
      BY <2>1 DEF Inv, TypeOK
    <3>2. result' \in BOOLEAN
      BY <2>1
    <3> QED BY <2>1, <3>1, <3>2 DEF Inv, TypeOK
  <2>3. BoundsInv'
    BY <2>1 DEF Inv, BoundsInv, TypeOK, Dates
  <2>4. StreamInv'
    BY <2>1 DEF Inv, StreamInv, Stored, Newest
  <2> QED BY <1>1, <1>2, <2>2, <2>3, <2>4 DEF Inv
<1>4. ASSUME NEW from \in Dates, NEW to \in Dates, NEW f \in Files \cup {NoFile},
             Start(from, to, f)
      PROVE  Inv'
  <2>1. TypeOK'
    <3>1. recNum' \in 0 .. 2 * (MaxDate + 1)
      BY <1>4 DEF Start
    <3>2. kept' \in BOOLEAN /\ whole' \in BOOLEAN
      BY <1>4 DEF Start
    <3> QED BY <1>4, <3>1, <3>2 DEF Inv, TypeOK, Start
  <2>2. BoundsInv'
    BY <1>4 DEF BoundsInv, Start, Dates
  <2>3. StreamInv'
    BY <1>4 DEF StreamInv, Start
  <2> QED BY <2>1, <2>2, <2>3 DEF Inv
<1> QED BY <1>1, <1>2, <1>3, <1>4

\* The steps of the loop other than a page
LEMMA LoopStep ==
    ASSUME Inv, FilesInOrder,
           SendRequest \/ PageTimeout \/ PageFailed \/ PageUnreadable \/ PageEnd
    PROVE  /\ Inv' /\ FilesInOrder' /\ (kept => Stored' = Stored)
           /\ UNCHANGED <<quotes, args, dtFirst, recNum, kept>> /\ pc # "idle"
<1>1. UNCHANGED <<quotes, args, dtFirst, recNum, kept>> /\ pc # "idle"
  BY DEF SendRequest, PageTimeout, PageFailed, PageUnreadable, PageEnd, past
<1>2. io \in Streams
  BY DEF Inv, TypeOK, Streams
<1>3. CASE SendRequest \/ PageTimeout
  <2>0. result \in BOOLEAN /\ whole \in BOOLEAN
    BY DEF Inv, TypeOK
  <2>1. /\ io' = io /\ pc' \in {"idle", "wait"} /\ result' \in BOOLEAN
        /\ whole' \in BOOLEAN /\ (whole' => whole)
    <3>1. CASE SendRequest  BY <2>0, <3>1 DEF SendRequest, past
    <3>2. CASE PageTimeout  BY <3>2 DEF PageTimeout
    <3> QED BY <1>3, <3>1, <3>2
  <2> QED BY <1>1, <1>2, <2>1, QuietStep
<1>4. CASE PageFailed \/ PageEnd
  <2>0. whole \in BOOLEAN
    BY DEF Inv, TypeOK
  <2>1. Return(io, recNum) /\ whole' \in BOOLEAN /\ (whole' => whole)
    <3>1. CASE PageFailed  BY <3>1 DEF PageFailed
    <3>2. CASE PageEnd  BY <2>0, <3>2 DEF PageEnd, past
    <3> QED BY <1>4, <3>1, <3>2
  <2>2. /\ io' \in Streams /\ io'.files = io.files
        /\ pc' \in {"idle", "send"} /\ result' \in BOOLEAN
        /\ pc' # "idle" => io' = io
    BY <1>2, <2>1, LoopEnd DEF Inv
  <2> QED BY <1>1, <2>1, <2>2, QuietStep
<1>5. CASE PageUnreadable
  <2>1. PICK s \in PrintOpen : LoopOn(s, dtFirst, recNum)
    BY <1>5 DEF PageUnreadable
  <2>2. s \in Streams
    BY StreamOpened DEF Inv
  <2>3. /\ io' \in Streams /\ io'.files = s.files
        /\ pc' \in {"idle", "send"} /\ result' \in BOOLEAN
        /\ pc' # "idle" => io' = s
    BY <2>1, <2>2, LoopEnd DEF Inv
  <2>4. whole' = FALSE
    BY <1>5 DEF PageUnreadable
  <2> QED BY <1>1, <2>3, <2>4, QuietStep
<1> QED BY <1>3, <1>4, <1>5, <1>1

LEMMA InvInit == Init => Inv /\ FilesInOrder
<1> SUFFICES ASSUME Init PROVE Inv /\ FilesInOrder
  OBVIOUS
<1> USE HistoryAssumption
<1>1. <<>> \in Seq(Dates \cup {Header}) /\ InOrder(<<>>)
  BY DEF InOrder
<1>2. TypeOK
  <2>1. 0 \in Dates /\ 0 \in 0 .. 2 * (MaxDate + 1)
    BY DEF Dates
  <2>2. io \in [open : Files \cup {NoFile}, fail : BOOLEAN,
                files : [Files -> Seq(Dates \cup {Header})]]
    BY <1>1 DEF Init
  <2>3. result \in BOOLEAN /\ kept \in BOOLEAN /\ whole \in BOOLEAN
    BY DEF Init
  <2> QED BY <2>1, <2>2, <2>3 DEF Init, TypeOK
<1>3. BoundsInv /\ StreamInv
  BY DEF Init, BoundsInv, StreamInv
<1>4. FilesInOrder
  BY <1>1 DEF Init, FilesInOrder, InOrder
<1> QED BY <1>2, <1>3, <1>4 DEF Inv

LEMMA InvStep == Inv /\ FilesInOrder /\ [Next]_vars => Inv' /\ FilesInOrder'
<1> SUFFICES ASSUME Inv, FilesInOrder, [Next]_vars PROVE Inv' /\ FilesInOrder'
  OBVIOUS
<1>1. CASE PageRows
  BY <1>1, PageStep
<1>2. CASE SendRequest \/ PageTimeout \/ PageFailed \/ PageUnreadable \/ PageEnd
  BY <1>2, LoopStep
<1>3. CASE UNCHANGED vars
  BY <1>3 DEF vars, args, past, Inv, TypeOK, BoundsInv, StreamInv, Stored, Newest,
              FilesInOrder
<1>4. CASE \/ NoRequestFactory \/ Refuse
           \/ \E from, to \in Dates, f \in Files \cup {NoFile} : Start(from, to, f)
  <2>1. pc = "idle"
    BY <1>4 DEF NoRequestFactory, Refuse, Start
  <2> QED BY <1>4, <2>1, IdleStep
<1> QED BY <1>1, <1>2, <1>3, <1>4 DEF Next, Loop

LEMMA InvHolds == SafetySpec => [](Inv /\ FilesInOrder)
BY InvInit, InvStep, PTL DEF SafetySpec

\* Types (TypeOK); in particular the number of rows printed is bounded by the
\* span of the dates, however many pages there are.
THEOREM HistoryTypeOK == SafetySpec => []TypeOK
BY InvHolds, PTL DEF Inv

\* Every file is a header followed by rows from new to old (FilesInOrder).
THEOREM FilesStayInOrder == SafetySpec => []FilesInOrder
BY InvHolds, PTL

-----------------------------------------------------------------------------
\* Each step is a step of what a download promises, or leaves it as it is.
LEMMA PromiseStep ==
    ASSUME Inv, Inv', FilesInOrder, [Next]_vars PROVE [Promise!Next]_(Promise!vars)
<1> USE HistoryAssumption
<1> DEFINE stored  == IF kept THEN Stored ELSE {}
           running == pc # "idle"
<1>1. CASE \/ NoRequestFactory \/ Refuse \/ UNCHANGED vars \/ SendRequest
  <2>1. UNCHANGED <<quotes, dtFrom, dtTo, dtFirst, running, kept, stored>>
    BY <1>1 DEF NoRequestFactory, Refuse, SendRequest, Stored, vars, args, past
  <2> QED BY <2>1 DEF Promise!vars
<1>2. ASSUME NEW from \in Dates, NEW to \in Dates, NEW f \in Files \cup {NoFile},
             Start(from, to, f)
      PROVE  Promise!Next
  <2>1. Promise!Begin
    BY <1>2 DEF Start, Promise!Begin
  <2> QED BY <2>1 DEF Promise!Next
<1>3. CASE PageRows
  <2>1. /\ dtFrom <= dtFirst' /\ dtFirst' < dtFirst
        /\ kept' \in (IF recNum = 0 THEN BOOLEAN ELSE {kept})
    BY <1>3, PageStep
  <2>2. /\ pc = "wait" /\ UNCHANGED <<quotes, dtFrom, dtTo>>
        /\ running' \in BOOLEAN
    BY <1>3 DEF PageRows, args
  <2>3. recNum = 0 <=> dtFirst = dtTo
    BY <2>2 DEF Inv, BoundsInv
  <2>4. kept' \in (IF dtFirst = dtTo THEN BOOLEAN ELSE {kept})
    BY <2>1, <2>3
  <2>5. stored' = IF kept' THEN Promise!Newest' ELSE {}
    BY DEF Inv, StreamInv, Newest, Promise!Newest
  <2>6. dtFirst' \in Dates
    BY DEF Inv, TypeOK
  <2>7. Promise!Page
    BY <2>1, <2>2, <2>4, <2>5, <2>6 DEF Promise!Page
  <2> QED BY <2>7 DEF Promise!Next
<1>4. CASE PageTimeout \/ PageFailed \/ PageUnreadable \/ PageEnd
  <2>1. /\ UNCHANGED <<quotes, dtFrom, dtTo, dtFirst, kept, stored>>
        /\ pc # "idle" /\ pc' \in {"idle", "send", "wait"}
    BY <1>4, LoopStep DEF args, Inv, TypeOK
  <2>2. CASE pc' = "idle"
    <3>1. Promise!End
      BY <2>1, <2>2 DEF Promise!End
    <3> QED BY <3>1 DEF Promise!Next
  <2>3. CASE pc' # "idle"
    BY <2>1, <2>3 DEF Promise!vars
  <2> QED BY <2>2, <2>3
<1> QED BY <1>1, <1>2, <1>3, <1>4 DEF Next, Loop

\* getHistoryPrices implements Download, the promise that the quotes kept are the
\* newest of the period with no gap, however the download ends.
THEOREM DownloadKeepsPromise == SafetySpec => NewestFirst
<1>1. Init => Promise!Init
  <2>1. 0 \in Dates
    BY HistoryAssumption DEF Dates
  <2> QED BY <2>1 DEF Init, Promise!Init
<1> QED BY <1>1, InvHolds, PromiseStep, PTL DEF SafetySpec, NewestFirst, Promise!Spec

-----------------------------------------------------------------------------
\* What is below a bound that is close to c is close to c.
LEMMA BelowBound ==
    ASSUME NEW a \in Int, NEW b \in Int, NEW c \in Int, NEW e \in Int, a < b, b - c <= e
    PROVE  a - c <= e
OBVIOUS

\* Of a last page that brings nothing new, every quote is the same as the bound.
LEMMA LastPage ==
    ASSUME TypeOK, NEW d \in quotes, dtFrom <= d, d <= dtFirst,
           LET page == Page(dtFrom, dtFirst) IN page # {} => dtFirst - Oldest(page) <= Eps
    PROVE  dtFirst - d \in 0 .. Eps
<1> USE HistoryAssumption
<1> PICK page : page = Page(dtFrom, dtFirst)
  OBVIOUS
<1>1. /\ quotes \subseteq Dates /\ dtFrom \in Dates /\ dtFirst \in Dates
      /\ d \in Int /\ dtFirst \in Int /\ Eps \in Int
  BY DEF TypeOK, Dates
<1>2. page # {} => dtFirst - Oldest(page) <= Eps
  OBVIOUS
<1>3. /\ page # {} => Oldest(page) \in page /\ \A r \in page : Oldest(page) <= r
      /\ (page # {} => dtFirst - Oldest(page) <= Eps) =>
           \A r \in quotes : dtFrom <= r /\ r <= dtFirst => r \in page
  BY <1>1, PageIsUpward
<1>4. d \in page
  BY <1>2, <1>3
<1>5. page \subseteq Int
  BY <1>1, PageIsUpward
<1>6. Oldest(page) \in Int /\ Oldest(page) <= d /\ dtFirst - Oldest(page) <= Eps
  BY <1>2, <1>3, <1>4, <1>5
<1> QED BY <1>1, <1>6

\* A download that ends in full order has reached the beginning of its period, or
\* has been told that there is nothing older.
LEMMA CompleteStep ==
    ASSUME Inv, Inv', FilesInOrder, Complete, [Next]_vars PROVE Complete'
<1> USE HistoryAssumption
<1> SUFFICES ASSUME Done', NEW d \in InPeriod',
                    d \notin (IF recNum > 0 THEN Stored ELSE {})'
             PROVE  (d - dtFrom <= Eps \/ dtFirst - d \in 0 .. Eps)'
  BY DEF Complete
<1>1. CASE UNCHANGED vars
  BY <1>1 DEF vars, args, past, Complete, Done, InPeriod, Stored
<1>2. CASE \/ NoRequestFactory \/ Refuse \/ SendRequest
           \/ PageTimeout \/ PageFailed \/ PageUnreadable
  BY <1>2 DEF Done, NoRequestFactory, Refuse, SendRequest, PageTimeout, PageFailed,
              PageUnreadable
<1>3. ASSUME NEW from \in Dates, NEW to \in Dates, NEW f \in Files \cup {NoFile},
             Start(from, to, f)
      PROVE  FALSE
  BY <1>3 DEF Done, Start
<1>4. CASE PageRows
  <2>1. /\ UNCHANGED <<quotes, dtFrom, dtTo, file>> /\ pc' = "idle" /\ file \in Files
    BY <1>4 DEF PageRows, args, Done
  <2>2. kept' /\ recNum' > 0
    BY <1>4, <2>1, PageStep DEF Done
  <2>3. Stored' = Newest'
    BY <2>2 DEF Inv, StreamInv
  <2>4. dtFirst' - dtFrom <= Eps
    BY <1>4, <2>1 DEF PageRows, LoopOn, Inv, TypeOK, Dates
  <2>5. d \in Int /\ d \in quotes' /\ d <= dtTo' /\ dtFrom' <= d
        /\ dtFirst' \in Int /\ dtFrom' \in Int
    BY DEF InPeriod, Inv, TypeOK, Dates
  <2>6. d < dtFirst'
    BY <2>2, <2>3, <2>5 DEF Newest
  <2>7. d - dtFrom' <= Eps
    <3>1. dtFrom' = dtFrom /\ Eps \in Int
      BY <2>1
    <3>2. dtFirst' - dtFrom' <= Eps
      BY <2>4, <3>1
    <3> QED BY <2>5, <2>6, <3>1, <3>2, BelowBound
  <2> QED BY <2>7
<1>5. CASE PageEnd
  <2>1. /\ UNCHANGED <<quotes, dtFrom, dtTo, file, dtFirst, recNum, kept>>
        /\ pc = "wait" /\ file \in Files /\ whole
        /\ LET page == Page(dtFrom, dtFirst) IN page # {} => dtFirst - Oldest(page) <= Eps
    BY <1>5 DEF PageEnd, args, past, Done
  <2>2. d \in quotes /\ dtFrom <= d /\ d <= dtTo /\ d \in Int
    BY <2>1 DEF InPeriod, Inv, TypeOK, Dates
  <2>3. dtFrom \in Int /\ dtTo \in Int /\ dtFirst \in Int
    BY DEF Inv, TypeOK, Dates
  <2>4. d <= dtFirst
    <3>1. CASE recNum = 0
      BY <2>1, <2>2, <3>1 DEF Inv, BoundsInv
    <3>2. CASE recNum > 0
      <4>1. kept /\ Stored' = Newest'
        BY <2>1, <3>2 DEF Inv, StreamInv
      <4> QED BY <2>1, <2>2, <2>3, <3>2, <4>1 DEF Newest
    <3> QED BY <3>1, <3>2 DEF Inv, TypeOK
  <2>5. dtFirst - d \in 0 .. Eps
    BY <2>1, <2>2, <2>4, LastPage DEF Inv
  <2> QED BY <2>1, <2>5
<1> QED BY <1>1, <1>2, <1>3, <1>4, <1>5 DEF Next, Loop

\* A download in which nothing failed has stored its whole period (Complete).
THEOREM DownloadComplete == SafetySpec => []Complete
<1>1. Init => Complete
  BY DEF Init, Complete, Done
<1> QED BY <1>1, InvHolds, CompleteStep, PTL DEF SafetySpec

-----------------------------------------------------------------------------
\* If no call has timed out, the stream is closed between the calls and until the
\* first page, and what has been printed went to the file.
ClosedInv ==
    /\ pc = "idle" \/ recNum = 0 => io.open = NoFile
    /\ pc # "idle" /\ recNum > 0 /\ file \in Files => kept
    /\ OutputFile

\* The call returns and closes the stream if it has printed anything.
LEMMA ReturnCloses ==
    ASSUME TypeOK, NEW s \in Streams, NEW printed \in Nat, Return(s, printed),
           printed = 0 => s.open = NoFile
    PROVE  pc' = "idle" /\ io'.open = NoFile /\ io'.files = s.files
<1>1. Close(s).open = NoFile /\ Close(s).files = s.files
  BY DEF Close, Streams
<1> QED BY <1>1 DEF Return

LEMMA ClosedStep ==
    ASSUME ~MayRefuse, ~MayLackFactory, Inv, FilesInOrder, ClosedInv,
           [Next /\ ~PageTimeout]_vars
    PROVE  ClosedInv'
<1> USE HistoryAssumption
<1>1. io \in Streams /\ recNum \in Nat
  BY DEF Inv, TypeOK, Streams
<1>2. CASE NoRequestFactory \/ Refuse
  BY <1>2 DEF NoRequestFactory, Refuse, ClosedInv, OutputFile, args, past
<1>3. ASSUME NEW from \in Dates, NEW to \in Dates, NEW f \in Files \cup {NoFile},
             Start(from, to, f)
      PROVE  ClosedInv'
  BY <1>3 DEF Start, ClosedInv, OutputFile
<1>4. CASE SendRequest
  BY <1>4 DEF SendRequest, ClosedInv, OutputFile, args, past
<1>5. CASE PageFailed \/ PageEnd
  <2>1. /\ pc = "wait" /\ Return(io, recNum) /\ UNCHANGED <<file, recNum, kept>>
    BY <1>5 DEF PageFailed, PageEnd, args, past
  <2>2. pc' = "idle" /\ io'.open = NoFile /\ io'.files = io.files
    BY <1>1, <2>1, ReturnCloses DEF ClosedInv, Inv
  <2>3. recNum > 0 /\ file \in Files => io.files[file] # <<>>
    BY <2>1 DEF ClosedInv, Inv, StreamInv
  <2> QED BY <2>1, <2>2, <2>3 DEF ClosedInv, OutputFile
<1>6. CASE PageRows
  <2>1. PICK page \in SUBSET Dates :
          /\ page = Page(dtFrom, dtFirst) /\ page # {}
          /\ recNum' = recNum + Cardinality(page)
          /\ kept' =>
               /\ file \in Files
               /\ LET before == IF recNum = 0 THEN <<Header>> ELSE io.files[file]
                  IN  io'.files = [io.files EXCEPT ![file] = before \o Rows(page)]
    BY <1>6, PageEffect
  <2>2. recNum' \in Nat /\ recNum' > 0
    <3>1. page \subseteq Int /\ IsFiniteSet(page)
      BY <2>1, PageIsUpward DEF Inv, TypeOK
    <3>2. Cardinality(page) \in Nat \ {0}
      BY <2>1, <3>1, FS_CardinalityType, FS_EmptySet
    <3> QED BY <1>1, <2>1, <3>2
  <2>3. PICK s \in PrintOpen :
          /\ kept' = (file # NoFile /\ s.open = file /\ ~s.fail)
          /\ LoopOn(Printed(s, page), Oldest(page), recNum')
    BY <1>6, <2>1 DEF PageRows
  <2>4. file \in Files => kept'
    <3>1. CASE file \in Files /\ recNum = 0
      <4>1. io.open = NoFile /\ file # NoFile
        BY <3>1 DEF ClosedInv
      <4>2. s \in Open(io, file)
        BY <3>1, <4>1 DEF PrintOpen
      <4>3. s = [open |-> file, fail |-> FALSE, files |-> [io.files EXCEPT ![file] = <<>>]]
        BY <4>1, <4>2 DEF Open
      <4> QED BY <2>3, <4>1, <4>3
    <3>2. CASE file \in Files /\ recNum # 0
      <4>1. kept /\ pc # "idle"
        BY <1>1, <1>6, <3>2 DEF ClosedInv, PageRows
      <4>2. kept' \in (IF recNum = 0 THEN BOOLEAN ELSE {kept})
        BY <1>6, PageEffect
      <4> QED BY <3>2, <4>1, <4>2
    <3> QED BY <3>1, <3>2
  <2>5. file' = file
    BY <1>6 DEF PageRows, args
  <2>6. pc' = "idle" => io'.open = NoFile
    <3> DEFINE p == Printed(s, page)
    <3>1. s \in Streams
      BY StreamOpened DEF Inv
    <3>2. p = s \/ \E files : p = [s EXCEPT !.files = files]
      BY DEF Printed, Write
    <3>3. Close(p).open = NoFile
      BY <3>1, <3>2 DEF Close, Streams
    <3> HIDE DEF p
    <3>4. pc' = "idle" => io' = Close(p)
      BY <2>2, <2>3 DEF p, LoopOn, Return
    <3> QED BY <3>3, <3>4
  <2>7. file \in Files => io'.files[file] # <<>>
    <3> SUFFICES ASSUME file \in Files PROVE io'.files[file] # <<>>
      OBVIOUS
    <3> DEFINE before == IF recNum = 0 THEN <<Header>> ELSE io.files[file]
    <3>1. before # <<>> /\ before \in Seq(Dates \cup {Header})
      <4>1. recNum # 0 => io.files[file] # <<>>
        BY <1>1, <1>6 DEF ClosedInv, Inv, StreamInv, PageRows
      <4>2. io.files[file] \in Seq(Dates \cup {Header})
        BY <1>1 DEF Streams
      <4> QED BY <4>1, <4>2, HeaderAlone
    <3>2. page \subseteq Int /\ IsFiniteSet(page)
      BY <2>1, PageIsUpward DEF Inv, TypeOK
    <3>3. Rows(page) \in Seq(Dates \cup {Header})
      <4>1. Rows(page) \in Seq(page)
        BY <3>2, RowsOfPage
      <4> QED BY <2>1, <4>1
    <3> HIDE DEF before
    <3>4. before \o Rows(page) # <<>>
      BY <3>1, <3>3
    <3>5. io'.files[file] = before \o Rows(page)
      BY <1>1, <2>1, <2>4 DEF before, Streams
    <3> QED BY <3>4, <3>5
  <2> QED BY <2>2, <2>4, <2>5, <2>6, <2>7 DEF ClosedInv, OutputFile
<1>7. ~PageUnreadable
  BY DEF PageUnreadable
<1>8. CASE UNCHANGED vars
  BY <1>8 DEF ClosedInv, OutputFile, vars, args, past
<1> QED BY <1>2, <1>3, <1>4, <1>5, <1>6, <1>7, <1>8 DEF Next, Loop

\* FC_histData.m:14 is right as long as no file refuses to be opened, responses can
\* be read, and no download has ended by a timeout: the stream that a timeout leaves
\* open is all that OutputFile fails by.
THEOREM OutputWithoutTimeout ==
    ASSUME ~MayRefuse, ~MayLackFactory
    PROVE  Init /\ [][Next /\ ~PageTimeout]_vars => []OutputFile
<1>1. Init => ClosedInv
  BY DEF Init, ClosedInv, OutputFile
<1>2. [Next /\ ~PageTimeout]_vars => [Next]_vars
  OBVIOUS
<1>3. ClosedInv => OutputFile
  BY DEF ClosedInv
<1> QED BY <1>1, <1>2, <1>3, InvInit, InvStep, ClosedStep, PTL
=============================================================================
