-------------------------- MODULE PriceStreamProofs --------------------------
(***************************************************************************)
(* PriceStream for any instruments and updates of any length.              *)
(*                                                                         *)
(* A handler that is not disturbed reads one and the same name whenever it *)
(* reads mInstrument (OneName); it has stopped at once if that is empty.   *)
(***************************************************************************)
EXTENDS PriceStream, TLAPS

\* While nothing disturbs the handler, no assignment is under way, and an update
\* is only gone through if an instrument is asked for.
OneName ==
    ~ disturbed => /\ writing = NoWrite
                   /\ seen < Len(update) => mInstrument \in Instruments

StreamInv == TypeOK /\ OneName /\ PrintsWhatIsAsked

-----------------------------------------------------------------------------
LEMMA TypeInit == Init => TypeOK
<1> USE PriceAssumption
<1>1. <<>> \in Seq(Instruments) /\ <<>> \in Seq(1 .. 0) /\ Len(<<>>) = 0
  OBVIOUS
<1> SUFFICES ASSUME Init PROVE TypeOK
  OBVIOUS
<1>2. /\ update = <<>> /\ out = <<>> /\ seen = 0 /\ mInstrument = Empty /\ writing = NoWrite
      /\ disturbed = FALSE
  BY DEF Init
<1>3. disturbed \in BOOLEAN
  BY <1>2
<1>4. update \in Seq(Instruments) /\ seen \in 0 .. Len(update)
  BY <1>1, <1>2
<1>5. out \in Seq(1 .. seen) /\ Len(out) <= seen
  BY <1>1, <1>2
<1>6. mInstrument \in Names /\ writing \in Names \cup {NoWrite}
  BY <1>2 DEF Names
<1> QED BY <1>3, <1>4, <1>5, <1>6 DEF TypeOK

\* Every step keeps the types.
LEMMA TypeStep == ASSUME TypeOK, [Next]_vars PROVE TypeOK'
<1> USE PriceAssumption DEF TypeOK
<1>1. ASSUME NEW name \in Names, SetInstrument(name) PROVE TypeOK'
  BY <1>1 DEF SetInstrument
<1>2. CASE Assigned
  BY <1>2 DEF Assigned
<1>3. ASSUME NEW offers \in SeqOf(Instruments, MaxRows), OnTablesUpdates(offers)
      PROVE  TypeOK'
  <2>1. offers \in Seq(Instruments)
    BY DEF SeqOf
  <2>2. Len(offers) \in Nat /\ seen' \in 0 .. Len(offers) /\ update' = offers
    BY <1>3, <2>1 DEF OnTablesUpdates
  <2>3. out' = <<>> /\ out' \in Seq(1 .. seen') /\ Len(out') = 0
    BY <1>3 DEF OnTablesUpdates
  <2>4. disturbed' \in BOOLEAN /\ mInstrument' \in Names /\ writing' \in Names \cup {NoWrite}
    BY <1>3 DEF OnTablesUpdates
  <2> QED BY <2>1, <2>2, <2>3, <2>4
<1>4. CASE PrintOffer
  <2>1. /\ seen' = seen + 1 /\ seen' \in 0 .. Len(update)
        /\ UNCHANGED <<mInstrument, writing, update, disturbed>>
    BY <1>4 DEF PrintOffer
  <2>2. out \in Seq(1 .. seen') /\ seen + 1 \in 1 .. seen'
    BY <2>1
  <2>3. out' \in {out, Append(out, seen + 1)}
    BY <1>4 DEF PrintOffer
  <2>4. Append(out, seen + 1) \in Seq(1 .. seen') /\ Len(Append(out, seen + 1)) = Len(out) + 1
    BY <2>2
  <2>5. out' \in Seq(1 .. seen') /\ Len(out') <= seen'
    BY <2>1, <2>2, <2>3, <2>4
  <2> QED BY <2>1, <2>5
<1>5. CASE UNCHANGED vars
  BY <1>5 DEF vars
<1> QED BY <1>1, <1>2, <1>3, <1>4, <1>5 DEF Next

\* One round of printOffers prints the next offer if it is the one asked for.
LEMMA PrintStep ==
    ASSUME StreamInv, TypeOK', PrintOffer PROVE OneName' /\ PrintsWhatIsAsked'
<1> USE PriceAssumption
<1> SUFFICES ASSUME ~ disturbed PROVE OneName' /\ PrintsWhatIsAsked'
  BY DEF PrintOffer, OneName, PrintsWhatIsAsked
<1>1. /\ seen < Len(update) /\ seen' = seen + 1
      /\ UNCHANGED <<mInstrument, writing, update, disturbed>>
      /\ \E name \in Readable :
           out' = IF name \in {Empty, update[seen + 1]} THEN Append(out, seen + 1) ELSE out
  BY DEF PrintOffer
<1>2. /\ writing = NoWrite /\ mInstrument \in Instruments /\ Readable = {mInstrument}
  BY <1>1 DEF StreamInv, OneName, Readable
<1>3. OneName'
  BY <1>1, <1>2 DEF OneName
<1>4. out' = IF update[seen + 1] = mInstrument THEN Append(out, seen + 1) ELSE out
  BY <1>1, <1>2
<1>5. /\ seen \in Nat /\ out \in Seq(1 .. seen)
      /\ \A i, j \in DOMAIN out : i < j => out[i] < out[j]
      /\ {out[i] : i \in DOMAIN out} = {k \in 1 .. seen : update[k] = mInstrument}
  BY DEF StreamInv, TypeOK, PrintsWhatIsAsked
<1>6. /\ \A i, j \in DOMAIN out' : i < j => out'[i] < out'[j]
      /\ {out'[i] : i \in DOMAIN out'} = {k \in 1 .. seen + 1 : update[k] = mInstrument}
  <2>1. CASE update[seen + 1] # mInstrument
    <3>1. out' = out
      BY <1>4, <2>1
    <3>2. {k \in 1 .. seen + 1 : update[k] = mInstrument}
            = {k \in 1 .. seen : update[k] = mInstrument}
      BY <1>5, <2>1
    <3> QED BY <1>5, <3>1, <3>2
  <2>2. CASE update[seen + 1] = mInstrument
    <3> DEFINE n == Len(out)
    <3>1. /\ n \in Nat /\ DOMAIN out = 1 .. n /\ DOMAIN out' = 1 .. n + 1
          /\ \A i \in 1 .. n : out'[i] = out[i] /\ out[i] \in 1 .. seen
          /\ out'[n + 1] = seen + 1
      BY <1>4, <1>5, <2>2
    <3> HIDE DEF n
    <3>2. \A i, j \in 1 .. n + 1 : i < j => out'[i] < out'[j]
      <4> SUFFICES ASSUME NEW i \in 1 .. n + 1, NEW j \in 1 .. n + 1, i < j
                   PROVE  out'[i] < out'[j]
        OBVIOUS
      <4>1. i \in 1 .. n
        BY <3>1
      <4>2. CASE j \in 1 .. n
        BY <1>5, <3>1, <4>1, <4>2
      <4>3. CASE j = n + 1
        BY <1>5, <3>1, <4>1, <4>3
      <4> QED BY <3>1, <4>2, <4>3
    <3>3. {out'[i] : i \in 1 .. n + 1} = {out[i] : i \in 1 .. n} \cup {seen + 1}
      <4>1. 1 .. n + 1 = (1 .. n) \cup {n + 1}
        BY <3>1
      <4> QED BY <3>1, <4>1
    <3>4. {k \in 1 .. seen + 1 : update[k] = mInstrument}
            = {k \in 1 .. seen : update[k] = mInstrument} \cup {seen + 1}
      BY <1>5, <2>2
    <3> QED BY <1>5, <3>1, <3>2, <3>3, <3>4
  <2> QED BY <2>1, <2>2
<1> QED BY <1>1, <1>3, <1>6 DEF PrintsWhatIsAsked

LEMMA StreamStep == ASSUME StreamInv, TypeOK', [Next]_vars PROVE StreamInv'
<1> USE PriceAssumption
<1>1. ASSUME NEW name \in Names, SetInstrument(name) PROVE OneName' /\ PrintsWhatIsAsked'
  BY <1>1 DEF SetInstrument, OneName, PrintsWhatIsAsked
<1>2. CASE Assigned
  <2>1. disturbed /\ disturbed' = disturbed
    BY <1>2 DEF Assigned, StreamInv, OneName
  <2>2. OneName'
    BY <2>1 DEF OneName
  <2>3. PrintsWhatIsAsked'
    BY <2>1 DEF PrintsWhatIsAsked
  <2> QED BY <2>2, <2>3 DEF StreamInv
<1>3. ASSUME NEW offers \in SeqOf(Instruments, MaxRows), OnTablesUpdates(offers)
      PROVE  OneName' /\ PrintsWhatIsAsked'
  <2> SUFFICES ASSUME ~ disturbed' PROVE OneName' /\ PrintsWhatIsAsked'
    BY DEF OneName, PrintsWhatIsAsked
  <2>1. /\ writing = NoWrite /\ Readable = {mInstrument} /\ mInstrument \in Names
        /\ UNCHANGED <<mInstrument, writing>> /\ update' = offers /\ out' = <<>>
        /\ seen' = IF mInstrument = Empty THEN Len(offers) ELSE 0
    BY <1>3 DEF OnTablesUpdates, Readable, StreamInv, TypeOK
  <2>2. offers \in Seq(Instruments) /\ Len(offers) \in Nat
    BY DEF SeqOf
  <2>3. OneName'
    BY <2>1, <2>2 DEF OneName, Names
  <2>4. {k \in 1 .. seen' : offers[k] = mInstrument} = {}
    <3>1. CASE mInstrument = Empty
      <4>1. \A k \in 1 .. Len(offers) : offers[k] \in Instruments
        BY <2>2
      <4> QED BY <2>1, <3>1, <4>1
    <3>2. CASE mInstrument # Empty
      BY <2>1, <3>2
    <3> QED BY <3>1, <3>2
  <2>5. DOMAIN out' = {}
    BY <2>1
  <2> QED BY <2>1, <2>3, <2>4, <2>5 DEF PrintsWhatIsAsked
<1>4. CASE UNCHANGED vars
  BY <1>4 DEF StreamInv, vars, OneName, PrintsWhatIsAsked
<1> QED BY <1>1, <1>2, <1>3, <1>4, PrintStep DEF Next, StreamInv

-----------------------------------------------------------------------------
\* The inductive invariant of the real-time prices.
THEOREM StreamInvariant == Spec => []StreamInv
<1>1. Init => OneName /\ PrintsWhatIsAsked
  BY DEF Init, OneName, PrintsWhatIsAsked
<1>2. Init => StreamInv
  BY <1>1, TypeInit DEF StreamInv
<1>3. StreamInv /\ [Next]_vars => StreamInv'
  BY TypeStep, StreamStep DEF StreamInv
<1> QED BY <1>2, <1>3, PTL DEF Spec

\* Type correctness (TypeOK).
THEOREM PriceTypeOK == Spec => []TypeOK
  BY StreamInvariant, PTL DEF StreamInv

\* A handler that no call disturbs prints the offers asked for and no others
\* (PrintsWhatIsAsked), however long the update.
THEOREM HandlerPrintsWhatIsAsked == Spec => []PrintsWhatIsAsked
  BY StreamInvariant, PTL DEF StreamInv

\* FC_prices.m:12 is right of every update whose handler is called after stopPrices:
\* no price of it is printed.  A handler under way is all that StopStops fails by.
THEOREM StopStopsLaterUpdates ==
    Spec => [][mInstrument = Empty /\ ~ disturbed => out' \in {out, <<>>}]_vars
<1>1. StreamInv /\ [Next]_vars =>
        [mInstrument = Empty /\ ~ disturbed => out' \in {out, <<>>}]_vars
  <2> SUFFICES ASSUME StreamInv, Next, mInstrument = Empty, ~ disturbed
               PROVE  out' \in {out, <<>>}
    OBVIOUS
  <2>1. ~ PrintOffer
    BY PriceAssumption DEF PrintOffer, StreamInv, OneName
  <2> QED BY <2>1 DEF Next, SetInstrument, Assigned, OnTablesUpdates
<1> QED BY <1>1, StreamInvariant, PTL DEF Spec
=============================================================================
