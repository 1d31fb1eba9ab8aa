----------------------------- MODULE PriceStream -----------------------------
(***************************************************************************)
(* Real-time prices: getRealTimePrices and stopPrices write the name of an *)
(* instrument into ResponseListener::mInstrument on the MATLAB thread,     *)
(* while onTablesUpdates reads it on the library's, with no lock: once to  *)
(* see whether prices are wanted at all, and then again for every offer of *)
(* the update, because printOffers is given a pointer into the string.     *)
(*                                                                         *)
(* Names are shorter than the buffer inside std::string (16 bytes), so     *)
(* that the pointer stays valid.  What is read while a name is assigned is *)
(* the old name, the new one, or a mixture of its characters and others    *)
(* that were in the buffer: any name, or none.                             *)
(***************************************************************************)
EXTENDS Integers, Sequences, SequencesExt

CONSTANTS
    Instruments,
    Empty,           \* the empty name: no prices
    Mixture,         \* what is read is neither a name nor empty
    NoWrite,
    MaxRows          \* bound: offers in an update

ASSUME PriceAssumption ==
    /\ Empty \notin Instruments /\ Mixture \notin Instruments \cup {Empty}
    /\ NoWrite \notin Instruments \cup {Empty}
    /\ MaxRows \in Nat

Names == Instruments \cup {Empty}

VARIABLES
    mInstrument,
    writing,         \* the name setInstrument is assigning, or NoWrite
    update,          \* offers of the last update whose handler was called
    seen,            \* how many of its offers have been dealt with
    out,             \* those that have been printed, by their places in it
    disturbed        \* history: setInstrument was at work during the handler

vars == <<mInstrument, writing, update, seen, out, disturbed>>

\* A type invariant.
TypeOK ==
    /\ mInstrument \in Names
    /\ writing \in Names \cup {NoWrite}
    /\ update \in Seq(Instruments)
    /\ seen \in 0 .. Len(update)
    /\ out \in Seq(1 .. seen) /\ Len(out) <= seen
    /\ disturbed \in BOOLEAN

Init ==
    /\ mInstrument = Empty
    /\ writing = NoWrite
    /\ update = <<>> /\ seen = 0 /\ out = <<>>
    /\ disturbed = FALSE

-----------------------------------------------------------------------------
\* The MATLAB thread

\* getRealTimePrices of an instrument, or stopPrices
SetInstrument(name) ==
    /\ writing = NoWrite
    /\ writing' = name
    /\ disturbed' = TRUE
    /\ UNCHANGED <<mInstrument, update, seen, out>>

\* The assignment ends, and with it stopPrices.
Assigned ==
    /\ writing # NoWrite
    /\ mInstrument' = writing
    /\ writing' = NoWrite
    /\ UNCHANGED <<update, seen, out, disturbed>>

-----------------------------------------------------------------------------
\* The library's thread

Readable ==
    CASE writing \in {NoWrite, mInstrument} -> {mInstrument}
      [] writing = Empty /\ mInstrument # Empty -> {mInstrument, Empty}
      [] OTHER -> {mInstrument, writing, Mixture} \cup Instruments

\* Mutant: the handler does not ask whether prices are wanted.
OnTablesUpdatesAlways(offers) ==
    /\ seen = Len(update)
    /\ update' = offers
    /\ seen' = 0
    /\ out' = <<>>
    /\ disturbed' = (writing # NoWrite)
    /\ UNCHANGED <<mInstrument, writing>>

\* onTablesUpdates is called, and calls printOffers if there is a name.
OnTablesUpdates(offers) ==
    /\ seen = Len(update)
    /\ update' = offers
    /\ \E name \in Readable : seen' = IF name = Empty THEN Len(offers) ELSE 0
    /\ out' = <<>>
    /\ disturbed' = (writing # NoWrite)
    /\ UNCHANGED <<mInstrument, writing>>

\* Mutant: a row is printed without being taken off the update.
PrintOfferTwice ==
    /\ seen < Len(update)
    /\ \E name \in Readable :
         out' = IF name \in {Empty, update[seen + 1]} THEN Append(out, seen + 1) ELSE out
    /\ seen' \in {seen, seen + 1}
    /\ UNCHANGED <<mInstrument, writing, update, disturbed>>

\* One round of printOffers: an empty name matches every offer.
PrintOffer ==
    /\ seen < Len(update)
    /\ \E name \in Readable :
         out' = IF name \in {Empty, update[seen + 1]} THEN Append(out, seen + 1) ELSE out
    /\ seen' = seen + 1
    /\ UNCHANGED <<mInstrument, writing, update, disturbed>>

-----------------------------------------------------------------------------
Next ==
    \/ \E name \in Names : SetInstrument(name)
    \/ Assigned
    \/ \E offers \in SeqOf(Instruments, MaxRows) : OnTablesUpdates(offers)
    \/ PrintOffer

Spec == Init /\ [][Next]_vars

-----------------------------------------------------------------------------
\* A handler during which mInstrument is left alone prints the offers of the
\* instrument asked for, all of them, in their order, and nothing else; after
\* stopPrices has returned, the handlers called next print nothing.
PrintsWhatIsAsked ==
    ~ disturbed =>
      /\ \A i, j \in DOMAIN out : i < j => out[i] < out[j]
      /\ {out[i] : i \in DOMAIN out} = {k \in 1 .. seen : update[k] = mInstrument}

\* FC_prices.m:12: "to stop real time prices run FC_pricesStop.m".  Once
\* stopPrices has returned, no price is printed.
StopStops ==
    [][mInstrument = Empty /\ writing = NoWrite => out' \in {out, <<>>}]_vars
=============================================================================
