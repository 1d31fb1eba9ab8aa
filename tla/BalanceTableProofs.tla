-------------------------- MODULE BalanceTableProofs --------------------------
(***************************************************************************)
(* Proofs about BalanceTable, for any accounts and any number of slots.    *)
(***************************************************************************)
EXTENDS BalanceTable, TLAPS

-----------------------------------------------------------------------------
(* Types and the claiming of slots                                         *)

LEMMA TypeInit == Init => TypeOK
  BY BalanceAssumption DEF Init, TypeOK, Ids, Slots

LEMMA TypeStep ==
    ASSUME TypeOK, [Next]_vars
    PROVE  TypeOK'
  <1> USE BalanceAssumption DEF TypeOK, Ids, table, caller, callback
  <1>1. ASSUME NEW a \in Ids, GetAccountBalance(a) PROVE TypeOK'
    <2>1. readId' \in Ids
      BY <1>1 DEF GetAccountBalance, ReadIds
    <2>2. /\ k' \in Slots \cup {-1}
          /\ accBalance' \in [Slots -> [id : Ids, balance : Balances]]
      BY <1>1 DEF GetAccountBalance, ReadIds, Claim, Lowest, Having
    <2> QED
      BY <1>1, <2>1, <2>2 DEF GetAccountBalance
  <1>2. ASSUME NEW a \in Accounts, NEW b \in Balances, BalanceUpdate(a, b)
       PROVE  TypeOK'
    BY <1>2 DEF BalanceUpdate
  <1>3. CASE TestSlot
    BY <1>3 DEF TestSlot, Return, Slots
  <1>4. CASE ReadSlot
    BY <1>4 DEF ReadSlot, Return
  <1>5. CASE TestOwn
    BY <1>5 DEF TestOwn, Slots
  <1>6. CASE TestFree
    BY <1>6 DEF TestFree, Slots
  <1>7. CASE WriteSlot
    <2>1. i \in Slots
      BY <1>7 DEF WriteSlot
    <2>3. i + 1 \in 0 .. NSlots
      BY <2>1 DEF Slots
    <2>2. accBalance' \in [Slots -> [id : Ids, balance : Balances]]
      BY <1>7, <2>1 DEF WriteSlot
    <2> QED
      BY <1>7, <2>2, <2>3 DEF WriteSlot
  <1>8. CASE FinishUpdate
    BY <1>8 DEF FinishUpdate
  <1>9. CASE UNCHANGED vars
    BY <1>9 DEF vars
  <1> QED
    BY <1>1, <1>2, <1>3, <1>4, <1>5, <1>6, <1>7, <1>8, <1>9
       DEF Next, Reading, Updating

\* The types of all variables; no access ever misses the table.
THEOREM TypeCorrect == Spec => []TypeOK
  BY TypeInit, TypeStep, PTL DEF Spec

LEMMA OneSlotStep ==
    ASSUME TypeOK, OneSlotPerAccount, [Next]_vars
    PROVE  OneSlotPerAccount'
  <1> USE BalanceAssumption DEF TypeOK, OneSlotPerAccount, table, caller, callback
  <1>1. ASSUME NEW a \in Ids, GetAccountBalance(a) PROVE OneSlotPerAccount'
    <2>1. CASE UNCHANGED accBalance
      BY <2>1
    <2>2. ASSUME NEW id \in ReadIds(a), NEW f \in Lowest(0), Having(id) = {},
                 Claim(f, id)
          PROVE  OneSlotPerAccount'
      <3>1. \A t \in Slots : accBalance[t].id # id
        BY <2>2 DEF Having
      <3>2. \A t \in Slots : accBalance'[t].id = IF t = f THEN id ELSE accBalance[t].id
        BY <2>2 DEF Claim, Lowest, Having
      <3>3. /\ f \in Slots /\ accBalance[f].id = 0
            /\ \A t \in Slots : accBalance[t].id = 0 => f <= t
        BY DEF Lowest, Having
      <3>4. Slots \subseteq Int
        BY DEF Slots
      <3> QED
        BY <3>1, <3>2, <3>3, <3>4
    <2> QED
      BY <1>1, <2>1, <2>2 DEF GetAccountBalance
  <1>2. ASSUME NEW a \in Accounts, NEW b \in Balances, BalanceUpdate(a, b)
       PROVE  OneSlotPerAccount'
    BY <1>2 DEF BalanceUpdate
  <1>3. CASE TestSlot
    BY <1>3 DEF TestSlot, Return
  <1>4. CASE ReadSlot
    BY <1>4 DEF ReadSlot, Return
  <1>5. CASE TestOwn
    BY <1>5 DEF TestOwn
  <1>6. CASE TestFree
    BY <1>6 DEF TestFree
  <1>7. CASE WriteSlot
    BY <1>7 DEF WriteSlot
  <1>8. CASE FinishUpdate
    BY <1>8 DEF FinishUpdate
  <1>9. CASE UNCHANGED vars
    BY <1>9 DEF vars
  <1> QED
    BY <1>1, <1>2, <1>3, <1>4, <1>5, <1>6, <1>7, <1>8, <1>9
       DEF Next, Reading, Updating

\* However calls and updates interleave, no account ever holds two slots and the
\* free slots are the last ones.
THEOREM OneSlot == Spec => []OneSlotPerAccount
  <1>1. Init => OneSlotPerAccount
    BY DEF Init, OneSlotPerAccount
  <1> QED
    BY <1>1, TypeCorrect, OneSlotStep, PTL DEF Spec

-----------------------------------------------------------------------------
(* The balance of a tracked account                                        *)

\* A tracked account keeps its slot.
TrackedHaveSlot == \A a \in tracked : \E s \in Slots : accBalance[s].id = a

\* The handler at work writes the latest balance of its account.
HandlerLatest ==
    /\ cbPc = "idle" => cbAccount = 0
    /\ cbPc # "idle" => cbAccount \in Accounts /\ cbBalance = last[cbAccount]

\* It never passes over the slot of a tracked account of its own, nor is it about
\* to write into the slot of another tracked account.
HandlerOnSlot ==
    /\ cbPc = "free" /\ cbAccount \in tracked => accBalance[i].id # cbAccount
    /\ cbPc = "write" /\ accBalance[i].id \in tracked => accBalance[i].id = cbAccount

\* A tracked account's slot holds its latest balance, unless the handler has still
\* to reach it.
SlotLatest ==
    \A s \in Slots :
        LET a == accBalance[s].id
        IN  a \in tracked /\ (cbAccount # a \/ s < i) =>
                accBalance[s].balance = last[a] /\ owner[s] = a

\* The slot a call works on is its account's, which has none only if it found none.
CallSlot ==
    /\ pc # "idle" /\ k # -1 => accBalance[k].id = readId
    /\ pc # "idle" /\ k = -1 => Having(readId) = {}
    /\ pc = "read" => k # -1

Caching == TrackedHaveSlot /\ HandlerLatest /\ HandlerOnSlot /\ SlotLatest

LEMMA CachingInit == Init => Caching
  BY BalanceAssumption
     DEF Init, Caching, TrackedHaveSlot, HandlerLatest, HandlerOnSlot, SlotLatest

LEMMA CachingStep ==
    ASSUME TypeOK, OneSlotPerAccount, Caching, [Next]_vars
    PROVE  Caching'
  <1> USE BalanceAssumption
      DEF TypeOK, Ids, Caching, TrackedHaveSlot, HandlerLatest, HandlerOnSlot,
          SlotLatest, table, caller, callback
  <1>1. ASSUME NEW a \in Ids, GetAccountBalance(a) PROVE Caching'
    <2>1. CASE UNCHANGED accBalance
      BY <1>1, <2>1 DEF GetAccountBalance
    <2>2. ASSUME NEW id \in ReadIds(a), NEW f \in Lowest(0), Having(id) = {},
                 Claim(f, id)
          PROVE  Caching'
      <3>1. f \in Slots /\ accBalance[f].id = 0
        BY DEF Lowest, Having
      <3>2. \A t \in Slots : accBalance[t].id # id
        BY <2>2 DEF Having
      <3>3. id \notin tracked /\ 0 \notin tracked
        BY <3>2
      <3>4. \A t \in Slots :
              /\ accBalance'[t].id = IF t = f THEN id ELSE accBalance[t].id
              /\ accBalance'[t].balance = accBalance[t].balance
        BY <2>2, <3>1 DEF Claim
      <3>5. UNCHANGED <<callback, last, owner, tracked>>
        BY <1>1 DEF GetAccountBalance
      <3> QED
        BY <3>1, <3>3, <3>4, <3>5
    <2> QED
      BY <1>1, <2>1, <2>2 DEF GetAccountBalance
  <1>2. ASSUME NEW a \in Accounts, NEW b \in Balances, BalanceUpdate(a, b)
       PROVE  Caching'
    BY <1>2 DEF BalanceUpdate, Having, Slots
  <1>3. CASE TestSlot
    BY <1>3 DEF TestSlot, Return
  <1>4. CASE ReadSlot
    BY <1>4 DEF ReadSlot, Return
  <1>5. CASE TestOwn
    BY <1>5 DEF TestOwn, Slots
  <1>6. CASE TestFree
    BY <1>6 DEF TestFree, Slots
  <1>7. CASE WriteSlot
    <2>1. i \in Slots /\ cbPc = "write" /\ i' = i + 1 /\ cbPc' = "own"
      BY <1>7 DEF WriteSlot
    <2>2. /\ accBalance' \in [Slots -> [id : Accounts \cup {0}, balance : Balances]]
          /\ \A t \in Slots :
              /\ accBalance'[t].id = accBalance[t].id
              /\ accBalance'[t].balance = IF t = i THEN cbBalance
                                          ELSE accBalance[t].balance
              /\ owner'[t] = IF t = i THEN cbAccount ELSE owner[t]
      BY <1>7, <2>1 DEF WriteSlot
    <2>3. UNCHANGED <<caller, cbAccount, cbBalance, last, tracked>>
      BY <1>7 DEF WriteSlot
    <2>4. TrackedHaveSlot' /\ HandlerLatest' /\ HandlerOnSlot'
      BY <2>1, <2>2, <2>3
    <2>5. ASSUME NEW s \in Slots, accBalance[s].id \in tracked,
                 cbAccount # accBalance[s].id \/ s < i + 1
          PROVE  /\ accBalance'[s].balance = last[accBalance[s].id]
                 /\ owner'[s] = accBalance[s].id
      <3>1. CASE s = i
        BY <2>1, <2>2, <2>5, <3>1
      <3>2. CASE s # i
        <4>1. cbAccount # accBalance[s].id \/ s < i
          BY <2>1, <2>5, <3>2 DEF Slots
        <4> QED
          BY <2>2, <2>5, <3>2, <4>1
      <3> QED
        BY <3>1, <3>2
    <2>6. SlotLatest'
      BY <2>1, <2>2, <2>3, <2>5
    <2> QED
      BY <2>4, <2>6
  <1>8. CASE FinishUpdate
    BY <1>8 DEF FinishUpdate, Slots
  <1>9. CASE UNCHANGED vars
    BY <1>9 DEF vars
  <1> QED
    BY <1>1, <1>2, <1>3, <1>4, <1>5, <1>6, <1>7, <1>8, <1>9
       DEF Next, Reading, Updating

THEOREM CachingHolds == Spec => []Caching
  BY CachingInit, CachingStep, TypeCorrect, OneSlot, PTL DEF Spec

\* What updates of other accounts and concurrent claims do cannot undo the balance
\* of a tracked account.
THEOREM TrackedLatest == Spec => []TrackedSlotIsLatest
  <1>1. Caching => TrackedSlotIsLatest
    BY DEF Caching, SlotLatest, TrackedSlotIsLatest
  <1> QED
    BY <1>1, CachingHolds, PTL

LEMMA CallSlotStep ==
    ASSUME TypeOK, CallSlot, [Next]_vars
    PROVE  CallSlot'
  <1> USE BalanceAssumption
      DEF TypeOK, CallSlot, Having, table, caller, callback
  <1>1. ASSUME NEW a \in Ids, GetAccountBalance(a) PROVE CallSlot'
    <2>1. -1 \notin Slots
      BY DEF Slots
    <2> QED
      BY <1>1, <2>1 DEF GetAccountBalance, Lowest, Claim
  <1>2. ASSUME NEW a \in Accounts, NEW b \in Balances, BalanceUpdate(a, b)
       PROVE  CallSlot'
    BY <1>2 DEF BalanceUpdate
  <1>3. CASE TestSlot
    BY <1>3 DEF TestSlot, Return
  <1>4. CASE ReadSlot
    BY <1>4 DEF ReadSlot, Return
  <1>5. CASE TestOwn
    BY <1>5 DEF TestOwn
  <1>6. CASE TestFree
    BY <1>6 DEF TestFree
  <1>7. CASE WriteSlot
    BY <1>7 DEF WriteSlot
  <1>8. CASE FinishUpdate
    BY <1>8 DEF FinishUpdate
  <1>9. CASE UNCHANGED vars
    BY <1>9 DEF vars
  <1> QED
    BY <1>1, <1>2, <1>3, <1>4, <1>5, <1>6, <1>7, <1>8, <1>9
       DEF Next, Reading, Updating

LEMMA CallSlotHolds == Spec => []CallSlot
  <1>1. Init => CallSlot
    BY DEF Init, CallSlot
  <1> QED
    BY <1>1, CallSlotStep, TypeCorrect, PTL DEF Spec

\* A correctly read, tracked account is answered with its latest balance.
THEOREM TrackedAnswer == Spec => TrackedAnswerIsLatest
  <1>1. ASSUME TypeOK, Caching, CallSlot, [Next]_vars, Returning, readId = name,
               name \in tracked, cbAccount # name, last[name] # 0
        PROVE  result' = last[name]
    <2>1. k \in Slots /\ accBalance[k].id = name
      BY <1>1 DEF CallSlot, Caching, TrackedHaveSlot, Having, TypeOK, Returning
    <2>2. accBalance[k].balance = last[name]
      BY <1>1, <2>1 DEF Caching, SlotLatest
    <2>3. TestSlot \/ ReadSlot
      BY <1>1 DEF Returning, Next, Reading, Updating, GetAccountBalance,
                  BalanceUpdate, TestOwn, TestFree, WriteSlot, FinishUpdate, vars,
                  caller
    <2>4. k >= 0
      BY <2>1, BalanceAssumption DEF Slots
    <2> QED
      BY <1>1, <2>1, <2>2, <2>3, <2>4 DEF TestSlot, ReadSlot, Return, Returning
  <1>2. TypeOK /\ Caching /\ CallSlot /\ [Next]_vars =>
          [Returning /\ readId = name /\ name \in tracked /\ cbAccount # name
             /\ last[name] # 0 => result' = last[name]]_vars
    BY <1>1
  <1> QED
    BY <1>2, CallSlotHolds, TypeCorrect, CachingHolds, PTL DEF Spec, TrackedAnswerIsLatest

\* FC_accBalance.m:12 is right of every tracked account: the balance it is answered
\* with is one of its own, unless an update of it is being written.  A slot that was
\* not its own when its last update began is all that BalanceOfTheAccount fails by.
THEOREM TrackedAnswerIsOwn ==
    Spec => [][Returning /\ readId = name /\ name \in tracked /\ cbAccount # name
                 => resultOf' = name]_vars
  <1>1. TypeOK /\ Caching /\ CallSlot /\ [Next]_vars =>
          [Returning /\ readId = name /\ name \in tracked /\ cbAccount # name
             => resultOf' = name]_vars
    <2> SUFFICES ASSUME TypeOK, Caching, CallSlot, Next, Returning, readId = name,
                        name \in tracked, cbAccount # name
                 PROVE  resultOf' = name
      OBVIOUS
    <2>1. k \in Slots /\ accBalance[k].id = name
      BY DEF CallSlot, Caching, TrackedHaveSlot, Having, TypeOK, Returning
    <2>2. owner[k] = name
      BY <2>1 DEF Caching, SlotLatest
    <2>3. TestSlot \/ ReadSlot
      BY DEF Returning, Next, Reading, Updating, GetAccountBalance, BalanceUpdate,
             TestOwn, TestFree, WriteSlot, FinishUpdate, caller
    <2> QED
      BY <2>2, <2>3 DEF TestSlot, ReadSlot, Return, Returning
  <1> QED
    BY <1>1, CachingHolds, CallSlotHolds, TypeCorrect, PTL DEF Spec
=============================================================================
