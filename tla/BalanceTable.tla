----------------------------- MODULE BalanceTable -----------------------------
(***************************************************************************)
(* The table accBalance of ResponseListener: a cache of account balances.  *)
(* getAccountBalance, on the MATLAB thread, claims slots and reads them;   *)
(* onTablesUpdates, on the library's callback thread, writes the balances. *)
(* There is no lock: each access to a slot that the other thread may write *)
(* is a step of its own.                                                   *)
(*                                                                         *)
(* An account is named by its numeric id, and 0 is what atoi makes of a    *)
(* name the login table does not know; 0 also marks a free slot.           *)
(***************************************************************************)
EXTENDS Integers

CONSTANTS
    Accounts,      \* account ids of the session
    NSlots,        \* 100 in the code
    Balances,      \* whole balances the server reports
    LoginBalance   \* the Accounts table as loaded at login, a function

ASSUME BalanceAssumption ==
    /\ Accounts \subseteq Nat \ {0}
    /\ NSlots \in Nat \ {0}
    /\ Balances \subseteq Int
    /\ 0 \in Balances
    /\ LoginBalance \in [Accounts -> Balances]

VARIABLES
    accBalance,                     \* slots: id is [i][0], balance is [i][1]
    pc, name, readId, k,            \* MATLAB thread: step, account asked for, id
                                    \*   it was read as, slot (-1 for none)
    result, resultOf,               \* what the last call returned, and whose
                                    \*   balance that is (history)
    cbPc, cbAccount, cbBalance, i,  \* callback thread: step, row, loop index
    last,      \* history: each account's latest update
    owner,     \* history: whose balance each slot holds
    tracked    \* history: accounts that held a slot when an update of theirs began

table    == <<accBalance, owner>>
caller   == <<pc, name, readId, k, result, resultOf>>
callback == <<cbPc, cbAccount, cbBalance, i>>
vars     == <<table, caller, callback, last, tracked>>

Slots == 0 .. NSlots - 1
Ids == Accounts \cup {0}

\* A type invariant.
TypeOK ==
    /\ accBalance \in [Slots -> [id : Ids, balance : Balances]]
    /\ pc \in {"idle", "test", "read"}
    /\ name \in Ids /\ readId \in Ids
    /\ k \in Slots \cup {-1}
    /\ pc = "read" => k \in Slots
    /\ result \in Balances /\ resultOf \in Ids
    /\ cbPc \in {"idle", "own", "free", "write"}
    /\ cbAccount \in Ids
    /\ cbBalance \in Balances
    /\ i \in 0 .. NSlots
    /\ cbPc \in {"free", "write"} => i \in Slots
    /\ last \in [Accounts -> Balances]
    /\ owner \in [Slots -> Ids]
    /\ tracked \subseteq Accounts

Init ==
    /\ accBalance = [s \in Slots |-> [id |-> 0, balance |-> 0]]
    /\ pc = "idle" /\ name = 0 /\ readId = 0 /\ k = -1
    /\ result = 0 /\ resultOf = 0
    /\ cbPc = "idle" /\ cbAccount = 0 /\ cbBalance = 0 /\ i = 0
    /\ last = LoginBalance
    /\ owner = [s \in Slots |-> 0]
    /\ tracked = {}

-----------------------------------------------------------------------------
(* The MATLAB thread: getAccountBalance                                    *)

\* getAccountID returns a pointer to a dead local buffer.  By the time atoi reads
\* it, it holds the id or bytes that are no number; unknown names give "".
ReadIds(a) == {a, 0}

\* The slots with this id, and the lowest of them
Having(id) == {s \in Slots : accBalance[s].id = id}
Lowest(id) == {s \in Having(id) : \A t \in Having(id) : s <= t}

Claim(s, id) == accBalance' = [accBalance EXCEPT ![s].id = id]

\* Mutant: a free slot is claimed although the account has one.
GetAccountBalanceClaims(a) ==
    /\ pc = "idle"
    /\ \E id \in ReadIds(a) :
         /\ readId' = id
         /\ \/ \E s \in Lowest(0) : k' = s /\ Claim(s, id)
            \/ Having(0) = {} /\ k' = -1 /\ UNCHANGED accBalance
    /\ pc' = "test" /\ name' = a
    /\ result' = 0 /\ resultOf' = 0
    /\ UNCHANGED <<callback, last, owner, tracked>>

\* Look the account's slot up, or else claim the first free one, or do without.
\* Only this thread writes the ids, so that the two searches and the claim are
\* one step.
GetAccountBalance(a) ==
    /\ pc = "idle"
    /\ \E id \in ReadIds(a) :
         /\ readId' = id
         /\ \/ \E s \in Lowest(id) : k' = s /\ UNCHANGED accBalance
            \/ Having(id) = {} /\ \E s \in Lowest(0) : k' = s /\ Claim(s, id)
            \/ Having(id) = {} /\ Having(0) = {} /\ k' = -1 /\ UNCHANGED accBalance
    /\ pc' = "test" /\ name' = a
    /\ result' = 0 /\ resultOf' = 0
    /\ UNCHANGED <<callback, last, owner, tracked>>

\* The call returns balance b of account a; its locals are gone.
Return(b, a) ==
    /\ pc' = "idle" /\ result' = b /\ resultOf' = a
    /\ name' = 0 /\ readId' = 0 /\ k' = -1

\* (k >= 0 && accBalance[k][1] == 0): an empty slot is answered from the login
\* table, by name; no slot at all is answered with 0.
TestSlot ==
    /\ pc = "test"
    /\ IF k >= 0 /\ accBalance[k].balance # 0
         THEN pc' = "read" /\ UNCHANGED <<result, resultOf, name, readId, k>>
         ELSE Return(IF k >= 0 /\ name \in Accounts THEN LoginBalance[name] ELSE 0,
                     name)
    /\ UNCHANGED <<table, callback, last, tracked>>

\* Mutant: the balance of the first slot is returned.
ReadSlotFirst ==
    /\ pc = "read"
    /\ Return(accBalance[0].balance, owner[0])
    /\ UNCHANGED <<table, callback, last, tracked>>

\* balance = accBalance[k][1]
ReadSlot ==
    /\ pc = "read"
    /\ Return(accBalance[k].balance, owner[k])
    /\ UNCHANGED <<table, callback, last, tracked>>

-----------------------------------------------------------------------------
(* The callback thread: an Accounts row of onTablesUpdates                 *)

\* The row is read and the loop over the slots starts.
BalanceUpdate(a, b) ==
    /\ cbPc = "idle"
    /\ cbPc' = "own" /\ cbAccount' = a /\ cbBalance' = b /\ i' = 0
    /\ last' = [last EXCEPT ![a] = b]
    /\ tracked' = IF Having(a) = {} THEN tracked ELSE tracked \cup {a}
    /\ UNCHANGED <<table, caller>>

\* Mutant: a slot whose account matches is not written.
TestOwnSkips ==
    /\ cbPc = "own"
    /\ i < NSlots
    /\ IF accBalance[i].id = cbAccount
         THEN i' = i + 1 /\ UNCHANGED cbPc
         ELSE cbPc' = "free" /\ UNCHANGED i
    /\ UNCHANGED <<table, caller, cbAccount, cbBalance, last, tracked>>

\* if (accBalance[i][0] == accId)
TestOwn ==
    /\ cbPc = "own"
    /\ i < NSlots
    /\ cbPc' = IF accBalance[i].id = cbAccount THEN "write" ELSE "free"
    /\ UNCHANGED <<table, caller, cbAccount, cbBalance, i, last, tracked>>

\* Mutant: the loop over the slots advances twice over a slot that is taken.
TestFreeOverruns ==
    /\ cbPc = "free"
    /\ IF accBalance[i].id = 0
         THEN cbPc' = "write" /\ UNCHANGED i
         ELSE cbPc' = "own" /\ i' = i + 2
    /\ UNCHANGED <<table, caller, cbAccount, cbBalance, last, tracked>>

\* else if (accBalance[i][0] == 0)
TestFree ==
    /\ cbPc = "free"
    /\ IF accBalance[i].id = 0
         THEN cbPc' = "write" /\ UNCHANGED i
         ELSE cbPc' = "own" /\ i' = i + 1
    /\ UNCHANGED <<table, caller, cbAccount, cbBalance, last, tracked>>

\* accBalance[i][1] = balance
WriteSlot ==
    /\ cbPc = "write"
    /\ accBalance' = [accBalance EXCEPT ![i].balance = cbBalance]
    /\ owner' = [owner EXCEPT ![i] = cbAccount]
    /\ cbPc' = "own" /\ i' = i + 1
    /\ UNCHANGED <<caller, cbAccount, cbBalance, last, tracked>>

\* The loop ends and the handler goes on to the next row.
FinishUpdate ==
    /\ cbPc = "own"
    /\ i = NSlots
    /\ cbPc' = "idle" /\ cbAccount' = 0 /\ cbBalance' = 0 /\ i' = 0
    /\ UNCHANGED <<table, caller, last, tracked>>

-----------------------------------------------------------------------------
Reading == TestSlot \/ ReadSlot
Updating == TestOwn \/ TestFree \/ WriteSlot \/ FinishUpdate

Next ==
    \/ \E a \in Ids : GetAccountBalance(a)
    \/ Reading
    \/ \E a \in Accounts, b \in Balances : BalanceUpdate(a, b)
    \/ Updating

Spec == Init /\ [][Next]_vars

-----------------------------------------------------------------------------
(* Properties                                                              *)

\* No account ever holds two slots, so that an update cannot reach one and leave
\* a stale one to be found first; and the free slots are the last ones.
OneSlotPerAccount ==
    \A s, t \in Slots : s < t =>
        /\ accBalance[t].id # 0 => accBalance[s].id # 0
        /\ accBalance[t].id # 0 => accBalance[s].id # accBalance[t].id

\* The slot of an account that held it when an update of its own began holds its
\* latest balance, except while an update of that account is being written: what
\* updates of other accounts and claims by the other thread do, cannot undo it.
TrackedSlotIsLatest ==
    \A s \in Slots :
        LET a == accBalance[s].id
        IN  a \in tracked /\ cbAccount # a =>
                accBalance[s].balance = last[a] /\ owner[s] = a

\* getAccountBalance is about to return to its caller.
Returning == pc # "idle" /\ pc' = "idle"

\* A call whose id was read correctly and whose account is tracked returns that
\* account's latest balance, unless an update of it is being written or the
\* latest balance is 0, which the code takes for "not cached".
TrackedAnswerIsLatest ==
    [][Returning /\ readId = name /\ name \in tracked /\ cbAccount # name
         /\ last[name] # 0
         => result' = last[name]]_vars

\* What FC_accBalance.m says of the function ("get Account Balance" of "account
\* number"): a balance other than 0 is one of the account asked for.  Calls that
\* read a wrong id are left aside.
BalanceOfTheAccount ==
    [][Returning /\ readId = name /\ name # 0 /\ result' # 0
         => resultOf' = name]_vars
=============================================================================
