\* The cache of balances: three accounts, two slots, updates racing calls.
SPECIFICATION Spec
CONSTANTS
    Accounts <- MCAccounts
    NSlots = 2
    Balances <- MCBalances
    LoginBalance <- MCLogin
INVARIANTS
    TypeOK
    OneSlotPerAccount
    TrackedSlotIsLatest
PROPERTIES
    TrackedAnswerIsLatest
