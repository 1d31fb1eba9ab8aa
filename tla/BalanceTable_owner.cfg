\* getAccountBalance against its description: whose balance is it?
SPECIFICATION Spec
CONSTANTS
    Accounts <- MCAccounts
    NSlots = 2
    Balances <- MCBalances
    LoginBalance <- MCLogin
PROPERTIES
    BalanceOfTheAccount
