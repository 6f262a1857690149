\* Two calls, two payments and two fees, two swipes and two quotes in a visit.
CONSTANTS
    None = None
    CallIds = {1, 2}
    PayIds = {1, 2}
    FeeIds = {3, 4}
    MaxSwipes = 2
    MaxQuotes = 2
    Addresses <- MCAddresses
    ValidAddresses <- MCValidAddresses
    Sums <- MCSums
    Tokens <- MCTokens
    SafeTokens <- MCSafeTokens
    Amounts <- MCAmounts
    Picks <- MCPicks
    Orders <- MCOrders
    Payable <- MCPayable
    Unpayable <- MCUnpayable
    Quotes <- MCQuotes
SPECIFICATION PaymentsSpec
INVARIANTS
    PaymentsTypeOK
    PaidOnce
    SentAsShown
    QuoteIsOfOrder
    ReportIsOfToken
PROPERTIES
    CompleteMeansPaid
    SigningSettles
