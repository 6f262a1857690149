\* Two frames per connection; payloads up to the limit, and one above it.
CONSTANTS
    Base = 2
    ChecksumSize = 2
    MaxPayload = 2
    KnownTypes = {1}
    SumDigit = 1
    Payloads <- MCPayloads
    MaxSends = 2
SPECIFICATION TransportSpec
INVARIANTS
    TransportTypeOK
    OnlySentFrames
    NothingIsHeldBack
PROPERTY DeliversInOrder
