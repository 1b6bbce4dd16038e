\* Encodings, at the boundaries of their fields.
SPECIFICATION Spec
CONSTANTS
    Endpoints <- MCEndpoints
    Payloads <- MCPayloads
    SocksEndpoints <- MCSocksEndpoints
    AuthLists <- MCAuthLists
    Keys <- MCKeys
INVARIANTS StunFramed ReadAsMeant SignedLast SocksRefused
