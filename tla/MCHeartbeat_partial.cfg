SPECIFICATION Spec
CONSTANTS
    Text <- MCText
    Length <- MCLength
    Empty = ""
    Macs = {"E4:8D:8C:AA:BB:CC"}
    Decoded <- MCDecoded
    Broken = Broken
    Readings <- MCReadings
INVARIANTS
    PartialPayloadValidates
