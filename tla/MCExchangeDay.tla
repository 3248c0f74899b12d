--------------------------- MODULE MCExchangeDay ---------------------------
EXTENDS ExchangeDay
ShortDay == {[phase |-> "OpeningAuction", start |-> 3, end |-> 4, mult |-> 6],
             [phase |-> "ContinuousMorning", start |-> 4, end |-> 5, mult |-> 1],
             [phase |-> "ClosingAuction", start |-> 6, end |-> 7, mult |-> 3]}
ThreeSettings == {[mode |-> "Continuous", ceiling |-> 7], [mode |-> "CompressedDay", ceiling |-> 4],
                  [mode |-> "Scheduled", ceiling |-> 7]}
=============================================================================
