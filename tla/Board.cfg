CONSTANTS
  Symbols = {a, b}
  None = None
  MaxEvents = 4

SPECIFICATION Spec
INVARIANTS OrderIsOfTheFigures PicksAreTrue FocusIsLookedAfter
PROPERTY EnterOpensWhatWasTyped
