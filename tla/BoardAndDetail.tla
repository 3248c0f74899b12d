--------------------------- MODULE BoardAndDetail ---------------------------
(***************************************************************************)
(* The two pages that share the gateway source.  The board stays mounted   *)
(* while a detail pane opens beside it, and both call subscribe and        *)
(* unsubscribe on the one set the source keeps: nothing counts who wants a *)
(* symbol.  An effect, or its clean-up, is one action.                     *)
(***************************************************************************)
EXTENDS GatewaySource

CONSTANT NoSymbol

ASSUME PagesAssumption == NoSymbol \notin Symbols

VARIABLES
  board,      \* "away", "loading" the universe, "failed" to, or "shown" with all symbols
  detail,     \* the symbol of the open detail pane, or NoSymbol
  fetching,   \* the request for the universe that is under way, shared by all callers
  cached      \* it has been answered before

pageVars == <<board, detail, fetching, cached>>
allVars == <<vars, pageVars>>

Universe == Symbols \ Unknown

PagesInit ==
  /\ Init
  /\ board = "away" /\ detail = NoSymbol
  /\ fetching = FALSE /\ cached = FALSE

----------------------------------------------------------------------------
NoCalls == UNCHANGED vars

(* The board's effect: getUniverse answers from the cache, joins the request
   under way or starts one. *)
BoardLoads ==
  IF cached
  THEN /\ board' = "shown"
       /\ Subscribe(Universe)
       /\ UNCHANGED <<detail, fetching, cached>>
  ELSE /\ board' = "loading" /\ fetching' = TRUE
       /\ NoCalls
       /\ UNCHANGED <<detail, cached>>

BoardMounts == made > 0 /\ board = "away" /\ BoardLoads
BoardRetries == board = "failed" /\ BoardLoads

WaitsForUniverse == board = "loading"

UniverseArrives ==
  /\ fetching
  /\ fetching' = FALSE /\ cached' = TRUE
  /\ IF WaitsForUniverse
     THEN /\ board' = (IF board = "loading" THEN "shown" ELSE board)
          /\ Subscribe(Universe)
     ELSE NoCalls /\ UNCHANGED board
  /\ UNCHANGED detail

AfterFailure == IF board = "loading" THEN "failed" ELSE board

UniverseFails ==
  /\ fetching
  /\ fetching' = FALSE
  /\ board' = AfterFailure
  /\ NoCalls
  /\ UNCHANGED <<detail, cached>>

BoardSymbols(shown) == IF shown THEN <<UnsubscribeFrom(Universe)>> ELSE <<>>

DetailSymbol(symbol) == IF symbol = NoSymbol THEN <<>> ELSE <<UnsubscribeFrom({symbol})>>

(* The route is left: the pane, which is its child, goes with the board. *)
BoardUnmounts ==
  /\ board # "away"
  /\ board' = "away" /\ detail' = NoSymbol
  /\ Calls(BoardSymbols(board = "shown") \o DetailSymbol(detail))
  /\ UNCHANGED <<fetching, cached>>

(* Mutant: a clean-up that runs after the new effect, on the new symbol. *)
CleanUpRunsLate(old, new) == <<SubscribeTo({new}), UnsubscribeFrom({new})>>

SwitchCalls(old, new) == <<UnsubscribeFrom({old}), SubscribeTo({new})>>

(* The pane asks for the universe too, and for a snapshot and the history. *)
DetailOpens(symbol) ==
  /\ board # "away"
  /\ symbol # detail
  /\ detail' = symbol
  /\ fetching' = ~cached
  /\ IF detail = NoSymbol
     THEN Subscribe({symbol})
     ELSE Calls(SwitchCalls(detail, symbol))
  /\ UNCHANGED <<board, cached>>

DetailCloses ==
  /\ detail # NoSymbol
  /\ detail' = NoSymbol
  /\ Unsubscribe({detail})
  /\ UNCHANGED <<board, fetching, cached>>

----------------------------------------------------------------------------
Board == BoardMounts \/ BoardRetries \/ UniverseArrives \/ UniverseFails \/ BoardUnmounts
Detail == DetailCloses \/ \E symbol \in Symbols : DetailOpens(symbol)

PagesNext == Board \/ Detail \/ (Source /\ UNCHANGED pageVars)
PagesSpec == PagesInit /\ [][PagesNext]_allVars
FairPagesSpec == PagesSpec /\ Fairness

----------------------------------------------------------------------------
(* The variables of source and pages hold values of their kind; the pane is open only beside
   the board, and only a request answers a loading board. *)
PagesTypeOK ==
  /\ TypeOK
  /\ board \in {"away", "loading", "failed", "shown"}
  /\ detail \in Symbols \cup {NoSymbol}
  /\ fetching \in BOOLEAN /\ cached \in BOOLEAN
  /\ detail # NoSymbol => board # "away"
  /\ board = "loading" => fetching

(* What the open pane shows is served, through drops and through the board
   subscribing and rejections arriving around it. *)
DetailCarried ==
  Settled /\ Undisturbed /\ detail \in Universe => detail \in asked[socket]

(* When the route is left nothing stays subscribed: neither what a late answer
   would have asked for, nor a symbol the pane had switched away from. *)
NothingLeftSubscribed == board = "away" => subscribed = {}

(* "Every row's subscription survives" the opening and closing of a pane. *)
BoardKept == Settled /\ board = "shown" => Universe \subseteq asked[socket]
=============================================================================
