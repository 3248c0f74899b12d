-------------------------------- MODULE Board --------------------------------
(***************************************************************************)
(* The board: rows in an order, highlight cards, a search field, and the   *)
(* pane of the symbol in the address beside or over them.                  *)
(*                                                                         *)
(* A row or a card shows the paced view of its symbol, which takes the     *)
(* store's on the beat; the order and the picks are computed from the same *)
(* views.  Opening, switching and closing the pane goes through a view     *)
(* transition, so the navigation a key asked for may commit later, in the  *)
(* order asked for.  A frame after the pane has changed the focus is put   *)
(* somewhere visible if what had it is gone.                               *)
(*                                                                         *)
(* What a callback sets is rendered, and its effects run, in the same step *)
(* as the callback.  The pane's quote is TickView; of it there remains     *)
(* when it makes the board's row catch up.                                 *)
(***************************************************************************)
EXTENDS Integers, Sequences, FiniteSets, SequencesExt

CONSTANTS
  Symbols,    \* in an order of the exchange
  None,       \* no symbol, no figure, no sort
  MaxEvents   \* bound on what the user does and the store receives

(* The order the exchange lists its instruments in is some order.          *)
Universe == SetToSeq(Symbols)
Place == [s \in Symbols |-> CHOOSE i \in DOMAIN Universe : Universe[i] = s]

VARIABLES
  store,             \* figure of each symbol, as last received
  paced,             \* figure of each symbol that a row or card is subscribed to
  order,             \* the rows
  picks,             \* the highlight cards: their symbols
  sort,              \* the column and direction, or None for exchange order
  raw, debounced,    \* the query as typed, and as the rows are filtered by
  selected,          \* the symbol of the pane, from the address
  going,             \* navigations whose transition has not called back yet
  ready, heard, due, \* the pane has its snapshot; has had a tick since the beat; will flush
  chunk,             \* the code of the pane is loaded
  focus,             \* document.activeElement
  focusedSymbol,     \* the row that had the focus last
  frame,             \* the symbol the pane had before, while the restore frame is due
  phone, animated,   \* the viewport is narrow; the browser has view transitions
  ahead, flushed,    \* figures read off the beat since the picks, since the ranking
  events

figureVars == <<store, paced, picks, ahead>>
rowVars    == <<order, sort, debounced, flushed>>
paneVars   == <<selected, ready, heard, due, frame>>
focusVars  == <<focus, focusedSymbol>>
fixedVars  == <<phone, animated>>
vars == <<figureVars, rowVars, raw, paneVars, going, chunk, focusVars, fixedVars, events>>

(* A rise, a rise that rounds to 0.00%, a fall with much traded.           *)
Figures == {"up", "hair", "down"}
ChangePercent(f) == CASE f = "up" -> 10 [] f = "hair" -> 4 [] f = "down" -> -10 [] OTHER -> 0
TradedValue(f)   == CASE f = "up" -> 1 [] f = "hair" -> 2 [] f = "down" -> 3 [] OTHER -> 0
Unchanged(p) == p \in -4 .. 4

(* "ticker" is the last symbol's, and part of every name; nothing has      *)
(* "typo".                                                                 *)
Queries == {"", "ticker", "name", "typo"}
Matching(q) == CASE q \in {"", "ticker"} -> Symbols [] q = "name" -> {Universe[1]} [] OTHER -> {}
Exact(q) == IF q = "ticker" THEN {Last(Universe)} ELSE {}
Closest(q) == IF q = "typo" THEN {Universe[1]} ELSE {}

Columns == {"symbol", "changePercent", "value"}
Wide == {"value"}       \* hidden in a narrow list
Order(column, direction, by) == [column |-> column, direction |-> direction, by |-> by]
Sorts == [column : Columns, direction : {"asc", "desc"}, by : {"header", "preset", "picks"}]
Presets == {None, Order("value", "desc", "preset"),
            Order("changePercent", "desc", "preset"), Order("changePercent", "asc", "preset")}

(* What can have the focus: a row, a header, a control, or nothing; of     *)
(* nothing the reason is kept.                                             *)
Lost == {"page", "gone", "removed", "replaced", "unlisted"}
Controls == {"search", "pill", "card", "previous", "next", "all", "logo", "heading", "suggestion"}

Frames == [previous : Symbols \cup {None}]

ASSUME BoardAssumption ==
  /\ IsFiniteSet(Symbols) /\ Symbols # {} /\ MaxEvents \in Nat
  /\ Symbols \cap (Columns \cup Controls \cup Lost) = {}
  /\ None \notin Symbols \cup Sorts \cup Frames

----------------------------------------------------------------------------
(* Order and picks                                                         *)

SortKey(column, s, view) ==
  CASE column = "changePercent" -> ChangePercent(view[s])
    [] column = "value"         -> TradedValue(view[s])
    [] OTHER                    -> Place[s]

(* Array.prototype.sort is stable: ties stay in exchange order.            *)
Precedes(s, t, st, view) ==
  IF st = None THEN Place[s] < Place[t]
  ELSE LET a == SortKey(st.column, s, view)
           b == SortKey(st.column, t, view)
       IN  IF a = b THEN Place[s] < Place[t]
           ELSE IF st.direction = "asc" THEN a < b ELSE a > b

Ranked(set, st, view) ==
  CHOOSE rows \in [1 .. Cardinality(set) -> set] :
    \A i, j \in DOMAIN rows : i < j => Precedes(rows[i], rows[j], st, view)

(* Mutant: rows are ranked by the store. *)
LiveViews(entries, st) == st

(* The paced view of a symbol, or the store's when nothing is subscribed.  *)
Views(entries, st) == [s \in Symbols |-> IF s \in DOMAIN entries THEN entries[s] ELSE st[s]]

First(view, column, direction) ==
  Ranked(Symbols, Order(column, direction, "picks"), view)[1]

(* Mutant: the first and the last of the ranking always get their card. *)
AllQualify(p) == [gainer |-> TRUE, loser |-> TRUE]

Qualifies(p) ==
  [gainer |-> ~Unchanged(p.gainer) /\ p.gainer > 0, loser |-> ~Unchanged(p.loser) /\ p.loser < 0]

PickHeroes(view) ==
  LET g == First(view, "changePercent", "desc")
      l == First(view, "changePercent", "asc")
      a == First(view, "value", "desc")
      true == Qualifies([gainer |-> ChangePercent(view[g]), loser |-> ChangePercent(view[l])])
      gainer == IF true.gainer THEN g ELSE None
      loser  == IF true.loser /\ l # gainer THEN l ELSE None
  IN  [gainer |-> gainer, loser |-> loser, active |-> IF a \in {gainer, loser} THEN None ELSE a]

Cards(p) == {p.gainer, p.loser, p.active} \ {None}

(* Entries exist for what is rendered: the ones that are new start from    *)
(* the store, the others keep their view.                                  *)
Subscribed(rows, p, entries, st) ==
  [s \in Range(rows) \cup Cards(p) |-> IF s \in DOMAIN entries THEN entries[s] ELSE st[s]]

----------------------------------------------------------------------------
(* The focus                                                               *)

Neighbour(rows, sel, step) ==
  LET places == { i \in DOMAIN rows : rows[i] = sel /\ i + step \in DOMAIN rows }
  IN  IF places = {} THEN None ELSE rows[(CHOOSE i \in places : TRUE) + step]

Exists(f, rows, sel) ==
  CASE f \in Symbols           -> f \in Range(rows)
    [] f \in Wide              -> sel = None /\ ~phone
    [] f = "previous"          -> sel # None /\ Neighbour(rows, sel, -1) # None
    [] f = "next"              -> sel # None /\ Neighbour(rows, sel, 1) # None
    [] f \in {"all", "heading"} -> sel # None
    [] f = "suggestion"        -> rows = <<>>
    [] OTHER                   -> TRUE

(* The search field and the pills are in another place beside a pane, the  *)
(* cards are hidden, and on a phone all but the pane and its buttons is.   *)
Moves(f) == f \in {"search", "pill"}
Visible(f, sel) ==
  /\ f \notin Lost
  /\ sel # None => f # "card" /\ (phone => f \in {"previous", "next", "all", "heading", "logo"})

Keep(f, rows, cause) == IF Exists(f, rows, selected) THEN f ELSE cause

(* The one row that is a Tab stop.                                         *)
TabStop ==
  IF focusedSymbol \in Range(order) THEN focusedSymbol
  ELSE IF selected \in Range(order) THEN selected ELSE order[1]

----------------------------------------------------------------------------
Init ==
  /\ store = [s \in Symbols |-> "down"]
  /\ phone \in BOOLEAN /\ animated \in BOOLEAN /\ chunk \in BOOLEAN
  /\ selected \in Symbols \cup {None}
  /\ order = Ranked(Symbols, None, store) /\ sort = None
  /\ picks = PickHeroes(store)
  /\ paced = store
  /\ raw = "" /\ debounced = ""
  /\ going = <<>> /\ ready = FALSE /\ heard = FALSE /\ due = FALSE
  /\ focus = "page" /\ focusedSymbol = None
  /\ frame = [previous |-> selected]
  /\ ahead = {} /\ flushed = {}
  /\ events = 0

(* Rows are rendered anew: by the sort, by the query, or by the beat.      *)
Render(entries, st, query, p, cause) ==
  LET rows == Ranked(Matching(query), st, Views(entries, store)) IN
  /\ order' = rows
  /\ paced' = Subscribed(rows, p, entries, store)
  /\ flushed' = {}
  /\ focus' = Keep(focus, rows, cause)

----------------------------------------------------------------------------
(* The beat, and what comes off it                                         *)

Event == events < MaxEvents /\ events' = events + 1

Published == [s \in DOMAIN paced |-> store[s]]

Resorted(view) == IF sort = None THEN order ELSE Ranked(Matching(debounced), sort, view)

Beat ==
  LET view == Views(Published, store)
      p    == PickHeroes(view)
      rows == Resorted(view)
  IN
  /\ order' = rows /\ picks' = p
  /\ paced' = Subscribed(rows, p, Published, store)
  /\ ahead' = {} /\ flushed' = {}
  /\ focus' = Keep(focus, rows, "removed")
  /\ heard' = FALSE
  /\ due' = (due \/ heard)
  /\ UNCHANGED <<store, sort, raw, debounced, selected, ready, frame, going, chunk,
                 focusedSymbol, fixedVars, events>>

(* The pane's quote makes the row and card of its symbol catch up.         *)
Flush ==
  /\ due /\ selected # None
  /\ due' = FALSE
  /\ paced' = [s \in DOMAIN paced |-> IF s = selected THEN store[s] ELSE paced[s]]
  /\ ahead' = IF paced' = paced THEN ahead ELSE ahead \cup {selected}
  /\ flushed' = IF paced' = paced THEN flushed ELSE flushed \cup {selected}
  /\ UNCHANGED <<store, order, picks, sort, raw, debounced, selected, ready, heard, frame,
                 going, chunk, focusVars, fixedVars, events>>

Tick(s, f) ==
  /\ Event
  /\ store' = [store EXCEPT ![s] = f]
  /\ heard' = (heard \/ (s = selected /\ ready))
  /\ UNCHANGED <<paced, picks, ahead, rowVars, raw, selected, ready, due, frame, going, chunk,
                 focusVars, fixedVars>>

SnapshotArrives(f) ==
  /\ selected # None /\ ~ready
  /\ Event
  /\ store' = [store EXCEPT ![selected] = f]
  /\ ready' = TRUE /\ due' = TRUE
  /\ UNCHANGED <<paced, picks, ahead, rowVars, raw, selected, heard, frame, going, chunk,
                 focusVars, fixedVars>>

(* The stream changes: every figure goes, at once.  The picks stay.        *)
Discard ==
  /\ Event
  /\ store' = [s \in Symbols |-> None]
  /\ paced' = [s \in DOMAIN paced |-> None]
  /\ ahead' = Symbols /\ flushed' = flushed
  /\ heard' = FALSE /\ due' = FALSE
  /\ UNCHANGED <<order, picks, sort, debounced, raw, selected, ready, frame, going, chunk,
                 focusVars, fixedVars>>

----------------------------------------------------------------------------
(* The pane                                                                *)

(* The address changes: the pane is of another symbol, and after the       *)
(* commit a frame looks after the focus.                                   *)
Show(to, f, rows) ==
  LET toggled == (selected = None) # (to = None) IN
  IF to = selected THEN focus' = f /\ UNCHANGED paneVars
  ELSE /\ selected' = to
       /\ ready' = FALSE /\ heard' = FALSE /\ due' = FALSE
       /\ frame' = [previous |-> selected]
       /\ focus' = IF Exists(f, rows, to) /\ ~(toggled /\ Moves(f)) THEN f ELSE "gone"

(* With a transition the navigation waits for its callback.                *)
Navigate(to, f) ==
  IF animated THEN /\ going' = Append(going, to) /\ focus' = f
                   /\ UNCHANGED paneVars
  ELSE Show(to, f, order) /\ UNCHANGED going

Stay(f) == focus' = f /\ UNCHANGED <<paneVars, going>>

Commit ==
  /\ going # <<>>
  /\ going' = Tail(going)
  /\ Show(Head(going), focus, order)
  /\ UNCHANGED <<figureVars, rowVars, raw, chunk, focusedSymbol, fixedVars, events>>

(* Mutant: only a focus that has nothing left is looked after, not a hidden one. *)
NothingFocused == focus \in Lost

FocusLost == ~Visible(focus, selected)

(* The heading, or the row of the pane that was closed.  If that row is    *)
(* not on the screen, because the query has filtered it out, nothing takes *)
(* the focus: it stays lost, and what the pane took has a new reason.      *)
Restored ==
  IF selected # None THEN "heading"
  ELSE IF frame.previous \in Range(order) THEN frame.previous
  ELSE IF focus = "gone" THEN "unlisted" ELSE focus

RestoreFrame ==
  /\ frame # None
  /\ frame' = None
  /\ focus' = IF FocusLost THEN Restored ELSE focus
  /\ focusedSymbol' = IF FocusLost /\ Restored \in Symbols THEN Restored ELSE focusedSymbol
  /\ UNCHANGED <<figureVars, rowVars, raw, selected, ready, heard, due, going, chunk, fixedVars, events>>

(* The skeleton of the pane gives way to the pane, heading and all.        *)
ChunkArrives ==
  /\ ~chunk /\ chunk' = TRUE
  /\ focus' = IF selected # None /\ focus = "heading" THEN "replaced" ELSE focus
  /\ UNCHANGED <<figureVars, rowVars, raw, paneVars, going, focusedSymbol, fixedVars, events>>

----------------------------------------------------------------------------
(* What the user does                                                      *)

Reachable(f) == Exists(f, order, selected) /\ Visible(f, selected)

OnRow(s) == focusedSymbol' = s /\ UNCHANGED <<figureVars, rowVars, raw, chunk, fixedVars>>
Elsewhere == UNCHANGED <<figureVars, rowVars, raw, chunk, focusedSymbol, fixedVars>>

Toggle(s) == IF selected = s THEN None ELSE s

(* A row is clicked, or Enter is pressed on it.                            *)
ActivateRow(s) ==
  /\ Event /\ Reachable(s)
  /\ Navigate(Toggle(s), s)
  /\ OnRow(s)

ActivateCard(s) ==
  /\ Event /\ s \in Cards(picks) /\ Visible("card", selected)
  /\ Navigate(Toggle(s), "card")
  /\ Elsewhere

(* Up, Down, Home and End: the pane follows the focus.                     *)
Targets(s) == {Neighbour(order, s, -1), Neighbour(order, s, 1), order[1], Last(order)} \ {None}

ArrowKey(s) ==
  /\ Event /\ focus \in Symbols /\ Visible(focus, selected)
  /\ s \in Targets(focus)
  /\ IF selected # None /\ s # selected THEN Navigate(s, s) ELSE Stay(s)
  /\ OnRow(s)

Escape ==
  /\ Event /\ focus # "search" /\ selected # None
  /\ Navigate(None, focus)
  /\ Elsewhere

(* The close button or "All instruments", and the logo, go to the board.   *)
ClosePane(button) ==
  /\ Event /\ selected # None
  /\ Navigate(None, button)
  /\ Elsewhere

(* The buttons of a phone for the symbols before and after the open one.   *)
StepTo(button, step) ==
  /\ Event /\ phone /\ Reachable(button)
  /\ Navigate(Neighbour(order, selected, step), button)
  /\ Elsewhere

Shortcut ==
  /\ Event /\ Reachable("search")
  /\ Stay("search")
  /\ Elsewhere

TabIntoBoard ==
  /\ Event /\ order # <<>> /\ focus \in {"search", "pill"} /\ Visible(focus, selected)
  /\ Stay(TabStop)
  /\ OnRow(TabStop)

SetSort(st, f) ==
  /\ sort' = st
  /\ IF st = sort THEN UNCHANGED <<order, paced, flushed>> /\ focus' = f
     ELSE LET rows == Ranked(Matching(debounced), st, Views(paced, store)) IN
          /\ order' = rows /\ paced' = Subscribed(rows, picks, paced, store)
          /\ flushed' = {} /\ focus' = f
  /\ UNCHANGED <<store, picks, ahead, debounced, raw, paneVars, going, chunk, focusedSymbol,
                 fixedVars>>

PickPreset(st) == Event /\ Reachable("pill") /\ SetSort(st, "pill")

HandleSort(column) ==
  LET leading == IF column = "symbol" THEN "asc" ELSE "desc"
      turned(d) == IF d = "asc" THEN "desc" ELSE "asc"
      direction == IF sort = None THEN leading
                   ELSE IF sort.column # column THEN leading ELSE turned(sort.direction)
  IN
  /\ Event /\ Reachable(column)
  /\ SetSort(Order(column, direction, "header"), column)

----------------------------------------------------------------------------
(* The search field                                                        *)

Type(q) ==
  /\ Event /\ focus = "search" /\ Visible(focus, selected) /\ q # raw
  /\ raw' = q
  /\ UNCHANGED <<figureVars, rowVars, paneVars, going, chunk, focusVars, fixedVars>>

(* The cross in the field, "Show all".                                     *)
ClearSearch(button) ==
  /\ Event /\ raw # "" /\ Reachable(button)
  /\ raw' = ""
  /\ Stay(button)
  /\ UNCHANGED <<figureVars, rowVars, chunk, focusedSymbol, fixedVars>>

TakeSuggestion(s) ==
  /\ Event /\ Reachable("suggestion") /\ s \in Closest(debounced)
  /\ raw' = ""
  /\ Navigate(Toggle(s), "suggestion")
  /\ UNCHANGED <<figureVars, rowVars, chunk, focusedSymbol, fixedVars>>

(* 150 ms after the last key the rows are filtered by the query.           *)
Debounce ==
  /\ raw # debounced
  /\ debounced' = raw
  /\ Render(paced, sort, raw, picks, "removed")
  /\ ahead' = ahead \cup (DOMAIN paced' \ DOMAIN paced)
  /\ UNCHANGED <<store, picks, sort, raw, paneVars, going, chunk, focusedSymbol, fixedVars, events>>

DownFromSearch ==
  /\ Event /\ focus = "search" /\ Visible(focus, selected) /\ order # <<>>
  /\ Stay(order[1])
  /\ OnRow(order[1])

(* Mutant: of the rows, also when they are of what was typed before.       *)
OnTheBoard == order

(* Enter opens the exact ticker, or else the first match: of the rows if   *)
(* they are of what was typed, of the universe if they are not yet.        *)
Candidates == IF raw = debounced THEN order ELSE Ranked(Matching(raw), None, store)

Target ==
  IF Exact(raw) \cap Range(Candidates) # {} THEN CHOOSE s \in Exact(raw) : TRUE
  ELSE Candidates[1]

EnterInSearch ==
  /\ Event /\ focus = "search" /\ Visible(focus, selected) /\ raw # "" /\ Candidates # <<>>
  /\ IF Target # selected THEN Navigate(Target, focus) ELSE Stay(focus)
  /\ Elsewhere

----------------------------------------------------------------------------
User ==
  \/ \E s \in Symbols : ActivateRow(s) \/ ActivateCard(s) \/ ArrowKey(s) \/ TakeSuggestion(s)
  \/ Escape \/ ClosePane("all") \/ ClosePane("logo") \/ StepTo("previous", -1) \/ StepTo("next", 1)
  \/ Shortcut \/ TabIntoBoard
  \/ \E st \in Presets : PickPreset(st)
  \/ \E c \in Columns : HandleSort(c)
  \/ \E q \in Queries : Type(q)
  \/ ClearSearch("search") \/ ClearSearch("suggestion")
  \/ DownFromSearch \/ EnterInSearch

Source ==
  \/ \E s \in Symbols, f \in Figures : Tick(s, f)
  \/ \E f \in Figures : SnapshotArrives(f)
  \/ Discard

Page == Beat \/ Flush \/ Commit \/ RestoreFrame \/ ChunkArrives \/ Debounce

Next == User \/ Source \/ Page

Spec == Init /\ [][Next]_vars

----------------------------------------------------------------------------
TypeOK ==
  /\ store \in [Symbols -> Figures \cup {None}]
  /\ DOMAIN paced = Range(order) \cup Cards(picks)
  /\ Range(paced) \subseteq Figures \cup {None}
  /\ Range(order) = Matching(debounced) /\ Len(order) = Cardinality(Range(order))
  /\ \A k \in DOMAIN picks : picks[k] \in Symbols \cup {None}
  /\ {raw, debounced} \subseteq Queries
  /\ {selected, focusedSymbol} \cup Range(going) \subseteq Symbols \cup {None}
  /\ focus \in Symbols \cup Columns \cup Controls \cup Lost
  /\ {ahead, flushed} \subseteq SUBSET Symbols

(* Rows are in the order of the figures they show.  The one exception is a *)
(* symbol whose pane made its row catch up between two beats.  An active   *)
(* sort reads the views the rows show, never the store, and every change   *)
(* of either is followed by a ranking.                                     *)
OrderIsOfTheFigures ==
  sort # None =>
    \A i, j \in DOMAIN order :
      i < j /\ {order[i], order[j]} \cap flushed = {} =>
        LET a == SortKey(sort.column, order[i], paced)
            b == SortKey(sort.column, order[j], paced)
        IN  IF sort.direction = "asc" THEN a <= b ELSE a >= b

(* A highlight card says what its figure says, and no row on the screen    *)
(* has a better claim to the label, unless one of the two was read between *)
(* beats.  No card is missing for which the screen has a candidate.        *)
PicksAreTrue ==
  LET shown == DOMAIN paced \ ahead
      percent(s) == ChangePercent(paced[s])
  IN
  /\ picks.gainer \in shown =>
       /\ percent(picks.gainer) >= 5
       /\ \A s \in shown : percent(s) <= percent(picks.gainer)
  /\ picks.loser \in shown =>
       /\ percent(picks.loser) <= -5
       /\ \A s \in shown : percent(s) >= percent(picks.loser)
  /\ picks.active \in shown =>
       \A s \in shown : TradedValue(paced[s]) <= TradedValue(paced[picks.active])
  /\ picks.gainer = None => \A s \in shown : percent(s) < 5
  /\ picks.loser = None => \A s \in shown : percent(s) > -5 \/ s = picks.gainer

(* When no frame is due, opening or switching the pane has not cost the    *)
(* user the focus, and closing it only where the query had filtered out    *)
(* the row that would have got it back ("unlisted"); with a pane open the  *)
(* focus is on something that can be seen, and not on a row that a phone   *)
(* hides (useBoardKeyboard.ts:53-76).  What a re-rank, a query or the      *)
(* arrival of the pane's code removes is another matter.                   *)
FocusIsLookedAfter ==
  frame = None =>
    /\ focus # "gone"
    /\ selected # None => Visible(focus, selected) \/ focus \in {"removed", "replaced"}

(* The address once all navigations have committed.                        *)
Heading == IF going = <<>> THEN selected ELSE Last(going)

(* Enter in the search field opens something that matches what is typed,   *)
(* and the ticker itself if it is one, whatever the rows show.             *)
EnterOpensWhatWasTyped ==
  [][EnterInSearch /\ going = <<>> =>
       Heading' \in (IF Exact(raw) # {} THEN Exact(raw) ELSE Matching(raw))]_vars

(* With a pane open the arrow keys take it along: once the navigations     *)
(* have committed it is of the row that has the focus.                     *)
PaneFollowsFocus ==
  [][\A s \in Symbols : ArrowKey(s) /\ s # focus /\ Heading # None => Heading' = s]_vars

(* "Keeps keyboard focus somewhere visible whenever the detail opens,      *)
(* switches or closes": closing does not cost the focus either.            *)
FocusSurvivesClosing == frame = None => focus \notin {"gone", "unlisted"}

(* Once the frame has run, an open pane has the focus somewhere visible.   *)
FocusStaysVisible ==
  selected # None /\ frame = None => Visible(focus, selected)
=============================================================================
