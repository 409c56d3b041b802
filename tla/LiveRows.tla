------------------------------ MODULE LiveRows ------------------------------
(***************************************************************************)
(* The terminal and its only writer, ui.UI (src/ui/display.go, print.go):  *)
(* the block of live rows under the lines that were printed, the           *)
(* arithmetic that moves the cursor over it, and the goroutine that        *)
(* repaints it.  Each operator on a row or a line below is one critical    *)
(* section of UI.mu; who calls them is in ProgressDisplay.                 *)
(*                                                                         *)
(* A line of the screen is a printed line, a row or Blank.  Spinner,       *)
(* elapsed time and truncation are left out: a row never wraps, and the    *)
(* terminal is higher than the block.  A frame may be lost, as a whole     *)
(* (paint drops the error); a printed line may not.                        *)
(***************************************************************************)
EXTENDS Integers, Sequences, SequencesExt

CONSTANTS
  MaxTickers, \* bound of the tickers one run of the program starts
  MaxLosses   \* bound of the frames that are lost

ASSUME RowsAssumption == MaxTickers \in Nat \ {0} /\ MaxLosses \in Nat

VARIABLES
  enabled,   \* stderr is a terminal
  rows,      \* UI.rows
  active,    \* the active nodes of the phase row that has any
  painted,   \* UI.painted
  running,   \* UI.running
  ticker,    \* how many times ensureRunningLocked made a ticker
  closed,    \* the tickers whose done channel is closed
  goroutine, \* where UI.run is, for each ticker
  screen,    \* the lines of the terminal, and how many are above the cursor
  log,       \* history: the lines printed
  losses     \* history: how many frames were lost

displayVars ==
  <<enabled, rows, active, painted, running, ticker, closed, goroutine, screen, log, losses>>

Ticker == 1 .. MaxTickers

Blank == <<"blank">>

DisplayInit ==
  /\ enabled \in BOOLEAN
  /\ rows = <<>> /\ active = {} /\ painted = 0
  /\ running = FALSE /\ ticker = 0 /\ closed = {}
  /\ goroutine = [t \in Ticker |-> "none"]
  /\ screen = [lines |-> <<>>, cursor |-> 0]
  /\ log = <<>> /\ losses = 0

-----------------------------------------------------------------------------
(* What the escape sequences do. *)

Min2(a, b) == IF a < b THEN a ELSE b

Up(s, n) == [s EXCEPT !.cursor = @ - Min2(n, @)]

\* Lines written over what is at the cursor.
Put(s, text) ==
  [lines  |-> SubSeq(s.lines, 1, s.cursor) \o text
              \o SubSeq(s.lines, s.cursor + Len(text) + 1, Len(s.lines)),
   cursor |-> s.cursor + Len(text)]

Blanks(n) == [i \in 1 .. n |-> Blank]

\* eraseLocked, over a block of n lines.
Erased(s, n) == Up(Put(Up(s, n), Blanks(n)), n)

\* A plausible bug: the lines left over are cleared, the cursor stays below them.
FrameLeavesCursorLow(s, n, block) == Put(Put(Up(s, n), block), Blanks(n - Len(block)))

\* redrawLocked: the block repainted over a former one of n lines.
Frame(s, n, block) ==
  LET drawn == Put(Up(s, n), block)
      extra == n - Len(block)
  IN  IF extra > 0 THEN Up(Put(drawn, Blanks(extra)), extra) ELSE drawn

\* A row shows its activity; only the phase that runs a graph has any here.
Drawn(rs, nodes) ==
  [i \in DOMAIN rs |-> <<"row", rs[i], IF rs[i][1] = "phase" THEN nodes ELSE {}>>]

Block == Drawn(rows, active)

-----------------------------------------------------------------------------
(* The locked steps.  A step that paints may lose what it paints. *)

\* The rows and activity become rs and nodes, and redrawLocked paints them on a
\* screen s with a block of n lines, in a step that has lost n0 frames already.
Redraw(rs, nodes, s, n, n0) ==
  /\ rows' = rs /\ active' = nodes
  /\ \E lost \in BOOLEAN :
       /\ lost => enabled /\ (n > 0 \/ rs # <<>>)
       /\ losses' = losses + n0 + (IF lost THEN 1 ELSE 0)
       /\ losses' <= MaxLosses
       /\ painted' = IF enabled THEN Len(rs) ELSE painted
       /\ screen' = IF enabled /\ ~lost THEN Frame(s, n, Drawn(rs, nodes)) ELSE s

EnsureRunning ==
  IF running THEN UNCHANGED <<running, ticker, goroutine>>
  ELSE /\ ticker < MaxTickers
       /\ running' = TRUE
       /\ ticker' = ticker + 1
       /\ goroutine' = [goroutine EXCEPT ![ticker + 1] = "waiting"]

\* A plausible bug: the ticker is stopped and its goroutine not told.
StopRunningLeavesDoneOpen == running' = FALSE /\ UNCHANGED closed

StopRunning ==
  /\ running' = FALSE
  /\ closed' = IF running THEN closed \union {ticker} ELSE closed

\* startRow; no row is made when rows are suppressed.
StartRow(row) ==
  IF enabled
  THEN /\ EnsureRunning
       /\ Redraw(Append(rows, row), active, screen, painted, 0)
       /\ UNCHANGED <<enabled, closed, log>>
  ELSE UNCHANGED displayVars

\* removeRow; what is active on a row goes with it.
RemoveRow(row) ==
  IF enabled
  THEN /\ Redraw(RemoveFirst(rows, row),
                 IF row[1] = "phase" THEN {} ELSE active, screen, painted, 0)
       /\ IF rows' = <<>> THEN StopRunning ELSE UNCHANGED <<running, closed>>
       /\ UNCHANGED <<enabled, ticker, goroutine, log>>
  ELSE UNCHANGED displayVars

SetActive(nodes) ==
  IF enabled
  THEN /\ Redraw(rows, nodes, screen, painted, 0)
       /\ UNCHANGED <<enabled, running, ticker, closed, goroutine, log>>
  ELSE UNCHANGED displayVars

\* addActive and removeActive on the phase row of a node.
AddActive(node) == SetActive(active \union {node})

\* A plausible bug: dropActive does not find its span.
RemoveActiveForgets(node) == SetActive(active)

RemoveActive(node) == SetActive(active \ {node})

\* print: the block erased, the line, the block repainted under it.
Printf(line) ==
  /\ log' = Append(log, line)
  /\ \E lost \in BOOLEAN :
       /\ lost => painted > 0
       /\ Redraw(rows, active,
                 Put(IF lost THEN screen ELSE Erased(screen, painted), <<line>>),
                 0, IF lost THEN 1 ELSE 0)
  /\ UNCHANGED <<enabled, running, ticker, closed, goroutine>>

\* UI.Stop, with rows or without.
Stop ==
  IF enabled
  THEN /\ rows' = <<>> /\ active' = {}
       /\ painted' = 0
       /\ \E lost \in BOOLEAN :
            /\ lost => painted > 0 /\ losses < MaxLosses
            /\ losses' = losses + (IF lost THEN 1 ELSE 0)
            /\ screen' = IF lost THEN screen ELSE Erased(screen, painted)
       /\ StopRunning
       /\ UNCHANGED <<enabled, ticker, goroutine, log>>
  ELSE UNCHANGED displayVars

-----------------------------------------------------------------------------
(* UI.run, the goroutine of one ticker. *)

\* A tick is received; a stopped ticker sends none.
Tick(t) ==
  /\ goroutine[t] = "waiting" /\ running /\ t = ticker
  /\ goroutine' = [goroutine EXCEPT ![t] = "ticked"]
  /\ UNCHANGED <<enabled, rows, active, painted, running, ticker, closed, screen, log, losses>>

\* A plausible bug: the goroutine returns after its first tick.
RepaintOnce(t) ==
  /\ goroutine[t] = "ticked"
  /\ goroutine' = [goroutine EXCEPT ![t] = "returned"]
  /\ IF running THEN Redraw(rows, active, screen, painted, 0)
     ELSE UNCHANGED <<rows, active, painted, screen, losses>>
  /\ UNCHANGED <<enabled, running, ticker, closed, log>>

\* It gets the lock: its ticker may be stopped by now, and a newer one running.
Repaint(t) ==
  /\ goroutine[t] = "ticked"
  /\ goroutine' = [goroutine EXCEPT ![t] = "waiting"]
  /\ IF running THEN Redraw(rows, active, screen, painted, 0)
     ELSE UNCHANGED <<rows, active, painted, screen, losses>>
  /\ UNCHANGED <<enabled, running, ticker, closed, log>>

Return(t) ==
  /\ goroutine[t] = "waiting" /\ t \in closed
  /\ goroutine' = [goroutine EXCEPT ![t] = "returned"]
  /\ UNCHANGED <<enabled, rows, active, painted, running, ticker, closed, screen, log, losses>>

=============================================================================
