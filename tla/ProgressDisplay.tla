--------------------------- MODULE ProgressDisplay ---------------------------
(***************************************************************************)
(* What `risk-guard run` shows while it works: the spans reported by its   *)
(* goroutines, and the rows and lines the reporter makes of them           *)
(* (src/ui/reporter.go over LiveRows).  One run scores the local source, a *)
(* phase whose stage of nodes includes the fetcher and its batch of        *)
(* packages (language/dag/fetcher/node.go), and then audits the            *)
(* dependencies, a phase each (cmd/risk-guard/audit_score.go).             *)
(*                                                                         *)
(* A goroutine's calls into the UI are separate steps, and the goroutines  *)
(* interleave at all of them.  The phase that builds the SBOM, the nodes   *)
(* under an audit and the spans of its batch of one, which show nothing,   *)
(* are left out.                                                           *)
(***************************************************************************)
EXTENDS LiveRows, FiniteSets

CONSTANTS
  Package,    \* the dependencies of the project
  OtherNodes, \* the nodes that share the fetcher's stage
  Jobs,       \* --jobs
  FetchLimit, \* fetchConcurrency
  MaxLogs     \* bound of the log lines

Local == "local source"

ASSUME DisplayAssumption ==
  /\ IsFiniteSet(Package) /\ Local \notin Package
  /\ Jobs \in Nat \ {0} /\ FetchLimit \in Nat \ {0} /\ MaxLogs \in Nat

Fetcher == "fetcher"
Node == {Fetcher} \union OtherNodes

VARIABLES
  members,   \* the packages the fetcher fetches, after dedupePackages
  failed,    \* those whose fetch failed
  phase,     \* the goroutine of the local source, and of each package's audit
  node,      \* the nodes of the stage
  batch,     \* the span of the batch
  package,   \* the goroutine of each fetch
  batchDone, \* batchState.done
  count,     \* the count each fetch, and later each audit, has read
  mu,        \* the audit that holds the mutex of scoreAll, if any
  auditDone, \* done of scoreAll
  logs,      \* how many log lines were written
  command    \* whether the command still runs

spanVars == <<members, failed, phase, node, batch, package, batchDone, count, mu, auditDone,
              logs, command>>
vars == <<displayVars, spanVars>>

Init ==
  /\ DisplayInit
  /\ members \in SUBSET Package /\ members # {}
  /\ failed = {}
  /\ phase = [x \in {Local} \union Package |-> "waiting"]
  /\ node = [n \in Node |-> "waiting"]
  /\ batch = "waiting"
  /\ package = [p \in Package |-> "waiting"]
  /\ batchDone = 0
  /\ count = [p \in Package |-> 0]
  /\ mu = {}
  /\ auditDone = 0
  /\ logs = 0
  /\ command = "running"

Silent == Cardinality(members) <= 1

-----------------------------------------------------------------------------
(* Scoring the local source: a phase around a stage of nodes. *)

BeginLocal ==
  /\ phase[Local] = "waiting"
  /\ phase' = [phase EXCEPT ![Local] = "open"]
  /\ StartRow(<<"phase", Local>>)
  /\ UNCHANGED <<members, failed, node, batch, package, batchDone, count, mu, auditDone, logs,
                 command>>

BeginNode(n) ==
  /\ phase[Local] = "open" /\ node[n] = "waiting"
  /\ node' = [node EXCEPT ![n] = "open"]
  /\ AddActive(n)
  /\ UNCHANGED <<members, failed, phase, batch, package, batchDone, count, mu, auditDone, logs,
                 command>>

\* The fetcher's node ends after its batch.
EndNode(n) ==
  /\ node[n] = "open"
  /\ n = Fetcher => batch = "ended"
  /\ node' = [node EXCEPT ![n] = "ended"]
  /\ RemoveActive(n)
  /\ UNCHANGED <<members, failed, phase, batch, package, batchDone, count, mu, auditDone, logs,
                 command>>

EndLocal ==
  /\ phase[Local] = "open" /\ \A n \in Node : node[n] = "ended"
  /\ phase' = [phase EXCEPT ![Local] = "ended"]
  /\ RemoveRow(<<"phase", Local>>)
  /\ UNCHANGED <<members, failed, node, batch, package, batchDone, count, mu, auditDone, logs,
                 command>>

-----------------------------------------------------------------------------
(* The batch of the fetcher: a goroutine per package, FetchLimit at a time. *)

\* Only a batch of several has a header.
BeginBatch ==
  /\ node[Fetcher] = "open" /\ batch = "waiting"
  /\ batch' = "open"
  /\ IF Silent THEN UNCHANGED displayVars
     ELSE Printf(<<"batch", Cardinality(members)>>)
  /\ UNCHANGED <<members, failed, phase, node, package, batchDone, count, mu, auditDone, logs,
                 command>>

BeginPackage(p) ==
  /\ batch = "open" /\ p \in members /\ package[p] = "waiting"
  /\ Cardinality({q \in members : package[q] \notin {"waiting", "ended"}}) < FetchLimit
  /\ package' = [package EXCEPT ![p] = "open"]
  /\ IF Silent THEN UNCHANGED displayVars ELSE StartRow(<<"package", p>>)
  /\ UNCHANGED <<members, failed, phase, node, batch, batchDone, count, mu, auditDone, logs,
                 command>>

\* The registry answers, or the fetch fails, which is logged.
FetchReturns(p) ==
  /\ package[p] = "open"
  /\ package' = [package EXCEPT ![p] = "fetched"]
  /\ \/ UNCHANGED <<displayVars, failed>>
     \/ /\ failed' = failed \union {p}
        /\ Printf(<<"error", p>>)
  /\ UNCHANGED <<members, phase, node, batch, batchDone, count, mu, auditDone, logs, command>>

\* finishPackage, in its three sections; a silent batch has none of them.
RetireRow(p) ==
  /\ package[p] = "fetched"
  /\ IF Silent
     THEN package' = [package EXCEPT ![p] = "ended"] /\ UNCHANGED displayVars
     ELSE package' = [package EXCEPT ![p] = "retired"] /\ RemoveRow(<<"package", p>>)
  /\ UNCHANGED <<members, failed, phase, node, batch, batchDone, count, mu, auditDone, logs,
                 command>>

CountPackage(p) ==
  /\ package[p] = "retired"
  /\ package' = [package EXCEPT ![p] = "counted"]
  /\ batchDone' = batchDone + 1
  /\ count' = [count EXCEPT ![p] = batchDone']
  /\ UNCHANGED <<displayVars, members, failed, phase, node, batch, mu, auditDone, logs, command>>

Mark(p) == IF p \in failed THEN "error" ELSE "ok"

\* A plausible bug: the counter is read again after the lock was released.
PrintPackageLate(p) ==
  /\ package[p] = "counted"
  /\ package' = [package EXCEPT ![p] = "ended"]
  /\ Printf(<<"package", p, Mark(p), batchDone>>)
  /\ UNCHANGED <<members, failed, phase, node, batch, batchDone, count, mu, auditDone, logs,
                 command>>

PrintPackage(p) ==
  /\ package[p] = "counted"
  /\ package' = [package EXCEPT ![p] = "ended"]
  /\ Printf(<<"package", p, Mark(p), count[p]>>)
  /\ UNCHANGED <<members, failed, phase, node, batch, batchDone, count, mu, auditDone, logs,
                 command>>

\* g.Wait, and the batch's End, which shows nothing.
EndBatch ==
  /\ batch = "open" /\ \A p \in members : package[p] = "ended"
  /\ batch' = "ended"
  /\ UNCHANGED <<displayVars, members, failed, phase, node, package, batchDone, count, mu,
                 auditDone, logs, command>>

-----------------------------------------------------------------------------
(* The audits, Jobs at a time, unless the local source could not be scored. *)

Auditing == {p \in Package : phase[p] \notin {"waiting", "ended"}}

BeginAudit(p) ==
  /\ phase[Local] = "ended" /\ failed = {} /\ phase[p] = "waiting"
  /\ Cardinality(Auditing) < Jobs
  /\ phase' = [phase EXCEPT ![p] = "open"]
  /\ StartRow(<<"phase", p>>)
  /\ UNCHANGED <<members, failed, node, batch, package, batchDone, count, mu, auditDone, logs,
                 command>>

EndAudit(p) ==
  /\ phase[p] = "open"
  /\ phase' = [phase EXCEPT ![p] = "scored"]
  /\ RemoveRow(<<"phase", p>>)
  /\ UNCHANGED <<members, failed, node, batch, package, batchDone, count, mu, auditDone, logs,
                 command>>

\* A plausible bug: the counter has a lock of its own, released before printing.
CountAuditUnlocked(p) ==
  /\ phase[p] = "scored"
  /\ mu' = mu \union {p}
  /\ phase' = [phase EXCEPT ![p] = "counted"]
  /\ auditDone' = auditDone + 1
  /\ count' = [count EXCEPT ![p] = auditDone']
  /\ UNCHANGED <<displayVars, members, failed, node, batch, package, batchDone, logs, command>>

CountAudit(p) ==
  /\ phase[p] = "scored" /\ mu = {}
  /\ mu' = {p}
  /\ phase' = [phase EXCEPT ![p] = "counted"]
  /\ auditDone' = auditDone + 1
  /\ count' = [count EXCEPT ![p] = auditDone']
  /\ UNCHANGED <<displayVars, members, failed, node, batch, package, batchDone, logs, command>>

\* printProgress, with mu still held.
PrintAudit(p) ==
  /\ phase[p] = "counted" /\ p \in mu
  /\ mu' = mu \ {p}
  /\ phase' = [phase EXCEPT ![p] = "ended"]
  /\ Printf(<<"audit", p, count[p]>>)
  /\ UNCHANGED <<members, failed, node, batch, package, batchDone, count, auditDone, logs, command>>

-----------------------------------------------------------------------------
(* The logger, and the end of the command. *)

\* An audit logs, through UI.Write; the local source does in FetchReturns.
Log ==
  /\ logs < MaxLogs
  /\ \E p \in Package : phase[p] = "open"
  /\ logs' = logs + 1
  /\ Printf(<<"log", logs'>>)
  /\ UNCHANGED <<members, failed, phase, node, batch, package, batchDone, count, mu, auditDone,
                 command>>

\* PersistentPostRun, which cobra skips when the command failed.
End ==
  /\ command = "running" /\ phase[Local] = "ended"
  /\ IF failed # {}
     THEN command' = "failed" /\ UNCHANGED displayVars
     ELSE /\ \A p \in Package : phase[p] = "ended"
          /\ command' = "ended" /\ Stop
  /\ UNCHANGED <<members, failed, phase, node, batch, package, batchDone, count, mu, auditDone, logs>>

\* The command's last state, in which a tick may still be on its way.
Ended == command # "running" /\ UNCHANGED vars

Reporting(p) == RetireRow(p) \/ CountPackage(p) \/ PrintPackage(p)

Auditor(p) == BeginAudit(p) \/ CountAudit(p) \/ PrintAudit(p)

Repainter(t) == Repaint(t) \/ Return(t)

Next ==
  \/ BeginLocal \/ EndLocal \/ BeginBatch \/ EndBatch \/ Log \/ End \/ Ended
  \/ \E n \in Node : BeginNode(n) \/ EndNode(n)
  \/ \E p \in Package : BeginPackage(p) \/ FetchReturns(p) \/ Reporting(p)
                        \/ Auditor(p) \/ EndAudit(p)
  \/ \E t \in Ticker : UNCHANGED spanVars /\ (Tick(t) \/ Repainter(t))

Spec == Init /\ [][Next]_vars

\* A ticker ticks and its goroutine is scheduled, and so is a fetch that was
\* answered.  What a fetch, a node or an audit waits for may never come.
FairSpec ==
  /\ Spec
  /\ \A t \in Ticker : WF_vars(UNCHANGED spanVars /\ Tick(t))
                       /\ WF_vars(UNCHANGED spanVars /\ Repainter(t))
  /\ \A p \in Package : WF_vars(Reporting(p))

-----------------------------------------------------------------------------
(* Properties. *)

\* Ordinary output and the live rows never collide (ui.go:10-12): as long as no
\* frame was lost, the terminal holds every line that was printed, in order,
\* then the rows as they now are, then nothing, and the cursor is below them.
ScreenIsLogAndRows ==
  losses = 0 =>
    /\ SubSeq(screen.lines, 1, screen.cursor) = log \o Block
    /\ \A i \in screen.cursor + 1 .. Len(screen.lines) : screen.lines[i] = Blank

\* Rows appear when work starts and vanish when it finishes, each once, and the
\* activity of the phase is the nodes in flight, whatever order they ended in.
RowsAreOpenSpans ==
  LET open == {<<"phase", x>> : x \in {y \in DOMAIN phase : phase[y] = "open"}}
              \union {<<"package", p>> : p \in
                        {q \in Package : ~Silent /\ package[q] \in {"open", "fetched"}}}
  IN  /\ ToSet(rows) = (IF enabled THEN open ELSE {})
      /\ IsInjective(rows)
      /\ active = (IF enabled /\ phase[Local] = "open"
                   THEN {n \in Node : node[n] = "open"} ELSE {})

\* Every package of a batch is reported once, with its own outcome, and the
\* counts reported are 1 to the size of the batch (reporter.go:151-160).
BatchIsCounted ==
  LET lines == {i \in DOMAIN log : log[i][1] = "package"}
  IN  batch = "ended" /\ ~Silent =>
        /\ Cardinality(lines) = Cardinality(members)
        /\ \A p \in members : \E i \in lines : log[i][2] = p /\ log[i][3] = Mark(p)
        /\ {log[i][4] : i \in lines} = 1 .. Cardinality(members)

\* The lines of the audits are numbered in the order they are printed: scoreAll
\* counts and prints under one lock (audit_score.go:71-88).
AuditLinesInOrder ==
  \A i \in DOMAIN log : log[i][1] = "audit" =>
    log[i][3] = Cardinality({j \in 1 .. i : log[j][1] = "audit"})

\* The block is on the screen, just above the cursor.
Shown ==
  /\ screen.cursor >= Len(rows)
  /\ SubSeq(screen.lines, screen.cursor - Len(rows) + 1, screen.cursor) = Block

\* A frame that was lost is repainted (print.go:61-62), even if nothing that
\* is shown ever ends.
LostFrameIsRepainted == ~Shown ~> Shown

\* Whatever stopped and restarted the ticker, no goroutine of it outlives the
\* command's work (display.go:124-126).
TickersReturn ==
  command # "running" ~> \A t \in Ticker : goroutine[t] \in {"none", "returned"}

-----------------------------------------------------------------------------
(* The inductive invariant. *)

Row == ({"phase"} \X ({Local} \union Package)) \union ({"package"} \X Package)

LogLine ==
  ({"batch", "log"} \X Nat) \union ({"error"} \X Package)
  \union ({"package"} \X Package \X {"ok", "error"} \X Nat)
  \union ({"audit"} \X Package \X Nat)

Line == LogLine \union ({"row"} \X Row \X SUBSET Node) \union {Blank}

DisplayTypeOK ==
  /\ enabled \in BOOLEAN /\ rows \in Seq(Row) /\ active \subseteq Node /\ painted \in Nat
  /\ running \in BOOLEAN /\ ticker \in 0 .. MaxTickers /\ closed \subseteq Ticker
  /\ running => ticker \in Ticker
  /\ goroutine \in [Ticker -> {"none", "waiting", "ticked", "returned"}]
  /\ screen \in [lines : Seq(Line), cursor : Nat]
  /\ log \in Seq(LogLine) /\ losses \in Nat

SpanTypeOK ==
  /\ members \subseteq Package /\ failed \subseteq members
  /\ phase \in [{Local} \union Package -> {"waiting", "open", "scored", "counted", "ended"}]
  /\ node \in [Node -> {"waiting", "open", "ended"}]
  /\ batch \in {"waiting", "open", "ended"}
  /\ package \in [Package -> {"waiting", "open", "fetched", "retired", "counted", "ended"}]
  /\ batchDone \in Nat /\ count \in [Package -> Nat]
  /\ mu \subseteq Package /\ auditDone \in Nat
  /\ logs \in Nat /\ command \in {"running", "failed", "ended"}

\* Every variable has its type.
TypeOK == DisplayTypeOK /\ SpanTypeOK

\* Spans lie within their parents, and the audits, which alone are counted, come
\* after the local source.
NestingInv ==
  /\ phase[Local] \in {"waiting", "open", "ended"}
  /\ \A n \in Node : /\ node[n] # "waiting" => phase[Local] # "waiting"
                     /\ phase[Local] = "ended" => node[n] = "ended"
  /\ batch # "waiting" => node[Fetcher] # "waiting"
  /\ node[Fetcher] = "ended" => batch = "ended"
  /\ \A p \in Package :
       /\ package[p] # "waiting" => p \in members /\ batch # "waiting"
       /\ p \in members /\ batch = "ended" => package[p] = "ended"
       /\ phase[p] # "waiting" => phase[Local] = "ended"

\* The UI knows what it painted, and paints nothing off a terminal.  Without a
\* lost frame the cursor is below all that was printed and painted.
ScreenInv ==
  /\ painted = Len(rows) /\ (~enabled => rows = <<>>)
  /\ screen.cursor <= Len(screen.lines)
  /\ losses = 0 => screen.cursor = Len(log) + Len(rows)
  /\ ScreenIsLogAndRows

\* The audit that holds the mutex has the last number, and its line is missing.
AuditInv ==
  /\ \A p \in mu : phase[p] = "counted" /\ count[p] = auditDone /\ mu = {p}
  /\ auditDone = Cardinality({i \in DOMAIN log : log[i][1] = "audit"} )
                 + (IF mu = {} THEN 0 ELSE 1)
  /\ AuditLinesInOrder

Counted == {p \in members : package[p] \in {"counted", "ended"}}

\* The numbers given out so far are 1 to batchDone, one to each package counted;
\* each package that is through has one line, with its number, and no other has.
CountInv ==
  /\ batchDone = Cardinality(Counted)
  /\ {count[p] : p \in Counted} = 1 .. batchDone
  /\ \A i \in DOMAIN log : log[i][1] = "package" =>
       /\ log[i][2] \in members /\ package[log[i][2]] = "ended"
       /\ log[i][3] = Mark(log[i][2]) /\ log[i][4] = count[log[i][2]]
  /\ \A i, j \in DOMAIN log :
       log[i][1] = "package" /\ log[j][1] = "package" /\ log[i][2] = log[j][2] => i = j
  /\ \A p \in members : package[p] = "ended" =>
       \E i \in DOMAIN log : log[i][1] = "package" /\ log[i][2] = p

BatchInv == (~Silent /\ batch # "ended" => CountInv) /\ BatchIsCounted

Inv ==
  TypeOK /\ NestingInv /\ RowsAreOpenSpans /\ ScreenInv /\ AuditInv /\ BatchInv
=============================================================================
