------------------------ MODULE PrintLifecycleProofs ------------------------
(***************************************************************************)
(* Proofs about PrintLifecycle: its type invariant, and that a printer has *)
(* at most one job PRINTING while only reports start prints.               *)
(***************************************************************************)
EXTENDS PrintLifecycle, WellFoundedInduction, TLAPS

-----------------------------------------------------------------------------
(* Lemmas about the operators of JobTable, for the proofs about the modules *)
(* that write the table.                                                   *)

\* A set of numbers between 1 and n that is not empty has a greatest one.
LEMMA BoundedMaximum ==
    ASSUME NEW n \in Nat, NEW S \in SUBSET (1..n), S # {}
    PROVE  \E i \in S : \A k \in S : k <= i
<1> DEFINE T  == {n - i : i \in S}
           LT == {ss \in Nat \X Nat : ss[1] < ss[2]}
<1>1. \A i \in S : i \in Nat /\ n - i \in Nat /\ n - i \in T
  OBVIOUS
<1>2. T \subseteq Nat /\ T # {}
  BY <1>1
<1>3. IsWellFoundedOn(LT, Nat)
  BY NatLessThanWellFounded DEF OpToRel
<1> HIDE DEF T, LT
<1>4. PICK x \in T : \A y \in T : ~(<<y, x>> \in LT)
  BY <1>2, <1>3, WFMin, Zenon
<1>5. ASSUME NEW y \in T
      PROVE  x <= y
  <2>1. x \in Nat /\ y \in Nat
    BY <1>2
  <2>2. y < x => <<y, x>> \in LT
    BY <2>1 DEF LT
  <2>3. ~(y < x)
    BY <1>4, <2>2
  <2>4. QED
    BY <2>1, <2>3
<1>6. PICK i \in S : x = n - i
  BY <1>4 DEF T
<1>7. QED
  BY <1>1, <1>5, <1>6

-----------------------------------------------------------------------------
(* The operators on tables keep them well formed.                          *)

\* A table stays one when ids and time go on.
LEMMA TableGrows ==
    ASSUME NEW t, NEW n \in Nat, NEW m \in Nat, NEW ps, NEW c \in Nat, NEW d \in Nat,
           IsTable(t, n, ps, c), n <= m, c <= d
    PROVE  IsTable(t, m, ps, d)
BY DEF IsTable, RowOf, Row

\* Saving a well-formed row gives a table.
LEMMA SaveIsTable ==
    ASSUME NEW t, NEW n \in Nat, NEW ps, NEW c \in Nat, IsTable(t, n, ps, c),
           NEW j \in 1..n, NEW row \in RowOf(ps, c)
    PROVE  IsTable(Save(t, j, row), n, ps, c)
BY DEF IsTable, Save

\* A row that is saved is in the table.
LEMMA SaveSaves ==
    ASSUME NEW t, NEW j, NEW row
    PROVE  /\ DOMAIN Save(t, j, row) = DOMAIN t \cup {j}
           /\ Save(t, j, row)[j] = row
           /\ \A k \in DOMAIN t : k # j => Save(t, j, row)[k] = t[k]
BY DEF Save

\* Moving places up keeps a table.
LEMMA ShiftIsTable ==
    ASSUME NEW t, NEW n \in Nat, NEW ps, NEW c \in Nat, IsTable(t, n, ps, c),
           NEW p, NEW from \in Nat
    PROVE  IsTable(Shift(t, p, from), n, ps, c)
<1> DEFINE up(j) == [t[j] EXCEPT !.position = @ + 1]
<1>1. ASSUME NEW j \in DOMAIN t, t[j].position >= from
      PROVE  up(j) \in RowOf(ps, c)
  BY <1>1 DEF IsTable, RowOf, Row, Unqueued
<1>2. QED
  BY <1>1 DEF IsTable, Shift

\* Closing a gap keeps a table.
LEMMA CompactIsTable ==
    ASSUME NEW t, NEW n \in Nat, NEW ps, NEW c \in Nat, IsTable(t, n, ps, c),
           NEW p, NEW removed \in Nat
    PROVE  IsTable(Compact(t, p, removed), n, ps, c)
<1> DEFINE down(j) == [t[j] EXCEPT !.position = @ - 1]
<1>1. ASSUME NEW j \in DOMAIN t, t[j].position > removed
      PROVE  down(j) \in RowOf(ps, c)
  BY <1>1 DEF IsTable, RowOf, Row, Unqueued
<1>2. QED
  BY <1>1 DEF IsTable, Compact

\* A row of a table is a well-formed row.
LEMMA RowOfTable ==
    ASSUME NEW t, NEW n \in Nat, NEW ps, NEW c \in Nat, IsTable(t, n, ps, c),
           NEW j \in DOMAIN t
    PROVE  /\ t[j] \in RowOf(ps, c)
           /\ t[j] \in Row
           /\ t[j].printer \in ps \cup {NoPrinter}
           /\ t[j].position \in Nat \cup {Unqueued}
           /\ j \in 1..n
BY DEF IsTable, RowOf, Row

\* Ending a job keeps a well-formed row.
LEMMA EndIsRow ==
    ASSUME NEW ps, NEW c, NEW row \in RowOf(ps, c), NEW s \in Statuses
    PROVE  /\ End(row, s) \in RowOf(ps, c)
           /\ End(row, s).status = s
           /\ End(row, s).printer = row.printer
           /\ End(row, s).started = row.started
BY DEF End, RowOf, Row

\* Removing a job keeps a table.
LEMMA RemoveIsTable ==
    ASSUME NEW t, NEW n \in Nat, NEW ps, NEW c \in Nat, IsTable(t, n, ps, c), NEW j
    PROVE  IsTable(Remove(t, j), n, ps, c)
BY DEF IsTable, Remove

\* The foreign key's SET NULL keeps a table of the printers that remain.
LEMMA DeletePrinterTypeOK ==
    ASSUME TableTypeOK, NEW p, DeletePrinter(p)
    PROVE  TableTypeOK'
<1>1. ASSUME NEW j \in DOMAIN jobs
      PROVE  (IF jobs[j].printer = p THEN [jobs[j] EXCEPT !.printer = NoPrinter] ELSE jobs[j])
                \in RowOf(printers \ {p}, clock)
  BY DEF TableTypeOK, IsTable, RowOf, Row
<1>2. IsTable(jobs', lastId, printers \ {p}, clock)
  BY <1>1 DEF DeletePrinter, TableTypeOK, IsTable
<1>3. QED
  BY <1>2 DEF DeletePrinter, TableTypeOK

-----------------------------------------------------------------------------
(* Type correctness.                                                       *)

\* Giving up the row of another file keeps a table.
LEMMA SupersededIsTable ==
    ASSUME NEW t, NEW n \in Nat, NEW ps, NEW c \in Nat, IsTable(t, n, ps, c), NEW p, NEW f
    PROVE  IsTable(Superseded(t, p, f), n, ps, c)
<1>1. ASSUME NEW j \in DOMAIN t
      PROVE  End(t[j], "UNKNOWN") \in RowOf(ps, c) /\ t[j] \in RowOf(ps, c)
  BY RowOfTable, EndIsRow DEF Statuses
<1>2. QED
  BY <1>1 DEF IsTable, Superseded

\* What a report makes of the job it starts is a row of the same printer.
LEMMA StartIsRow ==
    ASSUME NEW row \in Row, NEW stamp \in Nat
    PROVE  /\ Start(row, stamp) \in Row
           /\ Start(row, stamp).printer = row.printer
           /\ Start(row, stamp).started = stamp
           /\ Start(row, stamp).status = "PRINTING"
           /\ Start(row, stamp).ended = row.ended
           /\ Start(row, stamp).position = row.position
BY DEF Start, Row, Statuses

\* A report that a print goes on or began keeps the table well formed.
LEMMA ReportPrintingTypeOK ==
    ASSUME TableTypeOK, NEW p, NEW f \in Files, ReportPrinting(p, f)
    PROVE  TableTypeOK'
<1> USE TableAssumption
<1> DEFINE t == Superseded(jobs, p, f)
           a == Attributed(t, p, f)
<1>1. /\ lastId \in Nat /\ clock \in Nat /\ clock + 1 \in Nat /\ clock' = clock + 1
      /\ printers \subseteq Printers /\ p \in printers /\ printers' = printers
      /\ clock' \in 0..MaxClock
  BY DEF TableTypeOK, ReportPrinting
<1>2. IsTable(t, lastId, printers, clock)
  BY <1>1, SupersededIsTable DEF TableTypeOK
<1>3. a \subseteq DOMAIN t
  BY DEF Attributed, LatestCreated
<1> HIDE DEF t, a
<1>4. CASE \E j \in a : /\ jobs' = Save(t, j, Start(t[j], clock'))
                        /\ UNCHANGED lastId
  <2>1. PICK j \in a : jobs' = Save(t, j, Start(t[j], clock')) /\ UNCHANGED lastId
    BY <1>4
  <2>2. t[j] \in Row /\ t[j].printer \in printers \cup {NoPrinter} /\ j \in 1..lastId
    BY <1>1, <1>2, <1>3, RowOfTable
  <2>3. Start(t[j], clock') \in RowOf(printers, clock')
    BY <1>1, <2>2, StartIsRow DEF RowOf
  <2>4. IsTable(t, lastId, printers, clock')
    BY <1>1, <1>2, TableGrows
  <2>5. IsTable(jobs', lastId, printers, clock')
    BY <1>1, <2>1, <2>2, <2>3, <2>4, SaveIsTable
  <2>6. QED
    BY <1>1, <2>1, <2>5 DEF TableTypeOK
<1>5. CASE /\ lastId < MaxJobs
           /\ \E state \in IF a = {} THEN {"NOT_ANALYZED"} ELSE {t[j].analysis : j \in a} :
                 jobs' = Insert(t, NewRow(p, f, "PRINTING", FALSE, clock', state))
           /\ lastId' = lastId + 1
  <2>1. PICK state \in IF a = {} THEN {"NOT_ANALYZED"} ELSE {t[j].analysis : j \in a} :
                 jobs' = Insert(t, NewRow(p, f, "PRINTING", FALSE, clock', state))
    BY <1>5
  <2>2. \A j \in DOMAIN t : t[j].analysis \in AnalysisStates
    BY <1>2 DEF IsTable, RowOf, Row
  <2>3. state \in AnalysisStates
    BY <1>3, <2>2 DEF AnalysisStates
  <2>4. NewRow(p, f, "PRINTING", FALSE, clock', state) \in RowOf(printers, clock')
    BY <1>1, <2>3 DEF NewRow, RowOf, Row, Statuses
  <2>5. lastId + 1 \in Nat /\ lastId + 1 \in 1..(lastId + 1) /\ lastId' \in 0..MaxJobs
    BY <1>1, <1>5
  <2>6. IsTable(t, lastId + 1, printers, clock')
    BY <1>1, <1>2, <2>5, TableGrows
  <2>7. IsTable(jobs', lastId + 1, printers, clock')
    BY <1>1, <2>1, <2>4, <2>5, <2>6, SaveIsTable DEF Insert
  <2>8. QED
    BY <1>1, <1>5, <2>5, <2>7 DEF TableTypeOK
<1>6. QED
  BY <1>4, <1>5 DEF ReportPrinting, t, a

\* Every report and every correction keeps the table well formed.
LEMMA LifecycleStepTypeOK == TableTypeOK /\ LifecycleNext => TableTypeOK'
<1> SUFFICES ASSUME TableTypeOK, LifecycleNext PROVE TableTypeOK'
  OBVIOUS
<1> USE TableAssumption
<1>0. /\ lastId \in Nat /\ lastId <= MaxJobs
      /\ clock \in Nat /\ clock <= MaxClock
      /\ printers \subseteq Printers
      /\ IsTable(jobs, lastId, printers, clock)
  BY DEF TableTypeOK
<1>1. ASSUME NEW j \in DOMAIN jobs, NEW row \in RowOf(printers, clock),
             jobs' = Save(jobs, j, row), UNCHANGED <<lastId, clock, printers>>
      PROVE  TableTypeOK'
  <2>1. j \in 1..lastId
    BY <1>0, RowOfTable
  <2>2. IsTable(jobs', lastId, printers, clock)
    BY <1>0, <1>1, <2>1, SaveIsTable
  <2>3. QED
    BY <1>1, <2>2 DEF TableTypeOK
<1>2. ASSUME NEW j \in DOMAIN jobs, NEW s \in Statuses
      PROVE  End(jobs[j], s) \in RowOf(printers, clock)
  BY <1>0, RowOfTable, EndIsRow
<1>3. ASSUME NEW p \in printers, NEW f \in Files, CreateUploadedJob(p, f)
      PROVE  TableTypeOK'
  <2>1. PICK a \in {"ANALYZED", "NOT_ANALYZED"} :
           jobs' = Insert(jobs, NewRow(p, f, "PENDING", TRUE, 0, a))
    BY <1>3 DEF CreateUploadedJob
  <2>2. NewRow(p, f, "PENDING", TRUE, 0, a) \in RowOf(printers, clock)
    BY <1>0 DEF NewRow, RowOf, Row, Statuses, AnalysisStates
  <2>3. lastId + 1 \in Nat /\ lastId + 1 \in 1..(lastId + 1)
    BY <1>0
  <2>4. IsTable(jobs, lastId + 1, printers, clock)
    BY <1>0, <2>3, TableGrows
  <2>5. IsTable(jobs', lastId + 1, printers, clock)
    BY <1>0, <2>1, <2>2, <2>3, <2>4, SaveIsTable DEF Insert
  <2>6. lastId' = lastId + 1 /\ lastId' \in 0..MaxJobs /\ UNCHANGED <<clock, printers>>
    BY <1>0, <1>3 DEF CreateUploadedJob
  <2>7. QED
    BY <2>5, <2>6 DEF TableTypeOK
<1>4. ASSUME NEW p, NEW s \in Statuses, EndPrinting(p, s)
      PROVE  TableTypeOK'
  <2>1. PICK j \in LatestPrinting(jobs, p) : jobs' = Save(jobs, j, End(jobs[j], s))
    BY <1>4 DEF EndPrinting
  <2>2. j \in DOMAIN jobs
    BY DEF LatestPrinting, Printing
  <2>3. QED
    BY <1>1, <1>2, <1>4, <2>1, <2>2 DEF EndPrinting
<1>5. ASSUME NEW j \in DOMAIN jobs, NEW from, NEW row \in RowOf(printers, clock),
             Correct(j, from, row)
      PROVE  TableTypeOK'
  BY <1>1, <1>5 DEF Correct
<1>6. CASE Report
  <2>1. PICK p \in printers, f \in Files :
           ReportPrinting(p, f) \/ ReportFinished(p, f) \/ ReportFailed(p, f)
    BY <1>6 DEF Report
  <2>2. QED
    BY <1>4, <2>1, ReportPrintingTypeOK DEF ReportFinished, ReportFailed, Statuses
<1>7. ASSUME NEW p \in printers, ReportIdle(p)
      PROVE  TableTypeOK'
  BY <1>4, <1>7 DEF ReportIdle, Statuses
<1>8. CASE Operator
  <2>1. PICK j \in DOMAIN jobs :
           SetCompleted(j) \/ SetFailed(j) \/ SetCancelled(j) \/ SetUnknown(j) \/ DeleteJob(j)
    BY <1>8 DEF Operator
  <2>2. [jobs[j] EXCEPT !.status = "UNKNOWN"] \in RowOf(printers, clock)
    BY <1>0 DEF IsTable, RowOf, Row, Statuses
  <2>3. CASE SetCompleted(j) \/ SetFailed(j) \/ SetCancelled(j) \/ SetUnknown(j)
    BY <1>2, <1>5, <2>2, <2>3 DEF SetCompleted, SetFailed, SetCancelled, SetUnknown, Statuses
  <2>4. CASE DeleteJob(j)
    BY <1>0, <2>4, RemoveIsTable DEF DeleteJob, TableTypeOK
  <2>5. QED
    BY <2>1, <2>3, <2>4
<1>9. QED
  BY <1>3, <1>6, <1>7, <1>8, DeletePrinterTypeOK DEF LifecycleNext

\* The table is empty at first.
LEMMA InitTypeOK == TableInit => TableTypeOK
BY TableAssumption DEF TableInit, TableTypeOK, IsTable

\* Every row, id, timestamp and printer is well formed, in every behaviour
\* of the reports and corrections.
THEOREM LifecycleTypeOK == LifecycleSpec => []TableTypeOK
<1>1. TableTypeOK /\ UNCHANGED tableVars => TableTypeOK'
  BY DEF tableVars, TableTypeOK
<1>2. QED
  BY <1>1, InitTypeOK, LifecycleStepTypeOK, PTL DEF LifecycleSpec

-----------------------------------------------------------------------------
(* One job PRINTING per printer.                                           *)

\* If a printer has at most one job PRINTING, no report leaves a second one
\* beside it: handlePrintStarted gives up the old one, of another file.
LEMMA ReportPrintingOne ==
    ASSUME TableTypeOK, OnePrintingPerPrinter, NEW p, NEW f \in Files, ReportPrinting(p, f)
    PROVE  OnePrintingPerPrinter'
<1> USE TableAssumption
<1> DEFINE t == Superseded(jobs, p, f)
           a == Attributed(t, p, f)
<1>1. /\ lastId \in Nat /\ IsTable(jobs, lastId, printers, clock) /\ clock \in Nat
      /\ p \in Printers /\ p \in printers
  BY DEF TableTypeOK, ReportPrinting
<1>2. \A j, k \in Printing(jobs, p) : j = k
  BY <1>1 DEF OnePrintingPerPrinter
<1>3. Printing(jobs, p) \subseteq LatestPrinting(jobs, p)
  <2>1. \A j \in DOMAIN jobs : jobs[j].started \in Nat
    BY <1>1 DEF IsTable, RowOf, Row
  <2>2. QED
    BY <1>2, <2>1 DEF LatestPrinting, Printing
<1>4. /\ DOMAIN t = DOMAIN jobs
      /\ \A j \in DOMAIN jobs :
            /\ t[j].printer = jobs[j].printer
            /\ t[j].status = "PRINTING" => jobs[j].status = "PRINTING" /\ j \notin Printing(jobs, p)
  <2>1. DOMAIN t = DOMAIN jobs
    BY DEF Superseded
  <2>2. ASSUME NEW j \in DOMAIN jobs
        PROVE  /\ t[j].printer = jobs[j].printer
               /\ t[j].status = "PRINTING" => jobs[j].status = "PRINTING" /\ j \notin Printing(jobs, p)
    <3>1. /\ End(jobs[j], "UNKNOWN").printer = jobs[j].printer
          /\ End(jobs[j], "UNKNOWN").status = "UNKNOWN"
      BY <1>1, RowOfTable, EndIsRow DEF Statuses
    <3>2. j \in Printing(jobs, p) => t[j] = End(jobs[j], "UNKNOWN")
      BY <1>3 DEF ReportPrinting, Superseded
    <3>3. t[j] = jobs[j] \/ t[j] = End(jobs[j], "UNKNOWN")
      BY DEF Superseded
    <3> HIDE DEF t
    <3>4. QED
      BY <3>1, <3>2, <3>3
  <2>3. QED
    BY <2>1, <2>2
<1>5. \A j \in a : j \in DOMAIN t /\ t[j].printer = p
  BY DEF Attributed, LatestCreated
<1>6. IsTable(t, lastId, printers, clock)
  BY <1>1, SupersededIsTable
<1> HIDE DEF t, a
<1>7. \E m : /\ DOMAIN jobs' = DOMAIN t \cup {m}
             /\ jobs'[m].printer = p
             /\ \A j \in DOMAIN t : j # m => jobs'[j] = t[j]
  <2>1. ASSUME NEW j \in a, jobs' = Save(t, j, Start(t[j], clock'))
        PROVE  /\ DOMAIN jobs' = DOMAIN t \cup {j}
               /\ jobs'[j].printer = p
               /\ \A k \in DOMAIN t : k # j => jobs'[k] = t[k]
    <3>1. t[j] \in Row /\ clock' \in Nat
      BY <1>1, <1>5, <1>6, RowOfTable DEF ReportPrinting
    <3>2. Start(t[j], clock').printer = p
      BY <1>5, <3>1, StartIsRow
    <3>3. QED
      BY <2>1, <3>2 DEF Save
  <2>2. ASSUME NEW state,
               jobs' = Insert(t, NewRow(p, f, "PRINTING", FALSE, clock', state))
        PROVE  /\ DOMAIN jobs' = DOMAIN t \cup {lastId + 1}
               /\ jobs'[lastId + 1].printer = p
               /\ \A k \in DOMAIN t : k # lastId + 1 => jobs'[k] = t[k]
    BY <2>2 DEF Insert, Save, NewRow
  <2>3. QED
    BY <2>1, <2>2 DEF ReportPrinting, t, a
<1>8. PICK m : /\ DOMAIN jobs' = DOMAIN t \cup {m}
               /\ jobs'[m].printer = p
               /\ \A j \in DOMAIN t : j # m => jobs'[j] = t[j]
  BY <1>7
<1>9. Printing(jobs', p) \subseteq {m}
  BY <1>4, <1>8 DEF Printing
<1>10. \A q \in Printers \ {p} : Printing(jobs', q) \subseteq Printing(jobs, q)
  BY <1>4, <1>8 DEF Printing
<1>11. QED
  BY <1>9, <1>10 DEF OnePrintingPerPrinter

\* A step after which no printer has a job PRINTING that it did not have
\* before keeps the invariant.
LEMMA FewerPrinting ==
    ASSUME OnePrintingPerPrinter,
           \A p \in Printers : Printing(jobs', p) \subseteq Printing(jobs, p)
    PROVE  OnePrintingPerPrinter'
BY DEF OnePrintingPerPrinter

\* Every report and every correction leaves a printer at most one job
\* PRINTING.
LEMMA LifecycleStepOne ==
    TableTypeOK /\ OnePrintingPerPrinter /\ LifecycleNext => OnePrintingPerPrinter'
<1> SUFFICES ASSUME TableTypeOK, OnePrintingPerPrinter, LifecycleNext
             PROVE  OnePrintingPerPrinter'
  OBVIOUS
<1> USE TableAssumption
<1>0. lastId \in Nat /\ IsTable(jobs, lastId, printers, clock) /\ clock \in Nat
  BY DEF TableTypeOK
<1>1. ASSUME NEW j \in DOMAIN jobs, NEW row, jobs' = Save(jobs, j, row),
             row.status # "PRINTING"
      PROVE  OnePrintingPerPrinter'
  <2>1. \A p \in Printers : Printing(jobs', p) \subseteq Printing(jobs, p)
    BY <1>1 DEF Printing, Save
  <2>2. QED
    BY <2>1, FewerPrinting
<1>2. ASSUME NEW j \in DOMAIN jobs, NEW s \in Statuses \ {"PRINTING"}
      PROVE  End(jobs[j], s).status # "PRINTING"
  BY <1>0, <1>2, RowOfTable, EndIsRow
<1>3. ASSUME NEW p \in printers, NEW f \in Files, CreateUploadedJob(p, f)
      PROVE  OnePrintingPerPrinter'
  <2>1. PICK a : jobs' = Insert(jobs, NewRow(p, f, "PENDING", TRUE, 0, a))
    BY <1>3 DEF CreateUploadedJob
  <2>2. \A q \in Printers : Printing(jobs', q) \subseteq Printing(jobs, q)
    BY <2>1 DEF Printing, Insert, Save, NewRow
  <2>3. QED
    BY <2>2, FewerPrinting
<1>4. ASSUME NEW p, NEW s \in Statuses \ {"PRINTING"}, EndPrinting(p, s)
      PROVE  OnePrintingPerPrinter'
  BY <1>1, <1>2, <1>4 DEF EndPrinting, LatestPrinting, Printing
<1>5. CASE Report
  <2>1. PICK p \in printers, f \in Files :
           ReportPrinting(p, f) \/ ReportFinished(p, f) \/ ReportFailed(p, f)
    BY <1>5 DEF Report
  <2>2. QED
    BY <1>4, <2>1, ReportPrintingOne DEF ReportFinished, ReportFailed, Statuses
<1>6. ASSUME NEW p \in printers, ReportIdle(p)
      PROVE  OnePrintingPerPrinter'
  BY <1>4, <1>6 DEF ReportIdle, Statuses
<1>7. CASE Operator
  <2>1. PICK j \in DOMAIN jobs :
           SetCompleted(j) \/ SetFailed(j) \/ SetCancelled(j) \/ SetUnknown(j) \/ DeleteJob(j)
    BY <1>7 DEF Operator
  <2>2. jobs[j] \in Row
    BY <1>0, RowOfTable
  <2>3. [jobs[j] EXCEPT !.status = "UNKNOWN"].status # "PRINTING"
    BY <2>2 DEF Row
  <2>4. CASE SetCompleted(j) \/ SetFailed(j) \/ SetCancelled(j) \/ SetUnknown(j)
    BY <1>1, <1>2, <2>3, <2>4
       DEF SetCompleted, SetFailed, SetCancelled, SetUnknown, Correct, Statuses
  <2>5. CASE DeleteJob(j)
    <3>1. \A p \in Printers : Printing(jobs', p) \subseteq Printing(jobs, p)
      BY <2>5 DEF DeleteJob, Remove, Printing
    <3>2. QED
      BY <3>1, FewerPrinting
  <2>6. QED
    BY <2>1, <2>4, <2>5
<1>8. ASSUME NEW p \in printers, DeletePrinter(p)
      PROVE  OnePrintingPerPrinter'
  <2>1. ASSUME NEW q \in Printers, NEW j \in Printing(jobs', q)
        PROVE  j \in Printing(jobs, q)
    <3>1. j \in DOMAIN jobs /\ jobs[j] \in Row
      BY <1>0, <1>8, <2>1, RowOfTable DEF DeletePrinter, Printing
    <3>2. [jobs[j] EXCEPT !.printer = NoPrinter].printer = NoPrinter
      BY <3>1 DEF Row
    <3>3. jobs[j].printer # p
      BY <1>8, <2>1, <3>1, <3>2 DEF DeletePrinter, Printing
    <3>4. QED
      BY <1>8, <2>1, <3>1, <3>3 DEF DeletePrinter, Printing
  <2>2. QED
    BY <2>1, FewerPrinting
<1>9. QED
  BY <1>3, <1>5, <1>6, <1>7, <1>8 DEF LifecycleNext

\* A printer has at most one job PRINTING, in every behaviour of the reports
\* and corrections.
THEOREM LifecycleOnePrinting == LifecycleSpec => []OnePrintingPerPrinter
<1>1. TableInit => OnePrintingPerPrinter
  BY DEF TableInit, OnePrintingPerPrinter, Printing
<1>2. OnePrintingPerPrinter /\ UNCHANGED tableVars => OnePrintingPerPrinter'
  BY DEF tableVars, OnePrintingPerPrinter, Printing
<1>3. QED
  BY <1>1, <1>2, LifecycleStepOne, LifecycleTypeOK, PTL DEF LifecycleSpec

=============================================================================
