-------------------------- MODULE PrintFarmProofs ---------------------------
(***************************************************************************)
(* Proofs about PrintFarm: its type invariant, that the histories of jobs  *)
(* are consistent, that jobs do not come to share a place in a queue, that *)
(* their order is kept, and that the gap of one that leaves is closed.     *)
(***************************************************************************)
EXTENDS PrintFarm, PrintLifecycleProofs

-----------------------------------------------------------------------------
(* Type correctness.                                                       *)

\* What a submission makes of a row is a row of its printer.
LEMMA LaunchedIsRow ==
    ASSUME NEW row \in Row, NEW p \in Printers, NEW stamp \in Nat
    PROVE  /\ Launched(row, p, stamp) \in Row
           /\ Launched(row, p, stamp).printer = p
           /\ Launched(row, p, stamp).started = stamp
BY DEF Launched, Row, Statuses

\* Every operation on the queue, and every end of an upload, keeps the rows
\* and the suspended submissions well formed.
LEMMA QueueStepTypeOK == QueueTypeOK /\ QueueNext => QueueTypeOK'
<1> SUFFICES ASSUME QueueTypeOK, QueueNext PROVE QueueTypeOK'
  OBVIOUS
<1> USE TableAssumption
<1>0. /\ lastId \in Nat /\ lastId <= MaxJobs
      /\ clock \in Nat /\ clock <= MaxClock
      /\ printers \subseteq Printers
      /\ IsTable(jobs, lastId, printers, clock)
  BY DEF QueueTypeOK, TableTypeOK
<1>1. ASSUME NEW row \in RowOf(printers, clock), NEW p \in printers, NEW n \in Nat
      PROVE  Queued(row, p, n) \in RowOf(printers, clock)
  BY <1>0 DEF Queued, RowOf, Row, Statuses
<1>2. ASSUME NEW p \in printers, NEW j \in DOMAIN jobs, AddToQueue(p, j)
      PROVE  QueueTypeOK'
  <2>1. j \in 1..lastId /\ jobs[j] \in RowOf(printers, clock)
    BY <1>0, RowOfTable
  <2>2. IsTable(jobs', lastId, printers, clock)
    <3>1. CASE AppendTo(jobs, j, jobs[j], p)
      BY <1>0, <1>1, <2>1, <3>1, SaveIsTable DEF AppendTo
    <3>2. CASE \E n \in 0..MaxPosition : InsertAt(jobs, j, jobs[j], p, n)
      <4>1. PICK n \in 0..MaxPosition : InsertAt(jobs, j, jobs[j], p, n)
        BY <3>2
      <4>2. n \in Nat
        OBVIOUS
      <4>3. IsTable(Shift(jobs, p, n), lastId, printers, clock)
        BY <1>0, <4>2, ShiftIsTable
      <4>4. QED
        BY <1>0, <1>1, <2>1, <4>1, <4>2, <4>3, SaveIsTable DEF InsertAt
    <3>3. QED
      BY <1>2, <3>1, <3>2 DEF AddToQueue
  <2>3. QED
    BY <1>2, <2>2 DEF AddToQueue, QueueTypeOK, TableTypeOK
<1>3. ASSUME NEW j \in DOMAIN jobs, RemoveFromQueue(j)
      PROVE  QueueTypeOK'
  <2> DEFINE row  == jobs[j]
             out  == Withdrawn(row)
             t    == Save(jobs, j, out)
  <2>1. j \in 1..lastId /\ row \in RowOf(printers, clock)
    BY <1>0, RowOfTable
  <2>2. out \in RowOf(printers, clock)
    <3>1. CASE row.status = "QUEUED"
      BY <2>1, <3>1 DEF Withdrawn, RowOf, Row, Statuses
    <3>2. CASE row.status # "QUEUED"
      BY <2>1, <3>2 DEF Withdrawn, RowOf, Row, Statuses
    <3>3. QED
      BY <3>1, <3>2
  <2>3. IsTable(t, lastId, printers, clock)
    BY <1>0, <2>1, <2>2, SaveIsTable
  <2>4. IsTable(jobs', lastId, printers, clock)
    <3>1. row.position # Unqueued => row.position \in Nat
      BY <2>1 DEF RowOf, Row
    <3>2. row.position \in Nat => IsTable(Compact(t, row.printer, row.position), lastId, printers, clock)
      BY <1>0, <2>3, CompactIsTable
    <3>3. QED
      BY <1>3, <2>3, <3>1, <3>2 DEF RemoveFromQueue
  <2>5. QED
    BY <1>3, <2>4 DEF RemoveFromQueue, QueueTypeOK, TableTypeOK
<1>4. ASSUME NEW p \in printers, NEW order \in ReorderRequests, ReorderQueue(p, order)
      PROVE  QueueTypeOK'
  <2> DEFINE listed(j) == jobs[j].printer = p /\ j \in Listed(order)
             last(j) == CHOOSE i \in 1..Len(order) :
                 order[i] = j /\ \A k \in 1..Len(order) : order[k] = j => k <= i
  <2>1. jobs' = [j \in DOMAIN jobs |->
                   IF listed(j) THEN [jobs[j] EXCEPT !.position = last(j) - 1] ELSE jobs[j]]
    BY <1>4 DEF ReorderQueue, Reordered
  <2>2. ASSUME NEW j \in DOMAIN jobs, listed(j)
        PROVE  last(j) \in 1..Len(order)
    <3>1. order \in Seq(JobIds)
      BY ReorderAssumption
    <3> DEFINE hits == {i \in 1..Len(order) : order[i] = j}
    <3>2. \E i \in hits : \A k \in hits : k <= i
      <4>1. Len(order) \in Nat /\ hits \in SUBSET (1..Len(order)) /\ hits # {}
        BY <2>2, <3>1 DEF Listed
      <4> HIDE DEF hits
      <4>2. QED
        BY <4>1, BoundedMaximum
    <3>3. QED
      BY <3>2
  <2>3. IsTable(jobs', lastId, printers, clock)
    <3>1. ASSUME NEW j \in DOMAIN jobs, listed(j)
          PROVE  [jobs[j] EXCEPT !.position = last(j) - 1] \in RowOf(printers, clock)
      <4>1. last(j) - 1 \in Nat
        <5>1. last(j) \in 1..Len(order)
          BY <2>2, <3>1
        <5>2. Len(order) \in Nat
          BY ReorderAssumption
        <5> HIDE DEF last
        <5>3. QED
          BY <5>1, <5>2
      <4>2. jobs[j] \in RowOf(printers, clock)
        BY <1>0, RowOfTable
      <4> HIDE DEF last
      <4>3. QED
        BY <4>1, <4>2 DEF RowOf, Row
    <3> HIDE DEF last, listed
    <3>2. QED
      BY <1>0, <2>1, <3>1 DEF IsTable
  <2>4. QED
    BY <1>4, <2>3 DEF ReorderQueue, QueueTypeOK, TableTypeOK
<1>5. ASSUME NEW p \in printers, ClearQueue(p)
      PROVE  QueueTypeOK'
  <2>1. \A j \in DOMAIN jobs :
           [jobs[j] EXCEPT !.status = "PENDING", !.position = Unqueued] \in RowOf(printers, clock)
    BY <1>0 DEF IsTable, RowOf, Row, Statuses
  <2>2. IsTable(jobs', lastId, printers, clock)
    BY <1>0, <1>5, <2>1 DEF ClearQueue, IsTable
  <2>3. QED
    BY <1>5, <2>2 DEF ClearQueue, QueueTypeOK, TableTypeOK
<1>6. ASSUME NEW p \in printers, NEW f \in Files, CreateJobFromFile(p, f)
      PROVE  QueueTypeOK'
  <2> DEFINE row == NewRow(p, f, "PENDING", TRUE, 0, "ANALYZED")
             t   == Insert(jobs, row)
  <2>1. row \in RowOf(printers, clock)
    BY <1>0 DEF NewRow, RowOf, Row, Statuses, AnalysisStates
  <2>2. lastId + 1 \in Nat /\ lastId + 1 \in 1..(lastId + 1)
    BY <1>0
  <2>3. IsTable(t, lastId + 1, printers, clock)
    <3>1. IsTable(jobs, lastId + 1, printers, clock)
      BY <1>0, <2>2, TableGrows
    <3>2. QED
      BY <1>0, <2>1, <2>2, <3>1, SaveIsTable DEF Insert
  <2> HIDE DEF row, t
  <2>4. IsTable(jobs', lastId + 1, printers, clock)
    <3>1. CASE jobs' = t
      BY <2>3, <3>1
    <3>2. CASE AppendTo(t, lastId + 1, row, p)
      BY <1>0, <1>1, <2>1, <2>2, <2>3, <3>2, SaveIsTable DEF AppendTo
    <3>3. CASE \E n \in 0..MaxPosition : InsertAt(t, lastId + 1, row, p, n)
      <4>1. PICK n \in 0..MaxPosition : InsertAt(t, lastId + 1, row, p, n)
        BY <3>3
      <4>2. IsTable(Shift(t, p, n), lastId + 1, printers, clock)
        BY <1>0, <2>2, <2>3, ShiftIsTable
      <4>3. QED
        BY <1>0, <1>1, <2>1, <2>2, <4>1, <4>2, SaveIsTable DEF InsertAt
    <3>4. QED
      BY <1>6, <3>1, <3>2, <3>3 DEF CreateJobFromFile, row, t
  <2>5. /\ lastId' = lastId + 1 /\ lastId' \in 0..MaxJobs
        /\ UNCHANGED <<clock, printers, uploads>>
    BY <1>0, <1>6 DEF CreateJobFromFile
  <2>6. \A u \in uploads' : u \in Upload /\ u.job <= lastId' /\ u.at <= clock'
    BY <1>0, <2>5 DEF QueueTypeOK, Upload, JobIds
  <2>7. QED
    BY <1>0, <2>4, <2>5, <2>6 DEF QueueTypeOK, TableTypeOK
<1>7. ASSUME NEW p \in printers, NEW j \in DOMAIN jobs, SubmitToPrinter(p, j)
      PROVE  QueueTypeOK'
  <2> DEFINE row == jobs[j]
             s   == IF row.position # Unqueued THEN Compact(jobs, p, row.position) ELSE jobs
             out == Launched(row, p, clock + 1)
             t   == Submitted(jobs, p, j, clock + 1)
  <2>1. j \in 1..lastId /\ row \in RowOf(printers, clock)
    BY <1>0, RowOfTable
  <2>2. out \in RowOf(printers, clock + 1)
    <3>1. row \in Row /\ p \in Printers /\ clock + 1 \in Nat
      BY <1>0, <2>1 DEF RowOf
    <3>2. out \in Row /\ out.printer = p /\ out.started = clock + 1
      BY <3>1, LaunchedIsRow
    <3> HIDE DEF out
    <3>3. QED
      BY <1>0, <3>2 DEF RowOf
  <2>3. IsTable(s, lastId, printers, clock)
    <3>1. row.position # Unqueued => row.position \in Nat
      BY <2>1 DEF RowOf, Row
    <3>2. QED
      BY <1>0, <3>1, CompactIsTable
  <2>4. t = Save(s, j, out)
    BY DEF Submitted
  <2>5. clock + 1 \in Nat /\ clock <= clock + 1
    BY <1>0
  <2> HIDE DEF s, out, t
  <2>6. IsTable(t, lastId, printers, clock + 1)
    <3>1. IsTable(s, lastId, printers, clock + 1)
      BY <1>0, <2>3, <2>5, TableGrows
    <3>2. QED
      BY <1>0, <2>1, <2>2, <2>4, <2>5, <3>1, SaveIsTable
  <2>7. IsTable(Save(t, j, End(t[j], "FAILED")), lastId, printers, clock + 1)
    <3>1. t[j] = out
      <4>1. Save(s, j, out)[j] = out
        BY DEF Save
      <4>2. QED
        BY <2>4, <4>1
    <3>2. End(out, "FAILED") \in RowOf(printers, clock + 1)
      BY <2>2 DEF End, RowOf, Row, Statuses
    <3>3. QED
      BY <1>0, <2>1, <2>5, <2>6, <3>1, <3>2, SaveIsTable
  <2>8. clock' = clock + 1 /\ clock' <= MaxClock /\ UNCHANGED <<lastId, printers>>
    BY <1>0, <1>7 DEF SubmitToPrinter
  <2>9. IsTable(jobs', lastId, printers, clock')
    BY <1>7, <2>6, <2>7, <2>8 DEF SubmitToPrinter, t
  <2>10. uploads' \subseteq Upload /\ \A u \in uploads' : u.job <= lastId /\ u.at <= clock'
    <3>1. [job |-> j, printer |-> p, at |-> clock', position |-> row.position] \in Upload
      BY <1>0, <2>1, <2>8 DEF Upload, JobIds, RowOf, Row
    <3>2. \A u \in uploads : u \in Upload /\ u.job <= lastId /\ u.at <= clock
      BY DEF QueueTypeOK
    <3>3. \A u \in uploads : u.job <= lastId /\ u.at <= clock'
      BY <1>0, <2>8, <3>2 DEF Upload
    <3>4. \/ uploads' = uploads
          \/ uploads' = uploads \cup
               {[job |-> j, printer |-> p, at |-> clock', position |-> row.position]}
      BY <1>7 DEF SubmitToPrinter
    <3>5. QED
      BY <1>0, <2>1, <2>8, <3>1, <3>2, <3>3, <3>4
  <2>11. QED
    BY <1>0, <2>8, <2>9, <2>10 DEF QueueTypeOK, TableTypeOK
<1>8. ASSUME NEW u \in uploads, UploadSucceeds(u)
      PROVE  QueueTypeOK'
  <2> DEFINE out == [jobs[u.job] EXCEPT !.position = Unqueued]
  <2>1. u \in Upload /\ u.job \in JobIds /\ (u.position # Unqueued => u.position \in Nat)
    BY DEF QueueTypeOK, Upload
  <2>2. ASSUME u.position # Unqueued, u.job \in DOMAIN jobs
        PROVE  IsTable(Compact(Save(jobs, u.job, out), u.printer, u.position),
                       lastId, printers, clock)
    <3>1. u.job \in 1..lastId /\ jobs[u.job] \in RowOf(printers, clock)
      BY <1>0, <2>2, RowOfTable
    <3>2. out \in RowOf(printers, clock)
      BY <3>1 DEF RowOf, Row
    <3>3. IsTable(Save(jobs, u.job, out), lastId, printers, clock)
      BY <1>0, <3>1, <3>2, SaveIsTable
    <3>4. QED
      BY <1>0, <2>1, <2>2, <3>3, CompactIsTable
  <2>3. IsTable(jobs', lastId, printers, clock)
    BY <1>0, <1>8, <2>2 DEF UploadSucceeds
  <2>4. QED
    BY <1>8, <2>3 DEF UploadSucceeds, QueueTypeOK, TableTypeOK
<1>9. ASSUME NEW u \in uploads, UploadFails(u)
      PROVE  QueueTypeOK'
  <2>1. ASSUME u.job \in DOMAIN jobs
        PROVE  IsTable(Save(jobs, u.job, End(jobs[u.job], "FAILED")), lastId, printers, clock)
    <3>1. u.job \in 1..lastId /\ jobs[u.job] \in RowOf(printers, clock)
      BY <1>0, <2>1, RowOfTable
    <3>2. End(jobs[u.job], "FAILED") \in RowOf(printers, clock)
      BY <3>1 DEF End, RowOf, Row, Statuses
    <3>3. QED
      BY <1>0, <3>1, <3>2, SaveIsTable
  <2>2. IsTable(jobs', lastId, printers, clock)
    BY <1>0, <1>9, <2>1 DEF UploadFails
  <2>3. QED
    BY <1>9, <2>2 DEF UploadFails, QueueTypeOK, TableTypeOK
<1>10. QED
  BY <1>2, <1>3, <1>4, <1>5, <1>6, <1>7, <1>8, <1>9 DEF QueueNext

\* Reports and corrections give at most one id and one timestamp.
LEMMA LifecycleGoesOn ==
    ASSUME TableTypeOK, LifecycleNext
    PROVE  /\ lastId <= lastId' /\ clock <= clock' /\ printers' \subseteq printers
           /\ lastId' \in Nat /\ clock' \in Nat
<1> USE TableAssumption
<1>1. lastId \in Nat /\ clock \in Nat
  BY DEF TableTypeOK
<1>2. /\ lastId' = lastId \/ lastId' = lastId + 1
      /\ clock' = clock \/ clock' = clock + 1
      /\ printers' = printers \/ \E p : printers' = printers \ {p}
  <2>1. CASE \E p \in printers, f \in Files : CreateUploadedJob(p, f)
    BY <2>1 DEF CreateUploadedJob
  <2>2. CASE Report
    BY <2>2 DEF Report, ReportPrinting, ReportFinished, ReportFailed, EndPrinting
  <2>3. CASE \E p \in printers : ReportIdle(p)
    BY <2>3 DEF ReportIdle, EndPrinting
  <2>4. CASE Operator
    BY <2>4 DEF Operator, SetCompleted, SetFailed, SetCancelled, SetUnknown, Correct, DeleteJob
  <2>5. CASE \E p \in printers : DeletePrinter(p)
    BY <2>5 DEF DeletePrinter
  <2>6. QED
    BY <2>1, <2>2, <2>3, <2>4, <2>5 DEF LifecycleNext
<1>3. QED
  BY <1>1, <1>2

\* So do all handlers together, and a restart.
LEMMA FarmStepTypeOK == QueueTypeOK /\ [FarmNext]_queueVars => QueueTypeOK'
<1> SUFFICES ASSUME QueueTypeOK, [FarmNext]_queueVars PROVE QueueTypeOK'
  OBVIOUS
<1>1. CASE LifecycleNext /\ UNCHANGED uploads
  <2>1. TableTypeOK'
    BY <1>1, LifecycleStepTypeOK DEF QueueTypeOK
  <2>2. \A u \in uploads : u \in Upload /\ u.job \in Nat /\ u.at \in Nat
                           /\ u.job <= lastId /\ u.at <= clock
    BY DEF QueueTypeOK, Upload, JobIds
  <2>3. lastId <= lastId' /\ clock <= clock' /\ lastId' \in Nat /\ clock' \in Nat
    BY <1>1, LifecycleGoesOn DEF QueueTypeOK
  <2>4. lastId \in Nat /\ clock \in Nat
    BY TableAssumption DEF QueueTypeOK, TableTypeOK
  <2>5. \A u \in uploads : u.job <= lastId' /\ u.at <= clock'
    BY <2>2, <2>3, <2>4
  <2>6. QED
    BY <1>1, <2>1, <2>2, <2>5 DEF QueueTypeOK
<1>2. CASE Restart
  BY <1>2 DEF Restart, tableVars, QueueTypeOK, TableTypeOK
<1>3. CASE UNCHANGED queueVars
  BY <1>3 DEF queueVars, QueueTypeOK, TableTypeOK
<1>4. QED
  BY <1>1, <1>2, <1>3, QueueStepTypeOK DEF FarmNext, Handlers

\* Every row, printer, id, timestamp and suspended submission is well formed,
\* in every behaviour of the farm.
THEOREM FarmTypeOK == FarmSpec => []QueueTypeOK
<1>1. QueueInit => QueueTypeOK
  BY InitTypeOK DEF QueueInit, QueueTypeOK
<1>2. QED
  BY <1>1, FarmStepTypeOK, PTL DEF FarmSpec

-----------------------------------------------------------------------------
(* The history of a job: its status and its timestamps stay consistent,    *)
(* whichever handlers run while its submission waits for the printer.      *)
(*                                                                         *)
(* Every step is shown to leave the rows of the table Successors of what   *)
(* they were: a row's print only starts later, its printer changes only if *)
(* it had none or that one is deleted, and it stays consistent.            *)

RowConsistent(r) ==
    /\ r.started = 0 => r.status \in {"PENDING", "QUEUED"}
    /\ r.status \in Finished => r.ended

\* s may come after r when the printers ps are left.
Follows(r, s, ps) ==
    /\ s.started >= r.started
    /\ s.printer = r.printer \/ r.printer \notin ps
    /\ RowConsistent(s)

Successor(t, ps) ==
    /\ \A k \in DOMAIN jobs \cap DOMAIN t : Follows(jobs[k], t[k], ps)
    /\ \A k \in DOMAIN t \ DOMAIN jobs : k = lastId + 1 /\ RowConsistent(t[k])

\* Two rows that differ at most in what history does not depend on
Agree(r, s) ==
    /\ s.printer = r.printer
    /\ s.status = r.status
    /\ s.started = r.started
    /\ s.ended = r.ended

\* t holds the jobs of the table and perhaps m; those but m are unchanged, up
\* to their positions.
Extends(t, m) ==
    /\ DOMAIN jobs \subseteq DOMAIN t
    /\ DOMAIN t \subseteq DOMAIN jobs \cup {m}
    /\ \A k \in DOMAIN jobs \ {m} : Agree(jobs[k], t[k])

\* What the steps start from
Typed == QueueTypeOK /\ \A k \in DOMAIN jobs : RowConsistent(jobs[k])

-----------------------------------------------------------------------------

\* What Typed says of one row and of the counters, without the table.
LEMMA TypedRow ==
    ASSUME Typed
    PROVE  /\ lastId \in Nat /\ clock \in Nat /\ printers \subseteq Printers
           /\ NoPrinter \notin printers
           /\ \A k \in DOMAIN jobs :
                 /\ jobs[k] \in Row /\ jobs[k].started \in Nat
                 /\ jobs[k].started <= clock
                 /\ RowConsistent(jobs[k]) /\ k \in 1..lastId
BY TableAssumption DEF Typed, QueueTypeOK, TableTypeOK, IsTable, RowOf, Row

\* Changing positions agrees with the table.
LEMMA ShiftExtends ==
    ASSUME Typed, NEW t, NEW m, Extends(t, m), \A k \in DOMAIN t : t[k] \in Row,
           NEW p, NEW n
    PROVE  Extends(Shift(t, p, n), m) /\ Extends(Compact(t, p, n), m)
<1>1. ASSUME NEW k \in DOMAIN jobs \ {m}
      PROVE  /\ Agree(jobs[k], Shift(t, p, n)[k])
             /\ Agree(jobs[k], Compact(t, p, n)[k])
  BY DEF Shift, Compact, Agree, Extends, Row
<1>2. QED
  BY <1>1 DEF Extends, Shift, Compact

\* Saving a row that follows, or a new one, over such a table
LEMMA SaveSuccessor ==
    ASSUME Typed, NEW m, NEW t, Extends(t, m), NEW row, NEW ps,
           m \in DOMAIN jobs => Follows(jobs[m], row, ps),
           m \notin DOMAIN jobs => m = lastId + 1 /\ RowConsistent(row)
    PROVE  Successor(Save(t, m, row), ps)
<1>1. \A k \in DOMAIN jobs \ {m} : Follows(jobs[k], t[k], ps)
  BY TypedRow DEF Extends, Agree, Follows, RowConsistent
<1>2. QED
  BY <1>1 DEF Successor, Save, Extends

\* The table as it is extends itself, whatever row may differ.
LEMMA ItselfExtends == ASSUME NEW m PROVE Extends(jobs, m)
BY DEF Extends, Agree

\* Closing a gap after the save
LEMMA CompactSuccessor ==
    ASSUME NEW t, NEW ps, Successor(t, ps), \A k \in DOMAIN t : t[k] \in Row, NEW p, NEW n
    PROVE  Successor(Compact(t, p, n), ps)
<1>1. ASSUME NEW k \in DOMAIN t
      PROVE  Agree(t[k], Compact(t, p, n)[k])
  BY DEF Compact, Agree, Row
<1>2. QED
  BY <1>1 DEF Successor, Follows, RowConsistent, Agree, Compact

\* What the handlers make of a row follows it.
LEMMA RowsFollow ==
    ASSUME NEW r \in Row, RowConsistent(r), NEW ps, NoPrinter \notin ps
    PROVE  /\ Follows(r, r, ps)
           /\ \A p \in Printers, n \in Nat :
                 r.printer \in {NoPrinter, p} => Follows(r, Queued(r, p, n), ps)
           /\ \A p \in Printers, stamp \in Nat \ {0} :
                 r.printer \in {NoPrinter, p} /\ r.started <= stamp
                    => Follows(r, Launched(r, p, stamp), ps)
           /\ \A st \in Statuses : r.started # 0 => Follows(r, End(r, st), ps)
<1>1. r.started \in Nat
  BY DEF Row
<1>2. Follows(r, r, ps)
  BY <1>1 DEF Follows
<1>3. ASSUME NEW p \in Printers, NEW n \in Nat, r.printer \in {NoPrinter, p}
      PROVE  Follows(r, Queued(r, p, n), ps)
  BY <1>1, <1>3 DEF Follows, Queued, RowConsistent, Row, Finished
<1>4. ASSUME NEW p \in Printers, NEW stamp \in Nat \ {0}, r.printer \in {NoPrinter, p},
             r.started <= stamp
      PROVE  Follows(r, Launched(r, p, stamp), ps)
  BY <1>1, <1>4 DEF Follows, Launched, RowConsistent, Row, Finished
<1>5. ASSUME NEW st \in Statuses, r.started # 0
      PROVE  Follows(r, End(r, st), ps)
  BY <1>1, <1>5 DEF Follows, End, RowConsistent, Row
<1>6. QED
  BY <1>2, <1>3, <1>4, <1>5

-----------------------------------------------------------------------------
(* The queue.                                                              *)

\* Appended or inserted, a job's row follows what it was.
LEMMA PlacedSuccessor ==
    ASSUME Typed, NEW t, NEW m, Extends(t, m), \A k \in DOMAIN t : t[k] \in Row,
           NEW row, NEW p,
           \A n \in Nat :
               /\ m \in DOMAIN jobs => Follows(jobs[m], Queued(row, p, n), printers)
               /\ m \notin DOMAIN jobs => m = lastId + 1 /\ RowConsistent(Queued(row, p, n)),
           AppendTo(t, m, row, p) \/ \E n \in 0..MaxPosition : InsertAt(t, m, row, p, n)
    PROVE  Successor(jobs', printers)
<1> USE TableAssumption
<1>1. ASSUME NEW n \in 0..MaxPosition, jobs' = Save(t, m, Queued(row, p, n))
      PROVE  Successor(jobs', printers)
  BY <1>1, SaveSuccessor
<1>2. ASSUME NEW n \in 0..MaxPosition, jobs' = Save(Shift(t, p, n), m, Queued(row, p, n))
      PROVE  Successor(jobs', printers)
  <2>1. Extends(Shift(t, p, n), m)
    BY ShiftExtends
  <2>2. QED
    BY <1>2, <2>1, SaveSuccessor
<1>3. QED
  BY <1>1, <1>2 DEF AppendTo, InsertAt

\* addToQueue changes the row it queues in an allowed way, and only places of others.
LEMMA AddSuccessor ==
    ASSUME Typed, NEW p \in printers, NEW j \in DOMAIN jobs, AddToQueue(p, j)
    PROVE  Successor(jobs', printers)
<1>1. \A n \in Nat : Follows(jobs[j], Queued(jobs[j], p, n), printers)
  BY TypedRow, RowsFollow DEF AddToQueue, MayBelongTo
<1>2. QED
  BY <1>1, TypedRow, ItselfExtends, PlacedSuccessor DEF AddToQueue

\* A job created from a stored file is a new PENDING or QUEUED row.
LEMMA CreateSuccessor ==
    ASSUME Typed, NEW p \in printers, NEW f \in Files, CreateJobFromFile(p, f)
    PROVE  Successor(jobs', printers)
<1> DEFINE row == NewRow(p, f, "PENDING", TRUE, 0, "ANALYZED")
           t   == Insert(jobs, row)
           m   == lastId + 1
<1>1. m \notin DOMAIN jobs
  BY TypedRow
<1>2. row \in Row /\ RowConsistent(row)
  BY TypedRow DEF NewRow, Row, Statuses, AnalysisStates, RowConsistent, Finished
<1>3. \A n \in Nat : RowConsistent(Queued(row, p, n))
  BY <1>2 DEF Queued, RowConsistent, Row, Finished
<1> HIDE DEF row
<1>4. Extends(t, m) /\ \A k \in DOMAIN t : t[k] \in Row
  BY <1>2, TypedRow DEF Insert, Save, Extends, Agree
<1>5. jobs' = t => Successor(jobs', printers)
  BY <1>1, <1>2, ItselfExtends, SaveSuccessor DEF Insert
<1> HIDE DEF t, m
<1>6. AppendTo(t, m, row, p) \/ (\E n \in 0..MaxPosition : InsertAt(t, m, row, p, n))
         => Successor(jobs', printers)
  BY <1>1, <1>3, <1>4, PlacedSuccessor DEF m
<1>7. QED
  BY <1>5, <1>6 DEF CreateJobFromFile, row, t, m

\* Taking a row out of the queue keeps its printer and its timestamps.
LEMMA WithdrawnIsRow ==
    ASSUME NEW row \in Row
    PROVE  /\ Withdrawn(row) \in Row
           /\ Withdrawn(row).printer = row.printer
           /\ Withdrawn(row).started = row.started
           /\ Withdrawn(row).ended = row.ended
           /\ Withdrawn(row).status = row.status \/ Withdrawn(row).status = "PENDING"
BY DEF Withdrawn, Row, Statuses

\* removeFromQueue withdraws one row; the compaction moves places only.
LEMMA RemoveSuccessor ==
    ASSUME Typed, NEW j \in DOMAIN jobs, RemoveFromQueue(j)
    PROVE  Successor(jobs', printers)
<1> DEFINE out == Withdrawn(jobs[j])
           t   == Save(jobs, j, out)
<1>1. out \in Row /\ Follows(jobs[j], out, printers)
  <2>1. jobs[j] \in Row /\ RowConsistent(jobs[j]) /\ jobs[j].started \in Nat
    BY TypedRow
  <2>2. /\ out \in Row /\ out.printer = jobs[j].printer
        /\ out.started = jobs[j].started /\ out.ended = jobs[j].ended
        /\ out.status = jobs[j].status \/ out.status = "PENDING"
    BY <2>1, WithdrawnIsRow
  <2> HIDE DEF out
  <2>3. QED
    BY <2>1, <2>2 DEF Follows, RowConsistent, Finished
<1> HIDE DEF out
<1>2. Successor(t, printers) /\ \A k \in DOMAIN t : t[k] \in Row
  BY <1>1, TypedRow, ItselfExtends, SaveSuccessor DEF Save
<1> HIDE DEF t
<1>3. \A p, n : Successor(Compact(t, p, n), printers)
  BY <1>2, CompactSuccessor
<1>4. QED
  BY <1>2, <1>3 DEF RemoveFromQueue, out, t

\* reorderQueue changes places only.
LEMMA ReorderSuccessor ==
    ASSUME Typed, NEW p, NEW order, ReorderQueue(p, order)
    PROVE  Successor(jobs', printers)
<1>1. ASSUME NEW k \in DOMAIN jobs
      PROVE  k \in DOMAIN jobs' /\ Agree(jobs[k], jobs'[k])
  <2>1. jobs[k] \in Row
    BY TypedRow
  <2>2. \E n : jobs'[k] = jobs[k] \/ jobs'[k] = [jobs[k] EXCEPT !.position = n]
    BY DEF ReorderQueue, Reordered
  <2>3. k \in DOMAIN jobs'
    BY DEF ReorderQueue, Reordered
  <2>4. QED
    BY <2>1, <2>2, <2>3 DEF Agree, Row
<1>2. DOMAIN jobs' = DOMAIN jobs
  BY DEF ReorderQueue, Reordered
<1>3. QED
  BY <1>1, <1>2, TypedRow DEF Successor, Agree, Follows, RowConsistent

\* clearQueue turns QUEUED rows into PENDING ones.
LEMMA ClearSuccessor ==
    ASSUME Typed, NEW p, ClearQueue(p)
    PROVE  Successor(jobs', printers)
<1>1. ASSUME NEW k \in DOMAIN jobs
      PROVE  Follows(jobs[k], [jobs[k] EXCEPT !.status = "PENDING", !.position = Unqueued], printers)
  BY TypedRow DEF Row, Follows, RowConsistent, Finished
<1>2. \A k \in DOMAIN jobs : Follows(jobs[k], jobs[k], printers)
  BY TypedRow, RowsFollow
<1>3. QED
  BY <1>1, <1>2 DEF ClearQueue, Successor

-----------------------------------------------------------------------------
(* Submissions.                                                            *)

\* A submission starts the job, and fails it at once if it has no file.
LEMMA SubmitSuccessor ==
    ASSUME Typed, NEW p \in printers, NEW j \in DOMAIN jobs, SubmitToPrinter(p, j)
    PROVE  /\ Successor(jobs', printers)
           /\ \A u \in uploads' \ uploads :
                 /\ u.job \in DOMAIN jobs'
                 /\ jobs'[u.job].printer = u.printer
                 /\ jobs'[u.job].started = u.at
<1> DEFINE stamp == clock + 1
           row   == Launched(jobs[j], p, stamp)
           s     == IF jobs[j].position # Unqueued THEN Compact(jobs, p, jobs[j].position) ELSE jobs
           t     == Submitted(jobs, p, j, stamp)
<1>1. /\ jobs[j] \in Row /\ RowConsistent(jobs[j]) /\ jobs[j].printer \in {NoPrinter, p}
      /\ jobs[j].started \in Nat /\ jobs[j].started <= stamp
      /\ stamp \in Nat \ {0} /\ p \in Printers /\ NoPrinter \notin printers
  BY TypedRow DEF SubmitToPrinter, MayBelongTo
<1>2. Follows(jobs[j], row, printers)
  BY <1>1, RowsFollow
<1>3. row \in Row /\ row.printer = p /\ row.started = stamp
  BY <1>1, LaunchedIsRow
<1>4. Extends(s, j)
  BY TypedRow, ItselfExtends, ShiftExtends
<1>5. t = Save(s, j, row)
  BY DEF Submitted
<1> HIDE DEF row, s, t
<1>6. Successor(t, printers) /\ t[j] = row /\ Extends(t, j)
  BY <1>2, <1>4, <1>5, SaveSuccessor DEF Save, Extends
<1>7. Successor(Save(t, j, End(t[j], "FAILED")), printers)
  <2>1. Follows(jobs[j], End(row, "FAILED"), printers)
    BY <1>1, <1>2, <1>3 DEF Follows, End, RowConsistent, Row
  <2>2. QED
    BY <1>6, <2>1, SaveSuccessor
<1>8. Successor(jobs', printers)
  BY <1>6, <1>7 DEF SubmitToPrinter, t
<1>9. ASSUME NEW u \in uploads' \ uploads
      PROVE  /\ u.job \in DOMAIN jobs'
             /\ jobs'[u.job].printer = u.printer
             /\ jobs'[u.job].started = u.at
  <2>1. jobs' = t /\ u.job = j /\ u.printer = p /\ u.at = stamp
    BY <1>9 DEF SubmitToPrinter, t
  <2>2. j \in DOMAIN t
    BY <1>5 DEF Save
  <2>3. QED
    BY <1>3, <1>6, <2>1, <2>2
<1>10. QED
  BY <1>8, <1>9

\* The end of an upload gives up at most a place, never a printer or status.
LEMMA SucceedsSuccessor ==
    ASSUME Typed, NEW u, UploadSucceeds(u)
    PROVE  Successor(jobs', printers)
<1> DEFINE out == [jobs[u.job] EXCEPT !.position = Unqueued]
           t   == Save(jobs, u.job, out)
<1>1. ASSUME u.job \in DOMAIN jobs
      PROVE  Successor(Compact(t, u.printer, u.position), printers)
  <2>1. out \in Row /\ Follows(jobs[u.job], out, printers)
    BY <1>1, TypedRow DEF Row, Follows, RowConsistent
  <2> HIDE DEF out
  <2>2. Successor(t, printers)
    BY <1>1, <2>1, ItselfExtends, SaveSuccessor
  <2>3. \A k \in DOMAIN t : t[k] \in Row
    BY <2>1, TypedRow DEF Save
  <2> HIDE DEF t
  <2>4. QED
    BY <2>2, <2>3, CompactSuccessor
<1>2. Successor(jobs, printers)
  BY TypedRow, RowsFollow DEF Successor
<1>3. QED
  BY <1>1, <1>2 DEF UploadSucceeds

\* A failed upload ends a row that its submission, or a later one, has started.
LEMMA FailsSuccessor ==
    ASSUME Typed, HistoryConsistent, NEW u \in uploads, UploadFails(u)
    PROVE  Successor(jobs', printers)
<1>1. ASSUME u.job \in DOMAIN jobs
      PROVE  Successor(Save(jobs, u.job, End(jobs[u.job], "FAILED")), printers)
  <2>1. u.at \in Nat \ {0}
    BY TableAssumption DEF Typed, QueueTypeOK, Upload
  <2>2. jobs[u.job].started # 0
    BY <1>1, <2>1, TypedRow DEF HistoryConsistent
  <2>3. Follows(jobs[u.job], End(jobs[u.job], "FAILED"), printers)
    BY <1>1, <2>2, TypedRow, RowsFollow DEF Statuses
  <2>4. QED
    BY <1>1, <2>3, ItselfExtends, SaveSuccessor
<1>2. Successor(jobs, printers)
  BY TypedRow, RowsFollow DEF Successor
<1>3. QED
  BY <1>1, <1>2 DEF UploadFails

-----------------------------------------------------------------------------
(* Reports and corrections.                                                *)

\* handlePrintStarted supersedes, starts or inserts rows in allowed ways.
LEMMA PrintingSuccessor ==
    ASSUME Typed, NEW p, NEW f \in Files, ReportPrinting(p, f)
    PROVE  Successor(jobs', printers)
<1> DEFINE t == Superseded(jobs, p, f)
           a == Attributed(t, p, f)
<1>1. ASSUME NEW k \in DOMAIN jobs
      PROVE  Follows(jobs[k], t[k], printers) /\ t[k] \in Row
  <2>1. jobs[k] \in Row /\ RowConsistent(jobs[k])
    BY TypedRow
  <2>2. /\ jobs[k].status = "PRINTING" => Follows(jobs[k], End(jobs[k], "UNKNOWN"), printers)
        /\ Follows(jobs[k], jobs[k], printers)
    BY <2>1, TypedRow, RowsFollow DEF RowConsistent, Statuses
  <2>3. End(jobs[k], "UNKNOWN") \in Row
    BY <2>1 DEF End, Row, Statuses
  <2>4. QED
    BY <2>1, <2>2, <2>3 DEF Superseded, LatestPrinting, Printing
<1>2. DOMAIN t = DOMAIN jobs /\ a \subseteq DOMAIN t
  BY DEF Superseded, Attributed, LatestCreated
<1>3. clock' \in Nat \ {0} /\ clock' = clock + 1
  BY TypedRow DEF ReportPrinting
<1> HIDE DEF t, a
<1>4. ASSUME NEW j \in a, jobs' = Save(t, j, Start(t[j], clock'))
      PROVE  Successor(jobs', printers)
  <2>1. t[j] \in Row /\ Follows(jobs[j], t[j], printers) /\ j \in DOMAIN jobs
    BY <1>1, <1>2
  <2>2. /\ Start(t[j], clock').printer = t[j].printer
        /\ Start(t[j], clock').started = clock'
        /\ Start(t[j], clock').status = "PRINTING"
    BY <1>3, <2>1, StartIsRow
  <2>3. clock' >= jobs[j].started
    BY <1>3, <2>1, TypedRow
  <2>4. Follows(jobs[j], Start(t[j], clock'), printers)
    BY <1>3, <2>1, <2>2, <2>3 DEF Follows, RowConsistent, Finished
  <2>5. QED
    BY <1>1, <1>2, <1>4, <2>4 DEF Successor, Save
<1>5. ASSUME NEW state, jobs' = Insert(t, NewRow(p, f, "PRINTING", FALSE, clock', state))
      PROVE  Successor(jobs', printers)
  <2>1. RowConsistent(NewRow(p, f, "PRINTING", FALSE, clock', state))
    BY <1>3 DEF NewRow, RowConsistent, Finished
  <2>2. lastId + 1 \notin DOMAIN jobs
    BY TypedRow
  <2>3. QED
    BY <1>1, <1>2, <1>5, <2>1, <2>2 DEF Successor, Insert, Save
<1>6. QED
  BY <1>4, <1>5 DEF ReportPrinting, t, a

\* Every other report and correction saves one row that follows, adds one or
\* takes one away.
LEMMA LifecycleSuccessor ==
    ASSUME Typed, LifecycleNext
    PROVE  Successor(jobs', printers')
<1> USE DEF Statuses
<1>0. /\ NoPrinter \notin printers
      /\ \A k \in DOMAIN jobs : jobs[k] \in Row /\ RowConsistent(jobs[k])
  BY TypedRow
<1>1. ASSUME NEW j \in DOMAIN jobs, NEW s \in Statuses, jobs[j].started # 0,
             jobs' = Save(jobs, j, End(jobs[j], s))
      PROVE  Successor(jobs', printers)
  <2>1. Follows(jobs[j], End(jobs[j], s), printers)
    BY <1>0, <1>1, RowsFollow
  <2>2. QED
    BY <1>1, <2>1, ItselfExtends, SaveSuccessor
<1>2. ASSUME NEW p \in printers, NEW f \in Files, CreateUploadedJob(p, f)
      PROVE  Successor(jobs', printers')
  <2>1. PICK a : jobs' = Insert(jobs, NewRow(p, f, "PENDING", TRUE, 0, a))
    BY <1>2 DEF CreateUploadedJob
  <2>2. RowConsistent(NewRow(p, f, "PENDING", TRUE, 0, a))
    BY DEF NewRow, RowConsistent, Finished
  <2>3. lastId + 1 \notin DOMAIN jobs
    BY TypedRow
  <2>4. Successor(jobs', printers)
    BY <2>1, <2>2, <2>3, ItselfExtends, SaveSuccessor DEF Insert
  <2>5. QED
    BY <1>2, <2>4 DEF CreateUploadedJob
<1>3. ASSUME NEW p, NEW s \in Statuses, EndPrinting(p, s)
      PROVE  Successor(jobs', printers')
  <2>1. PICK j \in LatestPrinting(jobs, p) : jobs' = Save(jobs, j, End(jobs[j], s))
    BY <1>3 DEF EndPrinting
  <2>2. j \in DOMAIN jobs /\ jobs[j].status = "PRINTING"
    BY DEF LatestPrinting, Printing
  <2>3. jobs[j].started # 0
    BY <1>0, <2>2 DEF RowConsistent
  <2>4. QED
    BY <1>1, <1>3, <2>1, <2>2, <2>3 DEF EndPrinting
<1>4. CASE Report
  <2>1. PICK p \in printers, f \in Files :
           ReportPrinting(p, f) \/ ReportFinished(p, f) \/ ReportFailed(p, f)
    BY <1>4 DEF Report
  <2>2. ReportPrinting(p, f) => printers' = printers
    BY DEF ReportPrinting
  <2>3. QED
    BY <1>3, <2>1, <2>2, PrintingSuccessor DEF ReportFinished, ReportFailed
<1>5. ASSUME NEW p \in printers, ReportIdle(p)
      PROVE  Successor(jobs', printers')
  BY <1>3, <1>5 DEF ReportIdle
<1>6. CASE Operator
  <2>1. PICK j \in DOMAIN jobs :
           SetCompleted(j) \/ SetFailed(j) \/ SetCancelled(j) \/ SetUnknown(j) \/ DeleteJob(j)
    BY <1>6 DEF Operator
  <2>2. jobs[j].status \notin {"PENDING", "QUEUED"} => jobs[j].started # 0
    BY <1>0 DEF RowConsistent
  <2>3. CASE SetCompleted(j) \/ SetFailed(j) \/ SetCancelled(j)
    BY <1>1, <2>2, <2>3 DEF SetCompleted, SetFailed, SetCancelled, Correct
  <2>4. CASE SetUnknown(j)
    <3>1. jobs[j].started # 0
      BY <2>2, <2>4 DEF SetUnknown, Correct
    <3>2. Follows(jobs[j], [jobs[j] EXCEPT !.status = "UNKNOWN"], printers)
      BY <1>0, <3>1 DEF Follows, RowConsistent, Row, Finished
    <3>3. QED
      BY <2>4, <3>2, ItselfExtends, SaveSuccessor DEF SetUnknown, Correct
  <2>5. CASE DeleteJob(j)
    BY <1>0, <2>5, RowsFollow DEF DeleteJob, Remove, Successor
  <2>6. QED
    BY <2>1, <2>3, <2>4, <2>5
<1>7. ASSUME NEW p \in printers, DeletePrinter(p)
      PROVE  Successor(jobs', printers')
  <2>1. ASSUME NEW k \in DOMAIN jobs
        PROVE  /\ Follows(jobs[k], jobs[k], printers')
               /\ jobs[k].printer = p
                     => Follows(jobs[k], [jobs[k] EXCEPT !.printer = NoPrinter], printers')
    BY <1>0, <1>7 DEF DeletePrinter, Follows, RowConsistent, Row
  <2>2. QED
    BY <1>7, <2>1 DEF DeletePrinter, Successor
<1>8. QED
  BY <1>2, <1>4, <1>5, <1>6, <1>7 DEF LifecycleNext

-----------------------------------------------------------------------------

\* The inductive invariant: the submissions in flight still belong to their
\* job and its printer.
FarmInv == QueueTypeOK /\ HistoryConsistent /\ UploadKeepsPrinter

\* Whatever runs, the rows follow what they were, and the only submission that
\* may be new is that of a job started just now.
LEMMA FarmSuccessor ==
    ASSUME FarmInv, FarmNext
    PROVE  /\ Successor(jobs', printers')
           /\ printers' \subseteq printers
           /\ \A u \in uploads' \ uploads :
                 /\ u.job \in DOMAIN jobs'
                 /\ jobs'[u.job].printer = u.printer
                 /\ jobs'[u.job].started = u.at
<1>0. Typed
  BY DEF FarmInv, Typed, HistoryConsistent, RowConsistent
<1>1. CASE QueueNext
  <2>1. printers' = printers
    BY <1>1 DEF QueueNext, AddToQueue, RemoveFromQueue, ReorderQueue, ClearQueue,
                CreateJobFromFile, SubmitToPrinter, UploadSucceeds, UploadFails
  <2>2. CASE \E p \in printers, j \in DOMAIN jobs : AddToQueue(p, j)
    BY <1>0, <2>1, <2>2, AddSuccessor DEF AddToQueue
  <2>3. CASE \E j \in DOMAIN jobs : RemoveFromQueue(j)
    BY <1>0, <2>1, <2>3, RemoveSuccessor DEF RemoveFromQueue
  <2>4. CASE \E p \in printers, order \in ReorderRequests : ReorderQueue(p, order)
    BY <1>0, <2>1, <2>4, ReorderSuccessor DEF ReorderQueue
  <2>5. CASE \E p \in printers : ClearQueue(p)
    BY <1>0, <2>1, <2>5, ClearSuccessor DEF ClearQueue
  <2>6. CASE \E p \in printers, f \in Files : CreateJobFromFile(p, f)
    BY <1>0, <2>1, <2>6, CreateSuccessor DEF CreateJobFromFile
  <2>7. CASE \E p \in printers, j \in DOMAIN jobs : SubmitToPrinter(p, j)
    BY <1>0, <2>1, <2>7, SubmitSuccessor
  <2>8. CASE \E u \in uploads : UploadSucceeds(u)
    BY <1>0, <2>1, <2>8, SucceedsSuccessor DEF UploadSucceeds
  <2>9. CASE \E u \in uploads : UploadFails(u)
    BY <1>0, <2>1, <2>9, FailsSuccessor DEF UploadFails, FarmInv
  <2>10. QED
    BY <1>1, <2>2, <2>3, <2>4, <2>5, <2>6, <2>7, <2>8, <2>9 DEF QueueNext
<1>2. CASE LifecycleNext /\ UNCHANGED uploads
  BY <1>0, <1>2, LifecycleSuccessor, LifecycleGoesOn DEF Typed, QueueTypeOK
<1>3. CASE Restart
  BY <1>0, <1>3, TypedRow, RowsFollow DEF Restart, tableVars, Successor
<1>4. QED
  BY <1>1, <1>2, <1>3 DEF FarmNext, Handlers

\* Every step of the farm preserves the inductive invariant.
LEMMA FarmStepInv == FarmInv /\ [FarmNext]_queueVars => FarmInv'
<1> SUFFICES ASSUME FarmInv, [FarmNext]_queueVars PROVE FarmInv'
  OBVIOUS
<1>1. QueueTypeOK'
  BY FarmStepTypeOK DEF FarmInv
<1>2. CASE UNCHANGED queueVars
  BY <1>1, <1>2 DEF FarmInv, queueVars, HistoryConsistent, UploadKeepsPrinter
<1>3. CASE FarmNext
  <2>1. /\ Successor(jobs', printers')
        /\ printers' \subseteq printers
        /\ \A u \in uploads' \ uploads :
              /\ u.job \in DOMAIN jobs'
              /\ jobs'[u.job].printer = u.printer
              /\ jobs'[u.job].started = u.at
    BY <1>3, FarmSuccessor
  <2>2. /\ lastId \in Nat
        /\ \A k \in DOMAIN jobs : jobs[k].started \in Nat
        /\ \A k \in DOMAIN jobs' : jobs'[k].started \in Nat
        /\ \A u \in uploads : u.job \in Nat /\ u.at \in Nat /\ u.job <= lastId
        /\ \A u \in uploads' : u.at \in Nat
    BY <1>1, TableAssumption DEF FarmInv, QueueTypeOK, TableTypeOK, IsTable, RowOf, Row, Upload, JobIds
  <2>3. \A k \in DOMAIN jobs' : RowConsistent(jobs'[k])
    BY <2>1 DEF Successor, Follows
  <2>4. ASSUME NEW u \in uploads', u.job \in DOMAIN jobs'
        PROVE  /\ jobs'[u.job].started >= u.at
               /\ u.printer \in printers' => jobs'[u.job].printer = u.printer
    <3>1. CASE u \in uploads
      <4>1. u.job # lastId + 1
        BY <2>2, <3>1
      <4>2. u.job \in DOMAIN jobs
        BY <2>1, <2>4, <4>1 DEF Successor
      <4>3. jobs[u.job].started >= u.at
        BY <3>1, <4>2 DEF FarmInv, HistoryConsistent
      <4>4. u.printer \in printers => jobs[u.job].printer = u.printer
        BY <3>1, <4>2 DEF FarmInv, UploadKeepsPrinter
      <4>5. Follows(jobs[u.job], jobs'[u.job], printers')
        BY <2>1, <2>4, <4>2 DEF Successor
      <4>6. QED
        BY <2>1, <2>2, <2>4, <3>1, <4>2, <4>3, <4>4, <4>5 DEF Follows
    <3>2. CASE u \notin uploads
      BY <2>1, <2>2, <3>2
    <3>3. QED
      BY <3>1, <3>2
  <2>5. HistoryConsistent'
    BY <2>3, <2>4 DEF HistoryConsistent, RowConsistent
  <2>6. UploadKeepsPrinter'
    BY <2>4 DEF UploadKeepsPrinter
  <2>7. QED
    BY <1>1, <2>5, <2>6 DEF FarmInv
<1>4. QED
  BY <1>2, <1>3

\* The inductive invariant holds in every behaviour of the farm.
THEOREM FarmInvariant == FarmSpec => []FarmInv
<1>1. QueueInit => FarmInv
  BY InitTypeOK
     DEF QueueInit, FarmInv, QueueTypeOK, HistoryConsistent, UploadKeepsPrinter, TableInit
<1>2. QED
  BY <1>1, FarmStepInv, PTL DEF FarmSpec

\* The status and the timestamps of a job agree, and a submission in flight
\* is not newer than the last start of its job, whatever happens meanwhile.
THEOREM FarmHistory == FarmSpec => []HistoryConsistent
<1>1. FarmInv => HistoryConsistent
  BY DEF FarmInv
<1>2. QED
  BY <1>1, FarmInvariant, PTL

\* A job stays with the printer its file is being uploaded to.
THEOREM FarmUploads == FarmSpec => []UploadKeepsPrinter
<1>1. FarmInv => UploadKeepsPrinter
  BY DEF FarmInv
<1>2. QED
  BY <1>1, FarmInvariant, PTL

-----------------------------------------------------------------------------
(* Places: two jobs never come to share a place of a printer, but by a     *)
(* client's partial reorder or the submission of an orphan.                *)
(*                                                                         *)
(* The bulk updates of a queue are injective on the places they move;      *)
(* what a save puts beside them is a place that is free.  Only while a     *)
(* submission compacts before it saves do two jobs, one of them the one    *)
(* submitted, stand at one position: DistinctBut leaves that one out.      *)

DistinctBut(t, p, m) ==
    \A j, k \in Placed(t, p) \ {m} : t[j].position = t[k].position => j = k

\* No other job of p than m stands at n.
FreeBut(t, p, n, m) == \A k \in Placed(t, p) \ {m} : t[k].position # n

Rows(t) == \A k \in DOMAIN t : t[k] \in Row

-----------------------------------------------------------------------------
(* Tables.                                                                 *)

\* Giving up places, or whole jobs
LEMMA FewerPlaced ==
    ASSUME NEW t, NEW s, NEW p, Distinct(t, p),
           \A k \in Placed(s, p) : k \in Placed(t, p) /\ s[k].position = t[k].position
    PROVE  Distinct(s, p)
BY DEF Distinct

\* Closing a gap: the places behind it stay distinct if it is one.
LEMMA CompactDistinct ==
    ASSUME NEW t, Rows(t), NEW p, NEW q, NEW n \in Nat, NEW m, Distinct(t, p),
           p = q => FreeBut(t, p, n, m)
    PROVE  DistinctBut(Compact(t, q, n), p, m)
<1> DEFINE s == Compact(t, q, n)
<1>1. ASSUME NEW k \in DOMAIN t
      PROVE  /\ s[k].printer = t[k].printer
             /\ t[k].position \in Nat \cup {Unqueued}
             /\ s[k].position = IF t[k].printer = q /\ t[k].position > n
                                THEN t[k].position - 1 ELSE t[k].position
  BY DEF Compact, Rows, Row
<1>2. DOMAIN s = DOMAIN t
  BY DEF Compact
<1> HIDE DEF s
<1>3. Placed(s, p) = Placed(t, p)
  BY <1>1, <1>2 DEF Placed, Unqueued
<1>4. ASSUME NEW j \in Placed(s, p) \ {m}, NEW k \in Placed(s, p) \ {m},
             s[j].position = s[k].position
      PROVE  t[j].position = t[k].position
  <2>1. /\ j \in DOMAIN t /\ k \in DOMAIN t /\ t[j].printer = p /\ t[k].printer = p
        /\ t[j].position \in Nat /\ t[k].position \in Nat
    BY <1>1, <1>3 DEF Placed
  <2>2. p = q => t[j].position # n /\ t[k].position # n
    BY <1>3 DEF FreeBut
  <2>3. QED
    BY <1>1, <1>4, <2>1, <2>2
<1>5. QED
  BY <1>3, <1>4 DEF Distinct, DistinctBut, s

\* Making room: the places stay distinct and the room is free.
LEMMA ShiftDistinct ==
    ASSUME NEW t, Rows(t), NEW p, NEW q, NEW n \in Nat, Distinct(t, p)
    PROVE  /\ Distinct(Shift(t, q, n), p)
           /\ p = q => \A k \in Placed(Shift(t, q, n), p) : Shift(t, q, n)[k].position # n
<1> DEFINE s == Shift(t, q, n)
<1>1. ASSUME NEW k \in DOMAIN t
      PROVE  /\ s[k].printer = t[k].printer
             /\ t[k].position \in Nat \cup {Unqueued}
             /\ s[k].position = IF t[k].printer = q /\ t[k].position >= n
                                THEN t[k].position + 1 ELSE t[k].position
  BY DEF Shift, Rows, Row
<1>2. DOMAIN s = DOMAIN t
  BY DEF Shift
<1> HIDE DEF s
<1>3. Placed(s, p) = Placed(t, p)
  BY <1>1, <1>2 DEF Placed, Unqueued
<1>4. \A k \in Placed(t, p) : k \in DOMAIN t /\ t[k].printer = p /\ t[k].position \in Nat
  BY <1>1 DEF Placed
<1>5. Distinct(s, p)
  BY <1>1, <1>3, <1>4 DEF Distinct
<1>6. p = q => \A k \in Placed(s, p) : s[k].position # n
  BY <1>1, <1>3, <1>4
<1>7. QED
  BY <1>5, <1>6 DEF s

\* Saving a row without a place, with a free one, or of another printer
LEMMA SaveDistinct ==
    ASSUME NEW t, NEW p, NEW m, NEW row, DistinctBut(t, p, m),
           row.printer = p => row.position = Unqueued \/ FreeBut(t, p, row.position, m)
    PROVE  Distinct(Save(t, m, row), p)
BY DEF Distinct, DistinctBut, FreeBut, Placed, Save

\* Distinct places are distinct but for m; the converse holds if m has no place.
LEMMA DistinctIsBut ==
    ASSUME NEW t, NEW p, NEW m
    PROVE  /\ Distinct(t, p) => DistinctBut(t, p, m)
           /\ DistinctBut(t, p, m) /\ m \notin Placed(t, p) => Distinct(t, p)
BY DEF Distinct, DistinctBut

-----------------------------------------------------------------------------
(* The queue's operations.                                                 *)

\* addToQueue, appending or inserting, keeps the places of every printer distinct.
LEMMA PlacedDistinct ==
    ASSUME NEW t, Rows(t), NEW p, Distinct(t, p), NEW m, NEW row \in Row, NEW q \in Printers,
           AppendTo(t, m, row, q) \/ \E n \in 0..MaxPosition : InsertAt(t, m, row, q, n)
    PROVE  Distinct(jobs', p)
<1> USE TableAssumption
<1>1. \A n : Queued(row, q, n).printer = q /\ Queued(row, q, n).position = n
  BY DEF Queued, Row
<1>2. ASSUME NEW n \in 0..MaxPosition, IsAppendPosition(t, q, n),
             jobs' = Save(t, m, Queued(row, q, n))
      PROVE  Distinct(jobs', p)
  <2>1. p = q => FreeBut(t, p, n, m)
    <3>1. \A k \in Placed(t, q) : t[k].position < n /\ t[k].position \in Nat
      BY <1>2 DEF IsAppendPosition, Rows, Row, Placed
    <3>2. QED
      BY <3>1 DEF FreeBut
  <2>2. QED
    BY <1>1, <1>2, <2>1, SaveDistinct, DistinctIsBut
<1>3. ASSUME NEW n \in 0..MaxPosition, jobs' = Save(Shift(t, q, n), m, Queued(row, q, n))
      PROVE  Distinct(jobs', p)
  <2>1. n \in Nat
    OBVIOUS
  <2>2. /\ Distinct(Shift(t, q, n), p)
        /\ p = q => FreeBut(Shift(t, q, n), p, n, m)
    BY <2>1, ShiftDistinct DEF FreeBut
  <2>3. DistinctBut(Shift(t, q, n), p, m)
    BY <2>2, DistinctIsBut
  <2>4. QED
    BY <1>1, <1>3, <2>2, <2>3, SaveDistinct
<1>4. QED
  BY <1>2, <1>3 DEF AppendTo, InsertAt

\* The add request keeps places distinct.
LEMMA AddDistinct ==
    ASSUME Typed, NEW p, Distinct(jobs, p), NEW q \in printers, NEW j \in DOMAIN jobs,
           AddToQueue(q, j)
    PROVE  Distinct(jobs', p)
BY TypedRow, PlacedDistinct DEF AddToQueue, Rows

\* The from-file request keeps places distinct.
LEMMA CreateDistinct ==
    ASSUME Typed, NEW p, Distinct(jobs, p), NEW q \in printers, NEW f \in Files,
           CreateJobFromFile(q, f)
    PROVE  Distinct(jobs', p)
<1> DEFINE row == NewRow(q, f, "PENDING", TRUE, 0, "ANALYZED")
           t   == Insert(jobs, row)
           m   == lastId + 1
<1>1. row \in Row /\ row.position = Unqueued /\ q \in Printers
  BY TypedRow DEF NewRow, Row, Statuses, AnalysisStates
<1> HIDE DEF row
<1>2. Distinct(t, p)
  BY <1>1, SaveDistinct, DistinctIsBut DEF Insert
<1>3. Rows(t)
  BY <1>1, TypedRow DEF Insert, Save, Rows
<1> HIDE DEF t, m
<1>4. AppendTo(t, m, row, q) \/ (\E n \in 0..MaxPosition : InsertAt(t, m, row, q, n))
         => Distinct(jobs', p)
  BY <1>1, <1>2, <1>3, PlacedDistinct
<1>5. QED
  BY <1>2, <1>4 DEF CreateJobFromFile, row, t, m

\* Removal, with its compaction, keeps places distinct.
LEMMA RemoveDistinct ==
    ASSUME Typed, NEW p, Distinct(jobs, p), NEW j \in DOMAIN jobs, RemoveFromQueue(j)
    PROVE  Distinct(jobs', p)
<1> DEFINE out == Withdrawn(jobs[j])
           t   == Save(jobs, j, out)
           n   == jobs[j].position
           q   == jobs[j].printer
<1>1. jobs[j] \in Row /\ n \in Nat \cup {Unqueued}
  BY TypedRow DEF Row
<1>2. out \in Row /\ out.position = Unqueued
  <2>1. out.position = Unqueued
    BY <1>1 DEF Withdrawn, Row
  <2>2. QED
    BY <1>1, <2>1, WithdrawnIsRow
<1> HIDE DEF out
<1>3. Distinct(t, p)
  BY <1>2, SaveDistinct, DistinctIsBut
<1>4. Rows(t) /\ j \notin Placed(t, p)
  BY <1>2, TypedRow DEF Save, Rows, Placed
<1>5. n # Unqueued /\ p = q => FreeBut(t, p, n, j)
  BY DEF FreeBut, Placed, Save, Distinct
<1> HIDE DEF t
<1>6. ASSUME n # Unqueued
      PROVE  Distinct(Compact(t, q, n), p)
  <2>1. n \in Nat
    BY <1>1, <1>6
  <2>2. DistinctBut(Compact(t, q, n), p, j)
    BY <1>3, <1>4, <1>5, <1>6, <2>1, CompactDistinct
  <2>3. j \notin Placed(Compact(t, q, n), p)
    <3>1. j \in DOMAIN t /\ t[j].position = Unqueued
      BY <1>2 DEF t, Save
    <3>2. Compact(t, q, n)[j].position = Unqueued
      BY <2>1, <3>1 DEF Compact, Unqueued
    <3>3. QED
      BY <3>2 DEF Placed
  <2>4. QED
    BY <2>2, <2>3, DistinctIsBut
<1>7. QED
  BY <1>3, <1>6 DEF RemoveFromQueue, out, t

\* A list that names every job with a place gives each its own index.
LEMMA ReorderDistinct ==
    ASSUME Typed, NEW p, Distinct(jobs, p), NEW q, NEW order \in ReorderRequests,
           ReorderQueue(q, order), Placed(jobs, q) \subseteq Listed(order)
    PROVE  Distinct(jobs', p)
<1> DEFINE last(j) == CHOOSE i \in 1..Len(order) :
               order[i] = j /\ \A k \in 1..Len(order) : order[k] = j => k <= i
<1>1. DOMAIN jobs' = DOMAIN jobs
  BY DEF ReorderQueue, Reordered
<1>2. ASSUME NEW j \in DOMAIN jobs
      PROVE  IF jobs[j].printer = q /\ j \in Listed(order)
             THEN jobs'[j].printer = q /\ jobs'[j].position = last(j) - 1
             ELSE jobs'[j] = jobs[j]
  BY TypedRow DEF ReorderQueue, Reordered, Row
<1>3. ASSUME NEW j \in Listed(order)
      PROVE  last(j) \in 1..Len(order) /\ order[last(j)] = j
  <2> DEFINE hits == {i \in 1..Len(order) : order[i] = j}
  <2>1. Len(order) \in Nat /\ hits \in SUBSET (1..Len(order)) /\ hits # {}
    BY ReorderAssumption DEF Listed
  <2> HIDE DEF hits
  <2>2. \E i \in hits : \A k \in hits : k <= i
    BY <2>1, BoundedMaximum
  <2> USE DEF hits
  <2>3. QED
    BY <2>2
<1> HIDE DEF last
<1>4. CASE p = q
  <2>1. \A k \in Placed(jobs', p) : k \in Listed(order) /\ jobs'[k].position = last(k) - 1
    BY <1>1, <1>2, <1>4 DEF Placed
  <2>2. ASSUME NEW j \in Placed(jobs', p), NEW k \in Placed(jobs', p),
               jobs'[j].position = jobs'[k].position
        PROVE  j = k
    <3>1. last(j) \in Int /\ last(k) \in Int
      BY <1>3, <2>1, ReorderAssumption
    <3>2. last(j) = last(k)
      BY <2>1, <2>2, <3>1
    <3>3. QED
      BY <1>3, <2>1, <3>2
  <2>3. QED
    BY <2>2 DEF Distinct
<1>5. CASE p # q
  <2>1. \A k \in Placed(jobs', p) : k \in Placed(jobs, p) /\ jobs'[k].position = jobs[k].position
    BY <1>1, <1>2, <1>5 DEF Placed
  <2>2. QED
    BY <2>1, FewerPlaced
<1>6. QED
  BY <1>4, <1>5

\* Clearing a queue keeps places distinct.
LEMMA ClearDistinct ==
    ASSUME Typed, NEW p, Distinct(jobs, p), NEW q, ClearQueue(q)
    PROVE  Distinct(jobs', p)
<1>1. \A k \in DOMAIN jobs :
         [jobs[k] EXCEPT !.status = "PENDING", !.position = Unqueued].position = Unqueued
  BY TypedRow DEF Row
<1>2. \A k \in Placed(jobs', p) : k \in Placed(jobs, p) /\ jobs'[k].position = jobs[k].position
  BY <1>1 DEF ClearQueue, Placed
<1>3. QED
  BY <1>2, FewerPlaced

\* Submission keeps places distinct, unless it submits an orphan's place.
LEMMA SubmitDistinct ==
    ASSUME Typed, NEW p, Distinct(jobs, p), NEW q \in printers, NEW j \in DOMAIN jobs,
           SubmitToPrinter(q, j)
    PROVE  Distinct(jobs', p) \/ SubmitsOrphan
<1> DEFINE n   == jobs[j].position
           row == Launched(jobs[j], q, clock + 1)
           s   == IF n # Unqueued THEN Compact(jobs, q, n) ELSE jobs
           t   == Submitted(jobs, q, j, clock + 1)
<1>1. /\ jobs[j] \in Row /\ n \in Nat \cup {Unqueued} /\ Rows(jobs)
      /\ q \in Printers /\ clock + 1 \in Nat
      /\ jobs[j].printer \in {NoPrinter, q}
  BY TypedRow DEF Row, Rows, SubmitToPrinter, MayBelongTo
<1>2. CASE jobs[j].printer = NoPrinter /\ n # Unqueued
  BY <1>2 DEF SubmitsOrphan
<1>3. CASE jobs[j].printer = q \/ n = Unqueued
  <2>1. row.position = Unqueued /\ row \in Row
    <3>1. row.position = Unqueued
      BY <1>1 DEF Launched, Row
    <3>2. QED
      BY <1>1, <3>1, LaunchedIsRow
  <2>2. DistinctBut(s, p, j)
    <3>1. CASE n = Unqueued
      BY <3>1, DistinctIsBut
    <3>2. CASE n # Unqueued
      <4>1. p = q => FreeBut(jobs, p, n, j)
        BY <1>3, <3>2 DEF FreeBut, Distinct, Placed
      <4>2. QED
        BY <1>1, <3>2, <4>1, CompactDistinct
    <3>3. QED
      BY <3>1, <3>2
  <2>3. t = Save(s, j, row)
    BY DEF Submitted
  <2> HIDE DEF s, t, row
  <2>4. Distinct(t, p)
    BY <2>1, <2>2, <2>3, SaveDistinct
  <2>5. Distinct(Save(t, j, End(t[j], "FAILED")), p)
    <3>1. End(t[j], "FAILED").position = Unqueued
      BY <2>1, <2>3 DEF Save, End, Row
    <3>2. QED
      BY <2>4, <3>1, SaveDistinct, DistinctIsBut
  <2>6. QED
    BY <2>4, <2>5 DEF SubmitToPrinter, t
<1>4. QED
  BY <1>1, <1>2, <1>3

\* The end of an upload closes the gap of a job that still belongs to the
\* printer, by UploadKeepsPrinter; a deleted printer has no places left.
LEMMA SucceedsDistinct ==
    ASSUME FarmInv, Typed, NEW p \in Printers, Distinct(jobs, p), NEW u \in uploads,
           UploadSucceeds(u)
    PROVE  Distinct(jobs', p)
<1> DEFINE out == [jobs[u.job] EXCEPT !.position = Unqueued]
           t   == Save(jobs, u.job, out)
<1>1. ASSUME u.job \in DOMAIN jobs, u.position # Unqueued,
             jobs[u.job].position = u.position
      PROVE  Distinct(Compact(t, u.printer, u.position), p)
  <2>1. jobs[u.job] \in Row /\ u.position \in Nat
    BY <1>1, TypedRow DEF Row
  <2>2. out \in Row /\ out.position = Unqueued
    BY <2>1 DEF Row
  <2> HIDE DEF out
  <2>3. Distinct(t, p)
    BY <2>2, SaveDistinct, DistinctIsBut
  <2>4. Rows(t) /\ u.job \in DOMAIN t /\ t[u.job].position = Unqueued
    BY <2>2, TypedRow DEF Save, Rows
  <2>5. p = u.printer => FreeBut(t, p, u.position, u.job)
    <3>1. CASE u.printer \in printers
      <4>1. jobs[u.job].printer = u.printer
        BY <1>1, <3>1 DEF FarmInv, UploadKeepsPrinter
      <4>2. QED
        BY <1>1, <4>1 DEF FreeBut, Placed, Save, Distinct
    <3>2. CASE u.printer \notin printers
      <4>1. \A k \in DOMAIN jobs : jobs[k].printer \in printers \cup {NoPrinter}
        BY DEF Typed, QueueTypeOK, TableTypeOK, IsTable, RowOf
      <4>2. p = u.printer => \A k \in DOMAIN jobs : jobs[k].printer # p
        BY <3>2, <4>1, TableAssumption
      <4>3. QED
        BY <4>2 DEF FreeBut, Placed, Save
    <3>3. QED
      BY <3>1, <3>2
  <2> HIDE DEF t
  <2>6. DistinctBut(Compact(t, u.printer, u.position), p, u.job)
    BY <2>1, <2>3, <2>4, <2>5, CompactDistinct
  <2>7. Compact(t, u.printer, u.position)[u.job].position = Unqueued
    BY <2>1, <2>4 DEF Compact, Unqueued
  <2>8. QED
    BY <2>6, <2>7, DistinctIsBut DEF Placed
<1>2. QED
  BY <1>1 DEF UploadSucceeds

\* A failed upload moves no place.
LEMMA FailsDistinct ==
    ASSUME Typed, NEW p, Distinct(jobs, p), NEW u, UploadFails(u)
    PROVE  Distinct(jobs', p)
<1>1. \A k \in DOMAIN jobs : /\ End(jobs[k], "FAILED").printer = jobs[k].printer
                             /\ End(jobs[k], "FAILED").position = jobs[k].position
  BY TypedRow DEF End, Row
<1>2. \A k \in Placed(jobs', p) : k \in Placed(jobs, p) /\ jobs'[k].position = jobs[k].position
  BY <1>1 DEF UploadFails, Save, Placed
<1>3. QED
  BY <1>2, FewerPlaced

-----------------------------------------------------------------------------
(* Reports and corrections give no job a place.                            *)

\* A row of t is without a place, or stands where the job stood.
KeepsPlaces(t) ==
    \A k \in DOMAIN t :
        \/ t[k].position = Unqueued
        \/ /\ k \in DOMAIN jobs
           /\ t[k].position = jobs[k].position
           /\ t[k].printer \in {jobs[k].printer, NoPrinter}

\* A step that moves and gives no place keeps distinct places distinct.
LEMMA KeepsDistinct ==
    ASSUME NEW p \in Printers, Distinct(jobs, p), KeepsPlaces(jobs')
    PROVE  Distinct(jobs', p)
<1>1. \A k \in Placed(jobs', p) : k \in Placed(jobs, p) /\ jobs'[k].position = jobs[k].position
  BY TableAssumption DEF KeepsPlaces, Placed
<1>2. QED
  BY <1>1, FewerPlaced

\* Ending a row keeps its place and its printer.
LEMMA EndKeeps ==
    ASSUME NEW row \in Row, NEW s
    PROVE  End(row, s).position = row.position /\ End(row, s).printer = row.printer
BY DEF End, Row

\* Saving a row with its old place, or none, moves and gives no place.
LEMMA SaveKeeps ==
    ASSUME NEW t, KeepsPlaces(t), NEW j, NEW row,
           \/ row.position = Unqueued
           \/ /\ j \in DOMAIN t
              /\ row.position = t[j].position
              /\ row.printer = t[j].printer
    PROVE  KeepsPlaces(Save(t, j, row))
BY DEF KeepsPlaces, Save

\* handlePrintStarted moves and gives no place.
LEMMA PrintingKeeps ==
    ASSUME Typed, NEW p, NEW f \in Files, ReportPrinting(p, f)
    PROVE  KeepsPlaces(jobs')
<1> DEFINE t == Superseded(jobs, p, f)
           a == Attributed(t, p, f)
<1>1. KeepsPlaces(t)
  BY TypedRow, EndKeeps DEF Superseded, KeepsPlaces
<1>2. Rows(t) /\ a \subseteq DOMAIN t
  BY TypedRow DEF Superseded, Rows, Attributed, LatestCreated, End, Row, Statuses
<1>3. clock' \in Nat
  BY TypedRow DEF ReportPrinting
<1> HIDE DEF t, a
<1>4. ASSUME NEW j \in a, jobs' = Save(t, j, Start(t[j], clock'))
      PROVE  KeepsPlaces(jobs')
  <2>1. j \in DOMAIN t /\ t[j] \in Row
    BY <1>2 DEF Rows
  <2>2. /\ Start(t[j], clock').position = t[j].position
        /\ Start(t[j], clock').printer = t[j].printer
    BY <1>3, <2>1, StartIsRow
  <2>3. QED
    BY <1>1, <1>4, <2>1, <2>2, SaveKeeps
<1>5. ASSUME NEW state, jobs' = Insert(t, NewRow(p, f, "PRINTING", FALSE, clock', state))
      PROVE  KeepsPlaces(jobs')
  BY <1>1, <1>5, SaveKeeps DEF Insert, NewRow
<1>6. QED
  BY <1>4, <1>5 DEF ReportPrinting, t, a

\* No report and no operator's correction moves or gives a place.
LEMMA LifecycleKeeps ==
    ASSUME Typed, LifecycleNext
    PROVE  KeepsPlaces(jobs')
<1>0. KeepsPlaces(jobs) /\ \A k \in DOMAIN jobs : jobs[k] \in Row
  BY TypedRow DEF KeepsPlaces
<1>1. ASSUME NEW j \in DOMAIN jobs, NEW s, jobs' = Save(jobs, j, End(jobs[j], s))
      PROVE  KeepsPlaces(jobs')
  BY <1>0, <1>1, EndKeeps, SaveKeeps
<1>2. ASSUME NEW p, NEW f, CreateUploadedJob(p, f)
      PROVE  KeepsPlaces(jobs')
  BY <1>0, <1>2, SaveKeeps DEF CreateUploadedJob, Insert, NewRow
<1>3. ASSUME NEW p, NEW s, EndPrinting(p, s)
      PROVE  KeepsPlaces(jobs')
  BY <1>1, <1>3 DEF EndPrinting, LatestPrinting, Printing
<1>4. CASE Report
  BY <1>3, <1>4, PrintingKeeps DEF Report, ReportFinished, ReportFailed
<1>5. ASSUME NEW p, ReportIdle(p)
      PROVE  KeepsPlaces(jobs')
  BY <1>3, <1>5 DEF ReportIdle
<1>6. CASE Operator
  <2>1. PICK j \in DOMAIN jobs :
           SetCompleted(j) \/ SetFailed(j) \/ SetCancelled(j) \/ SetUnknown(j) \/ DeleteJob(j)
    BY <1>6 DEF Operator
  <2>2. CASE SetCompleted(j) \/ SetFailed(j) \/ SetCancelled(j)
    BY <1>1, <2>2 DEF SetCompleted, SetFailed, SetCancelled, Correct
  <2>3. CASE SetUnknown(j)
    <3>1. /\ [jobs[j] EXCEPT !.status = "UNKNOWN"].position = jobs[j].position
          /\ [jobs[j] EXCEPT !.status = "UNKNOWN"].printer = jobs[j].printer
      BY <1>0 DEF Row
    <3>2. QED
      BY <1>0, <2>3, <3>1, SaveKeeps DEF SetUnknown, Correct
  <2>4. CASE DeleteJob(j)
    BY <1>0, <2>4 DEF DeleteJob, Remove, KeepsPlaces
  <2>5. QED
    BY <2>1, <2>2, <2>3, <2>4
<1>7. ASSUME NEW p, DeletePrinter(p)
      PROVE  KeepsPlaces(jobs')
  <2>1. \A k \in DOMAIN jobs :
           /\ [jobs[k] EXCEPT !.printer = NoPrinter].position = jobs[k].position
           /\ [jobs[k] EXCEPT !.printer = NoPrinter].printer = NoPrinter
    BY <1>0 DEF Row
  <2>2. QED
    BY <1>0, <1>7, <2>1 DEF DeletePrinter, KeepsPlaces
<1>8. QED
  BY <1>2, <1>4, <1>5, <1>6, <1>7 DEF LifecycleNext

-----------------------------------------------------------------------------

\* A step of the farm keeps places distinct, but for the two exceptions.
LEMMA FarmStepDistinct ==
    ASSUME FarmInv, FarmNext, NEW p \in Printers, Distinct(jobs, p)
    PROVE  Distinct(jobs', p) \/ PartialReordering \/ SubmitsOrphan
<1>0. Typed
  BY DEF FarmInv, Typed, HistoryConsistent, RowConsistent
<1>1. CASE QueueNext
  <2>1. CASE \E q \in printers, j \in DOMAIN jobs : AddToQueue(q, j)
    BY <1>0, <2>1, AddDistinct
  <2>2. CASE \E j \in DOMAIN jobs : RemoveFromQueue(j)
    BY <1>0, <2>2, RemoveDistinct
  <2>3. CASE \E q \in printers, order \in ReorderRequests : ReorderQueue(q, order)
    BY <1>0, <2>3, ReorderDistinct DEF PartialReordering
  <2>4. CASE \E q \in printers : ClearQueue(q)
    BY <1>0, <2>4, ClearDistinct
  <2>5. CASE \E q \in printers, f \in Files : CreateJobFromFile(q, f)
    BY <1>0, <2>5, CreateDistinct
  <2>6. CASE \E q \in printers, j \in DOMAIN jobs : SubmitToPrinter(q, j)
    BY <1>0, <2>6, SubmitDistinct
  <2>7. CASE \E u \in uploads : UploadSucceeds(u)
    BY <1>0, <2>7, SucceedsDistinct
  <2>8. CASE \E u \in uploads : UploadFails(u)
    BY <1>0, <2>8, FailsDistinct
  <2>9. QED
    BY <1>1, <2>1, <2>2, <2>3, <2>4, <2>5, <2>6, <2>7, <2>8 DEF QueueNext
<1>2. CASE LifecycleNext /\ UNCHANGED uploads
  BY <1>0, <1>2, LifecycleKeeps, KeepsDistinct
<1>3. CASE Restart
  BY <1>3 DEF Restart, tableVars
<1>4. QED
  BY <1>1, <1>2, <1>3 DEF FarmNext, Handlers

\* Two jobs of a printer never come to share a place, however queueing,
\* submissions, uploads, reports, corrections and restarts interleave, unless
\* a client reorders only some of them or submits an orphan.
THEOREM FarmPlacesStayDistinct == FarmSpec => PlacesStayDistinct
<1> DEFINE step == \A p \in Printers :
               Distinct(jobs, p) => \/ Distinct(jobs', p)
                                    \/ PartialReordering
                                    \/ SubmitsOrphan
<1>1. FarmInv /\ [FarmNext]_queueVars => [step]_queueVars
  BY FarmStepDistinct
<1> HIDE DEF step
<1>2. FarmSpec => [][step]_queueVars
  BY <1>1, FarmInvariant, PTL DEF FarmSpec
<1>3. QED
  BY <1>2, PTL DEF step, PlacesStayDistinct

-----------------------------------------------------------------------------
(* Order: whoever is not asked about stands behind whom they stood behind, *)
(* and a job that is taken out leaves no gap.                              *)
(*                                                                         *)
(* Both follow from what a compaction and the save beside it do to the     *)
(* places of a printer: Closes when a job leaves, SamePlaces when none of  *)
(* that printer does.                                                      *)

\* The job j leaves its place on p, and the places behind it move up.
Closes(t, s, p, j) ==
    /\ Placed(s, p) = Placed(t, p) \ {j}
    /\ \A k \in Placed(s, p) :
          s[k].position = IF t[k].position > t[j].position
                          THEN t[k].position - 1 ELSE t[k].position

\* No job that has a place on p before and after is moved.
SamePlaces(t, s, p) ==
    \A k \in Placed(t, p) \cap Placed(s, p) : s[k].position = t[k].position

\* A row's place is a number.
LEMMA PlacedNat ==
    ASSUME NEW t, Rows(t), NEW p, NEW k \in Placed(t, p)
    PROVE  k \in DOMAIN t /\ t[k].printer = p /\ t[k].position \in Nat
BY DEF Placed, Rows, Row

\* No two jobs at one place: those that move up do not pass one that stays.
LEMMA ClosesOrder ==
    ASSUME Rows(jobs), NEW p, Distinct(jobs, p), NEW j \in Placed(jobs, p),
           Closes(jobs, jobs', p, j)
    PROVE  SameOrderBut({}, p)
<1> SUFFICES ASSUME NEW k \in Placed(jobs, p) \cap Placed(jobs', p),
                    NEW m \in Placed(jobs, p) \cap Placed(jobs', p),
                    jobs[k].position < jobs[m].position
             PROVE  jobs'[k].position < jobs'[m].position
  BY DEF SameOrderBut
<1>1. jobs[k].position \in Nat /\ jobs[m].position \in Nat /\ jobs[j].position \in Nat
  BY PlacedNat
<1>2. k # j /\ m # j
  BY DEF Closes
<1>3. jobs[k].position # jobs[j].position /\ jobs[m].position # jobs[j].position
  BY <1>2 DEF Distinct
<1>4. QED
  BY <1>1, <1>3 DEF Closes

\* The job before one that moved up has moved up too, or stood before the gap.
LEMMA ClosesGap ==
    ASSUME NEW t, NEW s, Rows(t), NEW p, Distinct(t, p), Gapless(t, p),
           NEW j \in Placed(t, p), Closes(t, s, p, j)
    PROVE  Gapless(s, p)
<1> SUFFICES ASSUME NEW k \in Placed(s, p), s[k].position > 0
             PROVE  \E m \in Placed(s, p) : s[m].position = s[k].position - 1
  BY DEF Gapless
<1>1. k \in Placed(t, p) /\ k # j /\ t[k].position # t[j].position
  BY DEF Closes, Distinct
<1>2. t[k].position \in Nat /\ t[j].position \in Nat
  BY <1>1, PlacedNat
<1>3. s[k].position = IF t[k].position > t[j].position
                      THEN t[k].position - 1 ELSE t[k].position
  BY DEF Closes
<1>4. CASE t[k].position = t[j].position + 1
  <2>1. t[j].position > 0
    BY <1>2, <1>3, <1>4
  <2>2. PICK m \in Placed(t, p) : t[m].position = t[j].position - 1
    BY <2>1 DEF Gapless
  <2>3. m \in Placed(s, p) /\ s[m].position = t[m].position
    BY <1>2, <2>2 DEF Closes
  <2>4. QED
    BY <1>2, <1>3, <1>4, <2>2, <2>3
<1>5. CASE t[k].position # t[j].position + 1
  <2>1. t[k].position > 0
    BY <1>2, <1>3
  <2>2. PICK m \in Placed(t, p) : t[m].position = t[k].position - 1
    BY <1>1, <2>1 DEF Gapless
  <2>3. m # j /\ t[m].position \in Nat
    BY <1>2, <1>5, <2>2, PlacedNat
  <2>4. m \in Placed(s, p) /\ s[m].position = IF t[m].position > t[j].position
                                             THEN t[m].position - 1 ELSE t[m].position
    BY <2>3 DEF Closes
  <2>5. QED
    BY <1>1, <1>2, <1>3, <1>5, <2>2, <2>3, <2>4
<1>6. QED
  BY <1>4, <1>5

\* Those that move up come to stand apart, as they did.
LEMMA ClosesDistinct ==
    ASSUME NEW t, NEW s, Rows(t), NEW p, Distinct(t, p), NEW j \in Placed(t, p),
           Closes(t, s, p, j)
    PROVE  Distinct(s, p)
<1> SUFFICES ASSUME NEW k \in Placed(s, p), NEW m \in Placed(s, p),
                    s[k].position = s[m].position
             PROVE  k = m
  BY DEF Distinct
<1>1. k \in Placed(t, p) \ {j} /\ m \in Placed(t, p) \ {j}
  BY DEF Closes
<1>2. t[k].position \in Nat /\ t[m].position \in Nat /\ t[j].position \in Nat
  BY <1>1, PlacedNat
<1>3. t[k].position # t[j].position /\ t[m].position # t[j].position
  BY <1>1 DEF Distinct
<1>4. t[k].position = t[m].position
  BY <1>2, <1>3 DEF Closes
<1>5. QED
  BY <1>1, <1>4 DEF Distinct

LEMMA SamePlacesOrder ==
    ASSUME NEW p, SamePlaces(jobs, jobs', p)
    PROVE  SameOrderBut({}, p)
BY DEF SamePlaces, SameOrderBut

\* The compaction of q moves up the rows of q behind a place, and no others.
LEMMA CompactRow ==
    ASSUME NEW t, Rows(t), NEW q, NEW n \in Nat, NEW k \in DOMAIN t
    PROVE  /\ Compact(t, q, n)[k].printer = t[k].printer
           /\ Compact(t, q, n)[k].position =
                 IF t[k].printer = q /\ t[k].position > n
                 THEN t[k].position - 1 ELSE t[k].position
<1>1. t[k] \in Row
  BY DEF Rows
<1>2. /\ [t[k] EXCEPT !.position = @ - 1].printer = t[k].printer
      /\ [t[k] EXCEPT !.position = @ - 1].position = t[k].position - 1
  BY <1>1 DEF Row
<1>3. QED
  BY <1>2 DEF Compact

\* A row that loses its place while the places behind it move up
LEMMA TakenOut ==
    ASSUME NEW t, Rows(t), NEW p, NEW j \in Placed(t, p), NEW row, row.position = Unqueued,
           NEW s, \/ s = Compact(Save(t, j, row), p, t[j].position) /\ row \in Row
                  \/ s = Save(Compact(t, p, t[j].position), j, row)
    PROVE  Closes(t, s, p, j)
<1> DEFINE n == t[j].position
<1>1. j \in DOMAIN t /\ n \in Nat /\ \A k \in DOMAIN t : t[k].position \in Nat \cup {Unqueued}
  BY PlacedNat DEF Rows, Row
<1>2. /\ DOMAIN s = DOMAIN t
      /\ s[j].position = Unqueued
      /\ \A k \in DOMAIN t : k # j =>
            /\ s[k].printer = t[k].printer
            /\ s[k].position = IF t[k].printer = p /\ t[k].position > n
                               THEN t[k].position - 1 ELSE t[k].position
  <2>1. CASE s = Compact(Save(t, j, row), p, n) /\ row \in Row
    <3> DEFINE u == Save(t, j, row)
    <3>1. Rows(u) /\ DOMAIN u = DOMAIN t /\ u[j] = row /\ \A k \in DOMAIN t : k # j => u[k] = t[k]
      BY <1>1, <2>1 DEF Save, Rows
    <3> HIDE DEF u
    <3>2. s = Compact(u, p, n) /\ DOMAIN s = DOMAIN t
      BY <2>1, <3>1 DEF Compact, u
    <3>3. ASSUME NEW k \in DOMAIN t
          PROVE  /\ s[k].printer = u[k].printer
                 /\ s[k].position = IF u[k].printer = p /\ u[k].position > n
                                    THEN u[k].position - 1 ELSE u[k].position
      BY <1>1, <3>1, <3>2, CompactRow
    <3>4. s[j].position = Unqueued
      BY <1>1, <3>1, <3>3 DEF Unqueued
    <3>5. QED
      BY <3>1, <3>2, <3>3, <3>4
  <2>2. CASE s = Save(Compact(t, p, n), j, row)
    <3> DEFINE u == Compact(t, p, n)
    <3>1. DOMAIN u = DOMAIN t
      BY DEF Compact
    <3>2. ASSUME NEW k \in DOMAIN t
          PROVE  /\ u[k].printer = t[k].printer
                 /\ u[k].position = IF t[k].printer = p /\ t[k].position > n
                                    THEN t[k].position - 1 ELSE t[k].position
      BY <1>1, CompactRow
    <3> HIDE DEF u
    <3>3. DOMAIN s = DOMAIN t /\ s[j] = row /\ \A k \in DOMAIN t : k # j => s[k] = u[k]
      BY <1>1, <2>2, <3>1 DEF Save, u
    <3>4. QED
      BY <3>2, <3>3
  <2>3. QED
    BY <2>1, <2>2
<1>3. ASSUME NEW k \in DOMAIN t, k # j
      PROVE  /\ k \in Placed(s, p) <=> k \in Placed(t, p)
             /\ k \in Placed(t, p) => s[k].position = IF t[k].position > n
                                       THEN t[k].position - 1 ELSE t[k].position
  BY <1>1, <1>2, <1>3 DEF Placed, Unqueued
<1>4. j \notin Placed(s, p) /\ Placed(s, p) \subseteq DOMAIN t /\ Placed(t, p) \subseteq DOMAIN t
  BY <1>2 DEF Placed
<1>5. Placed(s, p) = Placed(t, p) \ {j}
  BY <1>3, <1>4
<1>6. QED
  BY <1>3, <1>4, <1>5 DEF Closes

-----------------------------------------------------------------------------
(* The operations that take a job out.                                     *)

LEMMA RemoveCloses ==
    ASSUME Typed, NEW p \in Printers, NEW j \in DOMAIN jobs, RemoveFromQueue(j)
    PROVE  IF j \in Placed(jobs, p) THEN Closes(jobs, jobs', p, j)
           ELSE SamePlaces(jobs, jobs', p)
<1> DEFINE out == Withdrawn(jobs[j])
           n   == jobs[j].position
           q   == jobs[j].printer
<1>1. jobs[j] \in Row /\ n \in Nat \cup {Unqueued} /\ Rows(jobs) /\ p # NoPrinter
  BY TypedRow, TableAssumption DEF Row, Rows
<1>2. out \in Row /\ out.position = Unqueued /\ out.printer = q
  <2>1. out.position = Unqueued
    BY <1>1 DEF Withdrawn, Row
  <2>2. QED
    BY <1>1, <2>1, WithdrawnIsRow
<1>3. jobs' = IF n # Unqueued /\ q # NoPrinter
              THEN Compact(Save(jobs, j, out), q, n) ELSE Save(jobs, j, out)
  BY DEF RemoveFromQueue
<1> HIDE DEF out
<1>4. CASE j \in Placed(jobs, p)
  <2>1. n # Unqueued /\ q = p
    BY <1>4 DEF Placed
  <2>2. QED
    BY <1>1, <1>2, <1>3, <1>4, <2>1, TakenOut
<1>5. CASE j \notin Placed(jobs, p)
  <2> DEFINE t == Save(jobs, j, out)
  <2>1. Rows(t) /\ DOMAIN t = DOMAIN jobs /\ \A k \in DOMAIN jobs : k # j => t[k] = jobs[k]
    BY <1>1, <1>2 DEF Save, Rows
  <2>2. SamePlaces(jobs, t, p)
    BY <1>5, <2>1 DEF SamePlaces, Placed
  <2> HIDE DEF t
  <2>3. ASSUME n # Unqueued, q # NoPrinter
        PROVE  SamePlaces(jobs, Compact(t, q, n), p)
    <3>1. n \in Nat /\ q # p
      BY <1>1, <1>5, <2>3 DEF Placed
    <3>2. \A k \in DOMAIN t : k # j /\ t[k].printer = p =>
             Compact(t, q, n)[k].position = t[k].position
      BY <2>1, <3>1, CompactRow
    <3>3. QED
      BY <1>5, <2>1, <3>2 DEF SamePlaces, Placed
  <2>4. QED
    BY <1>3, <1>5, <2>2, <2>3 DEF t
<1>6. QED
  BY <1>4, <1>5

\* Whether its file is stored or not, a submitted job leaves its place.
LEMMA SubmitCloses ==
    ASSUME Typed, NEW p \in Printers, NEW q \in printers, NEW j \in DOMAIN jobs,
           SubmitToPrinter(q, j)
    PROVE  \/ j \in Placed(jobs, p) /\ p = q /\ Closes(jobs, jobs', p, j)
           \/ j \notin Placed(jobs, p) /\ SamePlaces(jobs, jobs', p)
           \/ jobs[j].printer = NoPrinter /\ jobs[j].position # Unqueued
<1> DEFINE n   == jobs[j].position
           row == Launched(jobs[j], q, clock + 1)
           s   == IF n # Unqueued THEN Compact(jobs, q, n) ELSE jobs
<1>1. /\ jobs[j] \in Row /\ n \in Nat \cup {Unqueued} /\ Rows(jobs)
      /\ q \in Printers /\ clock + 1 \in Nat /\ p # NoPrinter
      /\ jobs[j].printer \in {NoPrinter, q}
  BY TypedRow, TableAssumption DEF Row, Rows, SubmitToPrinter, MayBelongTo
<1>2. row \in Row /\ row.position = Unqueued /\ row.printer = q
  <2>1. row.position = Unqueued
    BY <1>1 DEF Launched, Row
  <2>2. QED
    BY <1>1, <2>1, LaunchedIsRow
<1>3. End(row, "FAILED").position = Unqueued
  BY <1>2 DEF End, Row
<1>4. \E last : last.position = Unqueued /\ jobs' = Save(s, j, last)
  <2> DEFINE t == Submitted(jobs, q, j, clock + 1)
  <2>1. t = Save(s, j, row)
    BY DEF Submitted
  <2>2. jobs' = t \/ jobs' = Save(t, j, End(t[j], "FAILED"))
    BY DEF SubmitToPrinter
  <2> HIDE DEF s, t, row
  <2>3. t[j] = row /\ Save(t, j, End(row, "FAILED")) = Save(s, j, End(row, "FAILED"))
    BY <2>1 DEF Save
  <2>4. QED
    BY <1>2, <1>3, <2>1, <2>2, <2>3
<1>5. PICK last : last.position = Unqueued /\ jobs' = Save(s, j, last)
  BY <1>4
<1>6. CASE j \in Placed(jobs, p)
  <2>1. n # Unqueued /\ q = p
    BY <1>1, <1>6 DEF Placed
  <2>2. jobs' = Save(Compact(jobs, p, n), j, last)
    BY <1>5, <2>1
  <2>3. Closes(jobs, jobs', p, j)
    BY <1>1, <1>5, <1>6, <2>2, TakenOut
  <2>4. QED
    BY <1>6, <2>1, <2>3
<1>7. CASE j \notin Placed(jobs, p) /\ n # Unqueued
  <2>1. CASE jobs[j].printer = NoPrinter
    BY <1>7, <2>1
  <2>2. CASE jobs[j].printer = q
    <3>1. p # q /\ n \in Nat
      BY <1>1, <1>7, <2>2 DEF Placed
    <3>2. \A k \in DOMAIN jobs : jobs[k].printer = p =>
             Compact(jobs, q, n)[k].position = jobs[k].position
      BY <1>1, <3>1, CompactRow
    <3>3. DOMAIN jobs' = DOMAIN jobs /\ jobs'[j] = last
          /\ \A k \in DOMAIN jobs : k # j => jobs'[k] = Compact(jobs, q, n)[k]
      BY <1>5, <1>7 DEF Save, Compact
    <3>4. SamePlaces(jobs, jobs', p)
      BY <1>7, <3>2, <3>3 DEF SamePlaces, Placed
    <3>5. QED
      BY <1>7, <3>4
  <2>3. QED
    BY <1>1, <2>1, <2>2
<1>8. CASE j \notin Placed(jobs, p) /\ n = Unqueued
  <2>1. DOMAIN jobs' = DOMAIN jobs /\ \A k \in DOMAIN jobs : k # j => jobs'[k] = jobs[k]
    BY <1>5, <1>8 DEF Save
  <2>2. SamePlaces(jobs, jobs', p)
    BY <1>8, <2>1 DEF SamePlaces, Placed
  <2>3. QED
    BY <1>8, <2>2
<1>9. QED
  BY <1>6, <1>7, <1>8

\* An upload that ends takes its job out of the queue that the job is in.
LEMMA SucceedsCloses ==
    ASSUME FarmInv, Typed, NEW p \in Printers, NEW u \in uploads, UploadSucceeds(u)
    PROVE  \/ jobs' = jobs
           \/ u.job \in Placed(jobs, p) /\ Closes(jobs, jobs', p, u.job)
           \/ ~(u.job \in Placed(jobs, p) /\ u.printer = p) /\ SamePlaces(jobs, jobs', p)
<1> SUFFICES ASSUME u.job \in DOMAIN jobs, u.position # Unqueued,
                    jobs[u.job].position = u.position,
                    jobs' = Compact(Save(jobs, u.job, [jobs[u.job] EXCEPT !.position = Unqueued]),
                                    u.printer, u.position)
             PROVE  \/ u.job \in Placed(jobs, p) /\ Closes(jobs, jobs', p, u.job)
                    \/ ~(u.job \in Placed(jobs, p) /\ u.printer = p) /\ SamePlaces(jobs, jobs', p)
  BY DEF UploadSucceeds
<1> DEFINE out == [jobs[u.job] EXCEPT !.position = Unqueued]
           t   == Save(jobs, u.job, out)
<1>1. /\ Rows(jobs) /\ jobs[u.job] \in Row /\ u.position \in Nat /\ p # NoPrinter
      /\ \A k \in DOMAIN jobs : jobs[k].printer \in printers \cup {NoPrinter}
  BY TypedRow, TableAssumption
  DEF Rows, Row, Typed, QueueTypeOK, TableTypeOK, IsTable, RowOf
<1>2. out \in Row /\ out.position = Unqueued /\ jobs' = Compact(t, u.printer, u.position)
  BY <1>1 DEF Row
<1> HIDE DEF out
<1>3. /\ Rows(t) /\ DOMAIN t = DOMAIN jobs /\ t[u.job] = out
      /\ \A k \in DOMAIN jobs : k # u.job => t[k] = jobs[k]
  BY <1>1, <1>2 DEF Save, Rows
<1>4. CASE p = u.printer /\ u.printer \in printers
  <2>1. jobs[u.job].printer = p
    BY <1>4 DEF FarmInv, UploadKeepsPrinter
  <2>2. u.job \in Placed(jobs, p)
    BY <2>1 DEF Placed
  <2>3. QED
    BY <1>1, <1>2, <1>4, <2>2, TakenOut DEF t
<1> HIDE DEF t
<1>5. CASE p # u.printer
  <2>1. \A k \in DOMAIN t : t[k].printer = p =>
           Compact(t, u.printer, u.position)[k].position = t[k].position
    BY <1>1, <1>3, <1>5, CompactRow
  <2>2. Compact(t, u.printer, u.position)[u.job].position = Unqueued
    BY <1>1, <1>2, <1>3, CompactRow DEF Unqueued
  <2>3. SamePlaces(jobs, jobs', p)
    BY <1>2, <1>3, <2>1, <2>2 DEF SamePlaces, Placed
  <2>4. QED
    BY <1>5, <2>3
<1>6. CASE p = u.printer /\ u.printer \notin printers
  <2>1. Placed(jobs, p) = {}
    BY <1>1, <1>6 DEF Placed
  <2>2. QED
    BY <2>1 DEF SamePlaces
<1>7. QED
  BY <1>4, <1>5, <1>6

-----------------------------------------------------------------------------
(* The operations that give a place, and those that give up several.       *)

GivesPlace(t, m, row, q) ==
    \/ AppendTo(t, m, row, q)
    \/ \E n \in 0..MaxPosition : InsertAt(t, m, row, q, n)

\* The rows of t beside m stand in s where they stood, or those of q from
\* some place on d places behind it.
MovedBy(t, s, q, m, n, d) ==
    \A k \in DOMAIN t \ {m} :
        s[k].position = IF t[k].printer = q /\ t[k].position >= n
                        THEN t[k].position + d ELSE t[k].position

MakesRoom(t, s, q, m) == \E n \in Nat : MovedBy(t, s, q, m, n, 0) \/ MovedBy(t, s, q, m, n, 1)

\* Where the rows beside m stand when m is given a place on q.
LEMMA PlacedRows ==
    ASSUME NEW t, Rows(t), NEW m, NEW row \in Row, NEW q \in Printers,
           GivesPlace(t, m, row, q)
    PROVE  jobs'[m].printer = q /\ MakesRoom(t, jobs', q, m)
<1> USE TableAssumption
<1>1. \A n : Queued(row, q, n).printer = q
  BY DEF Queued, Row
<1>2. \A k \in DOMAIN t : t[k] \in Row /\ t[k].position \in Nat \cup {Unqueued}
  BY DEF Rows, Row
<1>3. ASSUME NEW n, jobs' = Save(t, m, Queued(row, q, n))
      PROVE  jobs'[m].printer = q /\ MovedBy(t, jobs', q, m, 0, 0)
  BY <1>1, <1>2, <1>3 DEF Save, Unqueued, MovedBy
<1>4. ASSUME NEW n \in 0..MaxPosition, jobs' = Save(Shift(t, q, n), m, Queued(row, q, n))
      PROVE  jobs'[m].printer = q /\ MovedBy(t, jobs', q, m, n, 1)
  <2>1. \A k \in DOMAIN t : [t[k] EXCEPT !.position = @ + 1].position = t[k].position + 1
    BY <1>2 DEF Row
  <2>2. QED
    BY <1>1, <1>4, <2>1 DEF Save, Shift, MovedBy
<1>5. CASE AppendTo(t, m, row, q)
  <2>1. PICK n : jobs' = Save(t, m, Queued(row, q, n))
    BY <1>5 DEF AppendTo
  <2>2. 0 \in Nat
    OBVIOUS
  <2>3. QED
    BY <1>3, <2>1, <2>2 DEF MakesRoom
<1>6. CASE \E n \in 0..MaxPosition : InsertAt(t, m, row, q, n)
  <2>1. PICK n \in 0..MaxPosition : jobs' = Save(Shift(t, q, n), m, Queued(row, q, n))
    BY <1>6 DEF InsertAt
  <2>2. n \in Nat
    OBVIOUS
  <2>3. QED
    BY <1>4, <2>1, <2>2 DEF MakesRoom
<1>7. QED
  BY <1>5, <1>6 DEF GivesPlace

\* Those beside m keep their order, and m is not on another printer.
LEMMA PlacedOrder ==
    ASSUME Typed, NEW t, Rows(t), NEW m, NEW row \in Row, NEW q \in Printers,
           GivesPlace(t, m, row, q), \A k \in DOMAIN jobs : k # m => k \in DOMAIN t /\ t[k] = jobs[k],
           NEW p
    PROVE  /\ SameOrderBut({m}, p)
           /\ p # q \/ m \notin DOMAIN jobs => SameOrderBut({}, p)
<1>1. jobs'[m].printer = q /\ MakesRoom(t, jobs', q, m)
  BY PlacedRows
<1>2. PICK n \in Nat : MovedBy(t, jobs', q, m, n, 0) \/ MovedBy(t, jobs', q, m, n, 1)
  BY <1>1 DEF MakesRoom
<1>3. ASSUME NEW j \in Placed(jobs, p) \ {m}, NEW k \in Placed(jobs, p) \ {m},
             jobs[j].position < jobs[k].position
      PROVE  jobs'[j].position < jobs'[k].position
  <2>1. /\ j \in DOMAIN t /\ t[j] = jobs[j] /\ k \in DOMAIN t /\ t[k] = jobs[k]
        /\ jobs[j].printer = p /\ jobs[k].printer = p
        /\ jobs[j].position \in Nat /\ jobs[k].position \in Nat
    BY TypedRow DEF Placed, Row
  <2>2. CASE p = q
    BY <1>2, <1>3, <2>1, <2>2 DEF MovedBy
  <2>3. CASE p # q
    BY <1>2, <1>3, <2>1, <2>3 DEF MovedBy
  <2>4. QED
    BY <2>2, <2>3
<1>4. SameOrderBut({m}, p)
  BY <1>3 DEF SameOrderBut
<1>5. p # q \/ m \notin DOMAIN jobs => m \notin Placed(jobs, p) \cap Placed(jobs', p)
  BY <1>1 DEF Placed
<1>6. QED
  BY <1>4, <1>5 DEF SameOrderBut

\* addToQueue moves the job it is asked about, on the printer it is asked for.
LEMMA AddOrder ==
    ASSUME Typed, NEW p, NEW q \in printers, NEW m \in DOMAIN jobs, AddToQueue(q, m)
    PROVE  SameOrderBut({}, p) \/ (SameOrderBut({m}, p) /\ AddToQueue(p, m))
<1>1. /\ Rows(jobs) /\ jobs[m] \in Row /\ q \in Printers
      /\ GivesPlace(jobs, m, jobs[m], q)
  BY TypedRow DEF AddToQueue, GivesPlace, Rows
<1>2. SameOrderBut({m}, p) /\ (p # q => SameOrderBut({}, p))
  BY <1>1, PlacedOrder
<1>3. QED
  BY <1>2

\* The job made from a file is a new one.
LEMMA CreateOrder ==
    ASSUME Typed, NEW p, NEW q \in printers, NEW f \in Files, CreateJobFromFile(q, f)
    PROVE  SameOrderBut({}, p)
<1> DEFINE row == NewRow(q, f, "PENDING", TRUE, 0, "ANALYZED")
           m   == lastId + 1
           t   == Insert(jobs, row)
<1>1. row \in Row /\ q \in Printers /\ m \notin DOMAIN jobs
  BY TypedRow DEF NewRow, Row, Statuses, AnalysisStates
<1> HIDE DEF row
<1>2. Rows(t) /\ \A k \in DOMAIN jobs : k # m => k \in DOMAIN t /\ t[k] = jobs[k]
  BY <1>1, TypedRow DEF Insert, Save, Rows
<1>3. jobs' = t \/ GivesPlace(t, m, row, q)
  BY DEF CreateJobFromFile, GivesPlace, row
<1> HIDE DEF t
<1>4. CASE jobs' = t
  <2>1. SamePlaces(jobs, jobs', p)
    BY <1>1, <1>2, <1>4 DEF SamePlaces, Placed
  <2>2. QED
    BY <2>1, SamePlacesOrder
<1>5. CASE GivesPlace(t, m, row, q)
  BY <1>1, <1>2, <1>5, PlacedOrder
<1>6. QED
  BY <1>3, <1>4, <1>5

\* Clearing gives up places, a failed upload moves none.
LEMMA OthersOrder ==
    ASSUME Typed, NEW p \in Printers,
           (\E q \in printers : ClearQueue(q)) \/ (\E u \in uploads : UploadFails(u))
           \/ LifecycleNext \/ UNCHANGED jobs
    PROVE  SameOrderBut({}, p)
<1>1. CASE \E q \in printers : ClearQueue(q)
  <2>1. \A k \in DOMAIN jobs :
           [jobs[k] EXCEPT !.status = "PENDING", !.position = Unqueued].position = Unqueued
    BY TypedRow DEF Row
  <2>2. SamePlaces(jobs, jobs', p)
    BY <1>1, <2>1 DEF ClearQueue, SamePlaces, Placed
  <2>3. QED
    BY <2>2, SamePlacesOrder
<1>2. CASE \E u \in uploads : UploadFails(u)
  <2>1. \A k \in DOMAIN jobs : End(jobs[k], "FAILED").position = jobs[k].position
    BY TypedRow DEF End, Row
  <2>2. SamePlaces(jobs, jobs', p)
    BY <1>2, <2>1 DEF UploadFails, Save, SamePlaces, Placed
  <2>3. QED
    BY <2>2, SamePlacesOrder
<1>3. CASE LifecycleNext
  <2>1. KeepsPlaces(jobs')
    BY <1>3, LifecycleKeeps
  <2>2. SamePlaces(jobs, jobs', p)
    BY <2>1 DEF KeepsPlaces, SamePlaces, Placed
  <2>3. QED
    BY <2>2, SamePlacesOrder
<1>4. CASE UNCHANGED jobs
  BY <1>4 DEF SameOrderBut
<1>5. QED
  BY <1>1, <1>2, <1>3, <1>4

-----------------------------------------------------------------------------
(* The two step properties.                                                *)

LEMMA FarmStepOrder ==
    ASSUME FarmInv, FarmNext, NEW p \in Printers, Distinct(jobs, p)
    PROVE  \/ SameOrderBut({}, p)
           \/ \E m \in DOMAIN jobs : SameOrderBut({m}, p) /\ AddToQueue(p, m)
           \/ Reordering
           \/ SubmitsOrphan
<1>0. Typed /\ Rows(jobs)
  BY TypedRow DEF FarmInv, Typed, HistoryConsistent, RowConsistent, Rows
<1>1. ASSUME NEW j, \/ j \in Placed(jobs, p) /\ Closes(jobs, jobs', p, j)
                    \/ SamePlaces(jobs, jobs', p)
      PROVE  SameOrderBut({}, p)
  BY <1>0, <1>1, ClosesOrder, SamePlacesOrder
<1>2. CASE QueueNext
  <2>1. CASE \E q \in printers, j \in DOMAIN jobs : AddToQueue(q, j)
    BY <1>0, <2>1, AddOrder
  <2>2. CASE \E j \in DOMAIN jobs : RemoveFromQueue(j)
    BY <1>0, <1>1, <2>2, RemoveCloses
  <2>3. CASE \E q \in printers, order \in ReorderRequests : ReorderQueue(q, order)
    BY <2>3 DEF Reordering
  <2>4. CASE \E q \in printers, f \in Files : CreateJobFromFile(q, f)
    BY <1>0, <2>4, CreateOrder
  <2>5. CASE \E q \in printers, j \in DOMAIN jobs : SubmitToPrinter(q, j)
    BY <1>0, <1>1, <2>5, SubmitCloses DEF SubmitsOrphan
  <2>6. CASE \E u \in uploads : UploadSucceeds(u)
    BY <1>0, <1>1, <2>6, SucceedsCloses, OthersOrder
  <2>7. CASE (\E q \in printers : ClearQueue(q)) \/ (\E u \in uploads : UploadFails(u))
    BY <1>0, <2>7, OthersOrder
  <2>8. QED
    BY <1>2, <2>1, <2>2, <2>3, <2>4, <2>5, <2>6, <2>7 DEF QueueNext
<1>3. CASE LifecycleNext \/ Restart
  BY <1>0, <1>3, OthersOrder DEF Restart, tableVars
<1>4. QED
  BY <1>2, <1>3 DEF FarmNext, Handlers

\* No request swaps two jobs it was not asked about, however queueing,
\* submissions, late uploads, reports, corrections and restarts interleave.
THEOREM FarmOrderKept == FarmSpec => QueueOrderKept
<1> DEFINE step == \A p \in Printers :
               Distinct(jobs, p) =>
                  \/ SameOrderBut({}, p)
                  \/ \E m \in DOMAIN jobs : SameOrderBut({m}, p) /\ AddToQueue(p, m)
                  \/ Reordering
                  \/ SubmitsOrphan
<1>1. FarmInv /\ [FarmNext]_queueVars => [step]_queueVars
  BY FarmStepOrder
<1> HIDE DEF step
<1>2. FarmSpec => [][step]_queueVars
  BY <1>1, FarmInvariant, PTL DEF FarmSpec
<1>3. QED
  BY <1>2, PTL DEF step, QueueOrderKept

\* A job that leaves its place leaves none behind: whether it was removed,
\* submitted, or queued again while it was uploaded.
LEMMA FarmStepGap ==
    ASSUME FarmInv, NEW p \in Printers, NEW j \in Placed(jobs, p),
           Distinct(jobs, p), Gapless(jobs, p),
           \/ RemoveFromQueue(j)
           \/ SubmitToPrinter(p, j)
           \/ \E u \in uploads : u.job = j /\ u.printer = p /\ UploadSucceeds(u)
    PROVE  Distinct(jobs', p) /\ Gapless(jobs', p)
<1>0. Typed /\ Rows(jobs) /\ j \in DOMAIN jobs /\ jobs[j].printer = p /\ p # NoPrinter
  BY TypedRow, TableAssumption DEF FarmInv, Typed, HistoryConsistent, RowConsistent, Rows, Placed
<1>1. Closes(jobs, jobs', p, j) => Distinct(jobs', p) /\ Gapless(jobs', p)
  BY <1>0, ClosesGap, ClosesDistinct
<1>2. CASE RemoveFromQueue(j)
  BY <1>0, <1>1, <1>2, RemoveCloses
<1>3. CASE SubmitToPrinter(p, j)
  <2>1. p \in printers
    BY <1>3 DEF SubmitToPrinter, MayBelongTo
  <2>2. QED
    BY <1>0, <1>1, <1>3, <2>1, SubmitCloses
<1>4. ASSUME NEW u \in uploads, u.job = j, u.printer = p, UploadSucceeds(u)
      PROVE  Distinct(jobs', p) /\ Gapless(jobs', p)
  <2>1. jobs' = jobs \/ Closes(jobs, jobs', p, j)
    BY <1>0, <1>4, SucceedsCloses
  <2>2. QED
    BY <1>1, <2>1
<1>5. QED
  BY <1>2, <1>3, <1>4

\* From a queue without gaps, each way of taking a job out leads to one.
THEOREM FarmGapCloses == FarmSpec => RemovalClosesGap
<1> DEFINE step == \A p \in Printers : \A j \in Placed(jobs, p) :
               /\ Distinct(jobs, p) /\ Gapless(jobs, p)
               /\ \/ RemoveFromQueue(j)
                  \/ SubmitToPrinter(p, j)
                  \/ \E u \in uploads : u.job = j /\ u.printer = p /\ UploadSucceeds(u)
               => Distinct(jobs', p) /\ Gapless(jobs', p)
<1>1. FarmInv => step
  BY FarmStepGap
<1> HIDE DEF step
<1>2. FarmSpec => [][step]_queueVars
  BY <1>1, FarmInvariant, PTL DEF FarmSpec
<1>3. QED
  BY <1>2, PTL DEF step, RemovalClosesGap

=============================================================================
