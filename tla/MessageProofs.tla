---------------------------- MODULE MessageProofs ----------------------------
(***************************************************************************)
(* What holds of the jobs of a printer whatever messages wait for files    *)
(* while others are handled: one job prints per printer, finished jobs are *)
(* left alone, every unread print is asked for, and no analysis is lost.   *)
(***************************************************************************)
EXTENDS PrinterMessages, PrintLifecycleProofs

-----------------------------------------------------------------------------
(* The operators on tables.                                                *)

\* OnePrintingPerPrinter of a table
IsOne(t) == \A q \in Printers : \A j, k \in Printing(t, q) : j = k

\* The table u has the rows of t, of which some that were PRINTING no longer are.
OnlyEnds(t, u) ==
    /\ DOMAIN u = DOMAIN t
    /\ \A j \in DOMAIN t :
          /\ u[j].printer = t[j].printer /\ u[j].file = t[j].file
          /\ u[j].stored = t[j].stored /\ u[j].analysis = t[j].analysis
          /\ t[j].status # "PRINTING" => u[j] = t[j]
          /\ u[j].status = "PRINTING" => u[j] = t[j]

\* Ending a job changes its status and its end.
LEMMA EndFields ==
    ASSUME NEW row \in Row, NEW s \in Statuses
    PROVE  /\ End(row, s).printer = row.printer /\ End(row, s).file = row.file
           /\ End(row, s).stored = row.stored /\ End(row, s).analysis = row.analysis
           /\ End(row, s).status = s /\ End(row, s).started = row.started
BY DEF End, Row

LEMMA StatusEnds ==
    ASSUME NEW e \in Ends, e # "no"
    PROVE  StatusOf(e) \in Statuses /\ StatusOf(e) # "PRINTING"
BY DEF Ends, StatusOf, Statuses

\* The end that a message tells ends the last row that prints.
LEMMA EndedEnds ==
    ASSUME NEW t, NEW n \in Nat, NEW ps, NEW c \in Nat, IsTable(t, n, ps, c),
           NEW p, NEW e \in Ends
    PROVE  IsTable(Ended(t, p, e), n, ps, c) /\ OnlyEnds(t, Ended(t, p, e))
<1> DEFINE u == Ended(t, p, e)
<1>1. DOMAIN u = DOMAIN t /\ u = [j \in DOMAIN t |-> u[j]]
  BY DEF Ended
<1>2. ASSUME NEW j \in DOMAIN t
      PROVE  \/ u[j] = t[j]
             \/ t[j].status = "PRINTING" /\ e # "no" /\ u[j] = End(t[j], StatusOf(e))
  BY DEF Ended, LatestPrinting, Printing
<1>3. ASSUME NEW j \in DOMAIN t
      PROVE  t[j] \in RowOf(ps, c) /\ t[j] \in Row
  BY RowOfTable DEF IsTable
<1> HIDE DEF u
<1>4. ASSUME NEW j \in DOMAIN t
      PROVE  u[j] \in RowOf(ps, c)
  BY <1>2, <1>3, StatusEnds, RowOfTable, EndIsRow
<1>5. IsTable(u, n, ps, c)
  BY <1>1, <1>4 DEF IsTable
<1>6. ASSUME NEW j \in DOMAIN t
      PROVE  /\ u[j].printer = t[j].printer /\ u[j].file = t[j].file
             /\ u[j].stored = t[j].stored /\ u[j].analysis = t[j].analysis
             /\ t[j].status # "PRINTING" => u[j] = t[j]
             /\ u[j].status = "PRINTING" => u[j] = t[j]
  BY <1>2, <1>3, StatusEnds, EndFields
<1>7. QED
  BY <1>1, <1>5, <1>6 DEF OnlyEnds, u

LEMMA OnlyEndsOne ==
    ASSUME NEW t, NEW u, OnlyEnds(t, u), IsOne(t)
    PROVE  IsOne(u)
BY DEF OnlyEnds, IsOne, Printing

-----------------------------------------------------------------------------
(* markStarted.                                                            *)

\* The job s.job prints on p in s.table; it is a new row, or one that had not
\* finished; beside it only jobs that were PRINTING on p are given up.
StartsOf(p, s) ==
    /\ s.job \in 1..(lastId + 1)
    /\ DOMAIN s.table = DOMAIN jobs \cup {s.job}
    /\ s.job \notin DOMAIN jobs => s.job = lastId + 1
    /\ s.table[s.job].printer = p
    /\ \A j \in DOMAIN jobs :
          /\ s.table[j].printer = jobs[j].printer
          /\ s.table[j].stored = jobs[j].stored /\ s.table[j].analysis = jobs[j].analysis
          /\ jobs[j].status \in Finished => s.table[j] = jobs[j]
          /\ s.table[j].status = "PRINTING" /\ j # s.job => s.table[j] = jobs[j]
    /\ s.found \in Metadata
    /\ s.job \in DOMAIN jobs => s.found = found[s.job]

LEMMA TheIs == ASSUME NEW S, S # {} PROVE The(S) \in S
BY DEF The

\* The row given up keeps all but its status.
LEMMA SupersededRows ==
    ASSUME TableTypeOK, NEW p, NEW f
    PROVE  LET t == Superseded(jobs, p, f)
           IN  /\ IsTable(t, lastId, printers, clock) /\ DOMAIN t = DOMAIN jobs
               /\ \A j \in DOMAIN jobs :
                     /\ t[j] \in Row
                     /\ t[j].printer = jobs[j].printer /\ t[j].file = jobs[j].file
                     /\ t[j].stored = jobs[j].stored /\ t[j].analysis = jobs[j].analysis
                     /\ t[j].status = "PRINTING" => t[j] = jobs[j]
                     /\ jobs[j].status # "PRINTING" => t[j] = jobs[j]
                     /\ t[j].started = jobs[j].started
                     /\ j \in LatestPrinting(jobs, p) /\ jobs[j].file # f => t[j].status # "PRINTING"
<1> DEFINE t == Superseded(jobs, p, f)
<1>1. lastId \in Nat /\ clock \in Nat /\ IsTable(jobs, lastId, printers, clock)
  BY TableAssumption DEF TableTypeOK
<1>2. IsTable(t, lastId, printers, clock)
  BY <1>1, SupersededIsTable
<1>3. DOMAIN t = DOMAIN jobs
  BY DEF Superseded
<1>4. ASSUME NEW j \in DOMAIN jobs
      PROVE  /\ \/ t[j] = jobs[j]
                \/ jobs[j].status = "PRINTING" /\ t[j] = End(jobs[j], "UNKNOWN")
             /\ j \in LatestPrinting(jobs, p) /\ jobs[j].file # f => t[j] = End(jobs[j], "UNKNOWN")
  BY DEF Superseded, LatestPrinting, Printing
<1>5. ASSUME NEW j \in DOMAIN jobs
      PROVE  jobs[j] \in Row /\ t[j] \in Row
  BY <1>1, <1>2, <1>3, RowOfTable DEF IsTable, RowOf
<1> HIDE DEF t
<1>6. ASSUME NEW j \in DOMAIN jobs
      PROVE  /\ t[j].printer = jobs[j].printer /\ t[j].file = jobs[j].file
             /\ t[j].stored = jobs[j].stored /\ t[j].analysis = jobs[j].analysis
             /\ t[j].status = "PRINTING" => t[j] = jobs[j]
             /\ jobs[j].status # "PRINTING" => t[j] = jobs[j]
             /\ t[j].started = jobs[j].started
             /\ j \in LatestPrinting(jobs, p) /\ jobs[j].file # f => t[j].status # "PRINTING"
  BY <1>4, <1>5, EndFields DEF Statuses
<1>7. QED
  BY <1>2, <1>3, <1>5, <1>6 DEF t

\* What markStarted leaves, in each of its three cases.
LEMMA StartedIs ==
    ASSUME MessageTypeOK, NEW p \in printers, NEW f \in Files
    PROVE  LET s == Started(p, f)
               c == IF s.table # jobs THEN clock + 1 ELSE clock
           IN  /\ StartsOf(p, s)
               /\ IsTable(s.table, IF s.job > lastId THEN s.job ELSE lastId, printers, c)
               /\ IsOne(jobs) => IsOne(s.table)
<1> DEFINE s       == Started(p, f)
           c       == IF s.table # jobs THEN clock + 1 ELSE clock
           n       == IF s.job > lastId THEN s.job ELSE lastId
           current == {j \in LatestPrinting(jobs, p) : jobs[j].file = f}
           t       == Superseded(jobs, p, f)
           a       == Attributed(t, p, f)
           reused  == {j \in a : t[j].status \notin Finished}
           id      == IF current # {} THEN The(current)
                      ELSE IF reused # {} THEN The(reused) ELSE lastId + 1
           row     == NewRow(p, f, "PRINTING", FALSE, clock + 1,
                             IF a = {} THEN "NOT_ANALYZED" ELSE t[The(a)].analysis)
<1>1. /\ s.job = id
      /\ s.table = IF current # {} THEN jobs
                   ELSE IF reused # {} THEN Save(t, id, Start(t[id], clock + 1))
                   ELSE Insert(t, row)
      /\ s.found = IF id <= lastId THEN found[id]
                   ELSE IF a # {} THEN found[The(a)] ELSE "none"
  BY DEF Started
<1>2. /\ lastId \in Nat /\ lastId <= MaxJobs /\ clock \in Nat /\ clock + 1 \in Nat
      /\ printers \subseteq Printers /\ p \in Printers
      /\ IsTable(jobs, lastId, printers, clock) /\ MaxJobs \in Nat
      /\ found \in [JobIds -> Metadata] /\ TableTypeOK
  BY TableAssumption DEF MessageTypeOK, TableTypeOK
<1>3. /\ IsTable(t, lastId, printers, clock) /\ DOMAIN t = DOMAIN jobs
      /\ \A j \in DOMAIN jobs :
            /\ t[j] \in Row
            /\ t[j].printer = jobs[j].printer /\ t[j].file = jobs[j].file
            /\ t[j].stored = jobs[j].stored /\ t[j].analysis = jobs[j].analysis
            /\ t[j].status = "PRINTING" => t[j] = jobs[j]
            /\ jobs[j].status # "PRINTING" => t[j] = jobs[j]
            /\ j \in LatestPrinting(jobs, p) /\ jobs[j].file # f => t[j].status # "PRINTING"
  BY <1>2, SupersededRows
<1>4. \A j \in a : j \in DOMAIN jobs /\ t[j].printer = p
  BY <1>3 DEF Attributed, LatestCreated
<1>5. \A j \in DOMAIN jobs : j \in 1..lastId /\ jobs[j] \in Row /\ jobs[j].started <= clock
  BY <1>2 DEF IsTable, RowOf
<1>6. current \subseteq Printing(jobs, p) /\ \A j \in current : j \in DOMAIN jobs /\ jobs[j].printer = p
  BY DEF LatestPrinting, Printing
<1>7. \A j \in 1..lastId : j \in JobIds /\ found[j] \in Metadata
  BY <1>2 DEF JobIds
<1>8. IsOne(jobs) => \A j \in Printing(jobs, p) : j \in LatestPrinting(jobs, p)
  <2>1. SUFFICES ASSUME IsOne(jobs), NEW j \in Printing(jobs, p)
                 PROVE  j \in LatestPrinting(jobs, p)
    OBVIOUS
  <2>2. \A k \in Printing(jobs, p) : k = j
    BY <1>2, <2>1 DEF IsOne
  <2>3. jobs[j].started \in Nat
    BY <1>5 DEF Printing, Row
  <2>4. QED
    BY <2>1, <2>2, <2>3 DEF LatestPrinting
<1> HIDE DEF s, c, n, t, a, id, row, reused
<1>9. CASE current # {}
  <2>1. id \in current /\ s.job = id /\ s.table = jobs
    BY <1>1, <1>9, TheIs DEF id
  <2>2. id \in DOMAIN jobs /\ id \in 1..lastId /\ jobs[id].printer = p
    BY <1>5, <1>6, <2>1
  <2>3. s.found = found[id] /\ s.found \in Metadata
    BY <1>1, <1>2, <1>7, <2>2
  <2>4. StartsOf(p, s)
    BY <1>2, <2>1, <2>2, <2>3 DEF StartsOf
  <2>5. c = clock /\ n = lastId
    BY <1>2, <2>1, <2>2 DEF c, n
  <2>6. QED
    BY <1>2, <2>1, <2>4, <2>5 DEF s, c, n
<1>10. ASSUME current = {}, NEW new \in RowOf(printers, clock + 1),
              s.job \in 1..(lastId + 1), s.table = Save(t, s.job, new),
              new.printer = p, new.status = "PRINTING", new.started = clock + 1,
              s.job \notin DOMAIN jobs => s.job = lastId + 1,
              s.job \in DOMAIN jobs => /\ jobs[s.job].status \notin Finished
                                       /\ jobs[s.job].printer = p
                                       /\ new.stored = jobs[s.job].stored
                                       /\ new.analysis = jobs[s.job].analysis,
              s.found \in Metadata, s.job \in DOMAIN jobs => s.found = found[s.job]
       PROVE  /\ StartsOf(p, s) /\ IsTable(s.table, n, printers, c)
              /\ IsOne(jobs) => IsOne(s.table)
  <2>1. /\ DOMAIN s.table = DOMAIN jobs \cup {s.job} /\ s.table[s.job] = new
        /\ \A j \in DOMAIN jobs : j # s.job => s.table[j] = t[j]
    <3>1. s.table = Save(t, s.job, new) /\ DOMAIN t = DOMAIN jobs
      BY <1>3, <1>10
    <3>2. /\ DOMAIN Save(t, s.job, new) = DOMAIN t \cup {s.job}
          /\ Save(t, s.job, new)[s.job] = new
          /\ \A k \in DOMAIN t : k # s.job => Save(t, s.job, new)[k] = t[k]
      BY SMT DEF Save
    <3>3. QED
      BY <3>1, <3>2, Zenon
  <2>2. s.table # jobs
    BY <1>2, <1>5, <1>10, <2>1 DEF IsTable
  <2>3. c = clock + 1 /\ n \in Nat /\ s.job \in 1..n /\ lastId <= n /\ clock <= clock + 1
    BY <1>2, <1>10, <2>2 DEF c, n
  <2>4. IsTable(t, n, printers, c)
    BY <1>2, <1>3, <2>3, TableGrows
  <2>5. IsTable(s.table, n, printers, c)
    BY <1>2, <1>10, <2>3, <2>4, SaveIsTable
  <2>6. ASSUME NEW j \in DOMAIN jobs
        PROVE  /\ s.table[j].printer = jobs[j].printer
               /\ s.table[j].stored = jobs[j].stored /\ s.table[j].analysis = jobs[j].analysis
               /\ jobs[j].status \in Finished => s.table[j] = jobs[j]
               /\ s.table[j].status = "PRINTING" /\ j # s.job => s.table[j] = jobs[j]
    <3>1. CASE j = s.job
      BY <1>10, <2>1, <3>1
    <3>2. CASE j # s.job
      BY <1>3, <2>1, <3>2 DEF Finished
    <3>3. QED
      BY <3>1, <3>2
  <2>7. StartsOf(p, s)
    BY <1>10, <2>1, <2>6 DEF StartsOf
  <2>8. ASSUME IsOne(jobs), NEW j \in Printing(s.table, p)
        PROVE  j = s.job
    <3>1. SUFFICES ASSUME j # s.job PROVE FALSE
      OBVIOUS
    <3>2. j \in DOMAIN jobs /\ s.table[j] = t[j] /\ t[j] = jobs[j] /\ j \in Printing(jobs, p)
      BY <1>3, <2>1, <2>8, <3>1 DEF Printing
    <3>3. j \in LatestPrinting(jobs, p) /\ jobs[j].file # f
      BY <1>8, <1>10, <2>8, <3>2
    <3>4. QED
      BY <1>3, <2>8, <3>2, <3>3 DEF Printing
  <2>9. ASSUME NEW q \in Printers, q # p
        PROVE  Printing(s.table, q) \subseteq Printing(jobs, q)
    BY <1>10, <2>1, <2>6, <2>9 DEF Printing
  <2>10. IsOne(jobs) => IsOne(s.table)
    BY <2>8, <2>9 DEF IsOne
  <2>11. QED
    BY <2>5, <2>7, <2>10
<1>11. CASE current = {} /\ reused # {}
  <2>1. id \in reused /\ s.job = id /\ s.table = Save(t, id, Start(t[id], clock + 1))
    BY <1>1, <1>11, TheIs DEF id
  <2>2. id \in DOMAIN jobs /\ id \in 1..lastId /\ t[id].printer = p /\ t[id].status \notin Finished
    BY <1>4, <1>5, <2>1 DEF reused
  <2>3. t[id] \in Row /\ jobs[id].status \notin Finished /\ jobs[id].printer = p
    BY <1>3, <2>2 DEF Finished
  <2> DEFINE new == Start(t[id], clock + 1)
  <2>4. /\ new \in Row /\ new.printer = p /\ new.status = "PRINTING"
        /\ new.started = clock + 1
    BY <1>2, <2>2, <2>3, StartIsRow
  <2>5. new.stored = t[id].stored /\ new.analysis = t[id].analysis
    BY <2>3 DEF Start, Row
  <2> HIDE DEF new
  <2>6. new \in RowOf(printers, clock + 1)
    BY <1>2, <2>4 DEF RowOf
  <2>7. s.found = found[id] /\ s.found \in Metadata
    BY <1>1, <1>2, <1>7, <2>2
  <2>8. id \in 1..(lastId + 1)
    BY <1>2, <2>2
  <2>9. s.table = Save(t, s.job, new)
    BY <2>1 DEF new
  <2>10. new.stored = jobs[id].stored /\ new.analysis = jobs[id].analysis
    BY <1>3, <2>2, <2>5
  <2>11. QED
    BY <1>10, <1>11, <2>1, <2>2, <2>3, <2>4, <2>6, <2>7, <2>8, <2>9, <2>10 DEF s, c, n
<1>12. CASE current = {} /\ reused = {}
  <2>1. s.job = lastId + 1 /\ s.table = Save(t, s.job, row)
    BY <1>1, <1>12 DEF id, Insert
  <2>2. s.job \notin DOMAIN jobs /\ s.job \in 1..(lastId + 1) /\ ~(s.job <= lastId)
    BY <1>2, <1>5, <2>1
  <2>3. a # {} => The(a) \in DOMAIN jobs /\ The(a) \in 1..lastId
    BY <1>4, <1>5, TheIs
  <2>4. (IF a = {} THEN "NOT_ANALYZED" ELSE t[The(a)].analysis) \in AnalysisStates
    BY <1>3, <2>3 DEF AnalysisStates, Row
  <2>5. /\ row \in RowOf(printers, clock + 1)
        /\ row.printer = p /\ row.status = "PRINTING" /\ row.started = clock + 1
    BY <1>2, <2>4 DEF row, NewRow, RowOf, Row, Statuses
  <2>6. s.found = IF a # {} THEN found[The(a)] ELSE "none"
    BY <1>1, <2>2 
  <2>7. s.found \in Metadata
    BY <1>7, <2>3, <2>6 DEF Metadata
  <2>8. QED
    BY <1>10, <1>12, <2>1, <2>2, <2>5, <2>7 DEF s, c, n
<1>13. QED
  BY <1>9, <1>11, <1>12

-----------------------------------------------------------------------------
(* The invariant, and what each step does to it.                           *)

MessageInv ==
    /\ MessageTypeOK
    /\ OnePrintingPerPrinter
    /\ UnreadPrintIsAskedFor

\* What a step must do: the invariant, and the two action properties.
LeavesFinishedAlone ==
    \A j \in DOMAIN jobs :
        jobs[j].status \in Finished =>
           \/ j \in DOMAIN jobs' /\ jobs'[j] = jobs[j]
           \/ Operator
           \/ Analysed(j)
           \/ \E p \in printers : DeletePrinter(p)

KeepsAnalysis ==
    \A j \in DOMAIN jobs :
        /\ jobs[j].analysis = "ANALYZED" /\ found[j] = "analysis"
        => found'[j] = "analysis"

Good == MessageInv' /\ LeavesFinishedAlone /\ KeepsAnalysis

\* A table is as good as the one that some of its prints were ended in.
LEMMA OnlyEndsSame == ASSUME NEW t PROVE OnlyEnds(t, t)
BY DEF OnlyEnds

\* What a message waits for is a record of the type it was kept as.
LEMMA WaitingIs ==
    ASSUME MessageTypeOK, NEW h \in Handlers
    PROVE  /\ handling[h].at = "started" => 
                 /\ handling[h].printer \in Printers /\ handling[h].file \in Files
                 /\ handling[h].job \in JobIds /\ handling[h].ends \in Ends
           /\ handling[h].at = "completed" =>
                 handling[h].printer \in Printers /\ handling[h].job \in JobIds
BY DEF MessageTypeOK, Handling, Idle

LEMMA HandlingSet ==
    ASSUME MessageTypeOK, NEW h \in Handlers, NEW r \in Handling \cup {Idle},
           handling' = [handling EXCEPT ![h] = r]
    PROVE  handling' \in [Handlers -> Handling \cup {Idle}]
BY DEF MessageTypeOK

\* A thumbnail is that of a job.
LEMMA ThumbSet ==
    ASSUME MessageTypeOK, NEW q \in Printers, NEW i \in JobIds,
           thumbs' \in {thumbs, [thumbs EXCEPT ![q] = i]}
    PROVE  thumbs' \in [Printers -> JobIds \cup {NoJob}]
BY DEF MessageTypeOK

\* The rest of a handler ends at most a print, and may wait once more.
LEMMA RestEnds ==
    ASSUME MessageTypeOK, NEW h \in Handlers, NEW t, NEW n \in Nat, NEW ps, NEW c \in Nat,
           IsTable(t, n, ps, c), DOMAIN t \subseteq JobIds, NEW m, NEW p \in Printers,
           NEW e \in Ends, Rest(h, t, m, p, e)
    PROVE  /\ IsTable(jobs', n, ps, c) /\ OnlyEnds(t, jobs') /\ found' = m
           /\ handling' \in [Handlers -> Handling \cup {Idle}]
<1> DEFINE after == Ended(t, p, e)
           done  == IF e = "finished" THEN LatestPrinting(t, p) ELSE {}
           shown == IF done = {} THEN {} ELSE ThumbnailJobs(after, p, The(done))
<1>1. /\ jobs' = after /\ found' = m
      /\ \/ \E j \in shown : handling' = [handling EXCEPT ![h] =
                                 [at |-> "completed", printer |-> p, job |-> j]]
         \/ handling' = [handling EXCEPT ![h] = Idle]
  BY DEF Rest
<1>2. IsTable(after, n, ps, c) /\ OnlyEnds(t, after)
  BY EndedEnds
<1>3. \A j \in shown : j \in JobIds
  <2>1. DOMAIN after \subseteq JobIds
    BY <1>2 DEF OnlyEnds
  <2>2. shown \subseteq DOMAIN after
    BY DEF ThumbnailJobs
  <2>3. QED
    BY <2>1, <2>2
<1> HIDE DEF after, shown
<1>4. \A j \in JobIds : [at |-> "completed", printer |-> p, job |-> j] \in Handling
  BY DEF Handling
<1>5. QED
  BY <1>1, <1>2, <1>3, <1>4, HandlingSet

\* An estimate does not replace the result of an analysis.
LEMMA EstimateSpares ==
    \A t, p, f : \A m \in [JobIds -> Metadata] :
        /\ WithEstimate(t, m, p, f) \in [JobIds -> Metadata]
        /\ \A j \in JobIds : t[j].analysis = "ANALYZED" /\ m[j] = "analysis"
                               => WithEstimate(t, m, p, f)[j] = "analysis"
<1> TAKE t, p, f
<1> TAKE m \in [JobIds -> Metadata]
<1> DEFINE g == WithEstimate(t, m, p, f)
<1>1. g = [j \in JobIds |-> g[j]]
  BY DEF WithEstimate
<1>2. ASSUME NEW j \in JobIds
      PROVE  /\ g[j] \in {"estimate", m[j]}
             /\ t[j].analysis = "ANALYZED" /\ m[j] = "analysis" => g[j] = m[j]
  BY DEF WithEstimate
<1> HIDE DEF g
<1>3. \A j \in JobIds : g[j] \in Metadata
  BY <1>2 DEF Metadata
<1>4. QED
  BY <1>1, <1>2, <1>3 DEF g

\* A step that ends prints only, and starts none, is good.
LEMMA EndingIsGood ==
    ASSUME MessageInv, MessageTypeOK', OnlyEnds(jobs, jobs'), asked \subseteq asked',
           KeepsAnalysis
    PROVE  Good
<1>1. OnePrintingPerPrinter'
  <2>1. IsOne(jobs')
    BY OnlyEndsOne DEF MessageInv, OnePrintingPerPrinter, IsOne
  <2>2. QED
    BY <2>1 DEF OnePrintingPerPrinter, IsOne
<1>2. UnreadPrintIsAskedFor'
  BY DEF MessageInv, UnreadPrintIsAskedFor, OnlyEnds
<1>3. LeavesFinishedAlone
  BY DEF LeavesFinishedAlone, OnlyEnds, Finished
<1>4. QED
  BY <1>1, <1>2, <1>3 DEF Good, MessageInv

\* The numbers and the table of an invariant state
LEMMA StateIs ==
    ASSUME MessageTypeOK
    PROVE  /\ TableTypeOK
           /\ lastId \in Nat /\ lastId <= MaxJobs /\ clock \in Nat /\ clock <= MaxClock
           /\ MaxJobs \in Nat /\ MaxClock \in Nat
           /\ printers \subseteq Printers /\ IsTable(jobs, lastId, printers, clock)
           /\ DOMAIN jobs \subseteq JobIds
           /\ \A j \in DOMAIN jobs : j \in JobIds /\ j \in 1..lastId /\ jobs[j] \in Row
           /\ found \in [JobIds -> Metadata]
<1>1. /\ TableTypeOK
      /\ lastId \in Nat /\ lastId <= MaxJobs /\ clock \in Nat /\ clock <= MaxClock
      /\ MaxJobs \in Nat /\ MaxClock \in Nat
      /\ printers \subseteq Printers /\ IsTable(jobs, lastId, printers, clock)
      /\ found \in [JobIds -> Metadata]
  BY TableAssumption DEF MessageTypeOK, TableTypeOK
<1>2. \A j \in DOMAIN jobs : j \in JobIds /\ j \in 1..lastId /\ jobs[j] \in Row
  BY <1>1 DEF IsTable, RowOf, JobIds
<1>3. QED
  BY <1>1, <1>2

-----------------------------------------------------------------------------
(* The messages.                                                           *)

\* A message that says no print goes on
LEMMA ReceiveOtherGood ==
    ASSUME MessageInv, NEW h \in Handlers, NEW p \in printers, NEW e \in Ends,
           ReceiveOther(h, p, e)
    PROVE  Good
<1>1. MessageTypeOK /\ p \in Printers
  BY StateIs DEF MessageInv
<1>2. Rest(h, jobs, found, p, e) /\ UNCHANGED <<lastId, clock, printers, thumbs, asked>>
      /\ events' = events \cup {p}
  BY DEF ReceiveOther
<1>3. /\ IsTable(jobs', lastId, printers, clock) /\ OnlyEnds(jobs, jobs') /\ found' = found
      /\ handling' \in [Handlers -> Handling \cup {Idle}]
  BY <1>1, <1>2, StateIs, RestEnds
<1>4. MessageTypeOK'
  BY <1>1, <1>2, <1>3 DEF MessageTypeOK, TableTypeOK
<1>5. KeepsAnalysis
  BY <1>3 DEF KeepsAnalysis
<1>6. QED
  BY <1>2, <1>3, <1>4, <1>5, EndingIsGood

\* The files of a started job were read: the rest of its message goes on from
\* the table and the metadata of now.
LEMMA ThumbnailOfStartedGood ==
    ASSUME MessageInv, NEW h \in Handlers, ThumbnailOfStarted(h)
    PROVE  Good
<1> DEFINE r == handling[h]
           m == IF r.estimates THEN WithEstimate(jobs, found, r.printer, r.file) ELSE found
<1>1. MessageTypeOK
  BY DEF MessageInv
<1>2. /\ r.at = "started" /\ thumbs' \in {thumbs, [thumbs EXCEPT ![r.printer] = r.job]}
      /\ Rest(h, jobs, m, r.printer, r.ends)
      /\ UNCHANGED <<lastId, clock, printers, events, asked>>
  BY DEF ThumbnailOfStarted
<1>3. r.printer \in Printers /\ r.job \in JobIds /\ r.ends \in Ends
  BY <1>1, <1>2, WaitingIs
<1>4. /\ m \in [JobIds -> Metadata]
      /\ \A j \in JobIds : jobs[j].analysis = "ANALYZED" /\ found[j] = "analysis"
                             => m[j] = "analysis"
  BY <1>1, StateIs, EstimateSpares
<1> HIDE DEF m, r
<1>5. /\ IsTable(jobs', lastId, printers, clock) /\ OnlyEnds(jobs, jobs') /\ found' = m
      /\ handling' \in [Handlers -> Handling \cup {Idle}]
  BY <1>1, <1>2, <1>3, StateIs, RestEnds
<1>6. thumbs' \in [Printers -> JobIds \cup {NoJob}]
  BY <1>1, <1>2, <1>3, ThumbSet
<1>7. MessageTypeOK'
  BY <1>1, <1>2, <1>4, <1>5, <1>6 DEF MessageTypeOK, TableTypeOK
<1>8. KeepsAnalysis
  BY <1>1, <1>4, <1>5, StateIs DEF KeepsAnalysis
<1>9. QED
  BY <1>2, <1>5, <1>7, <1>8, EndingIsGood

LEMMA ThumbnailOfCompletedGood ==
    ASSUME MessageInv, NEW h \in Handlers, ThumbnailOfCompleted(h)
    PROVE  Good
<1> DEFINE r == handling[h]
<1>1. MessageTypeOK
  BY DEF MessageInv
<1>2. /\ r.at = "completed" /\ thumbs' \in {thumbs, [thumbs EXCEPT ![r.printer] = r.job]}
      /\ handling' = [handling EXCEPT ![h] = Idle]
      /\ UNCHANGED <<jobs, lastId, clock, printers, events, found, asked>>
  BY DEF ThumbnailOfCompleted, tableVars
<1>3. r.printer \in Printers /\ r.job \in JobIds
  BY <1>1, <1>2, WaitingIs
<1> HIDE DEF r
<1>4. thumbs' \in [Printers -> JobIds \cup {NoJob}]
  BY <1>1, <1>2, <1>3, ThumbSet
<1>5. handling' \in [Handlers -> Handling \cup {Idle}]
  BY <1>1, <1>2, HandlingSet
<1>6. MessageTypeOK'
  BY <1>1, <1>2, <1>4, <1>5 DEF MessageTypeOK, TableTypeOK
<1>7. KeepsAnalysis /\ OnlyEnds(jobs, jobs')
  BY <1>2, OnlyEndsSame DEF KeepsAnalysis
<1>8. QED
  BY <1>2, <1>6, <1>7, EndingIsGood

\* A message that says a print goes on: the job it starts is asked for when
\* there is nothing to read, whether the handler waits or not.
LEMMA ReceivePrintingGood ==
    ASSUME MessageInv, NEW h \in Handlers, NEW p \in printers, NEW f \in Files,
           NEW msg \in Messages, ReceivePrinting(h, p, f, msg)
    PROVE  Good
<1> DEFINE s   == Started(p, f)
           row == s.table[s.job]
           m   == [found EXCEPT ![s.job] = s.found]
           n   == IF s.job > lastId THEN s.job ELSE lastId
           c   == IF s.table # jobs THEN clock + 1 ELSE clock
           w   == WithEstimate(s.table, m, p, f)
<1>1. MessageTypeOK /\ p \in Printers /\ msg.ends \in Ends /\ msg.estimates \in BOOLEAN
  BY StateIs DEF MessageInv, Messages, OctoPrintMessages, MoonrakerMessages,
                 PrusaLinkMessages, BambuMessages, Message, Ends
<1>2. StartsOf(p, s) /\ IsTable(s.table, n, printers, c) /\ (IsOne(jobs) => IsOne(s.table))
  BY <1>1, StartedIs
<1>3. PICK estimates \in BOOLEAN :
        /\ s.job <= MaxJobs
        /\ s.table # jobs => clock < MaxClock
        /\ events' = events \cup {p}
        /\ lastId' = n
        /\ clock' = c
        /\ IF row.stored
           THEN /\ handling' = [handling EXCEPT ![h] =
                       [at |-> "started", printer |-> p, file |-> f, job |-> s.job,
                        ends |-> msg.ends, estimates |-> estimates]]
                /\ jobs' = s.table
                /\ found' = m
                /\ UNCHANGED asked
           ELSE /\ asked' = IF Unread(row) THEN asked \cup {s.job} ELSE asked
                /\ Rest(h, s.table, IF estimates THEN w ELSE m, p, msg.ends)
        /\ UNCHANGED <<printers, thumbs>>
  BY <1>1 DEF ReceivePrinting
<1> HIDE DEF s, row, w
<1>4. /\ n \in Nat /\ n \in 0..MaxJobs /\ c \in Nat /\ c \in 0..MaxClock /\ s.job \in JobIds
  BY <1>1, <1>2, <1>3, StateIs DEF StartsOf, JobIds
<1>5. /\ m \in [JobIds -> Metadata]
      /\ \A j \in DOMAIN jobs : m[j] = found[j]
  BY <1>1, <1>2, <1>4, StateIs DEF StartsOf
<1>6. DOMAIN s.table \subseteq JobIds /\ DOMAIN jobs \subseteq DOMAIN s.table
  BY <1>1, <1>2, <1>4, StateIs DEF StartsOf
<1> HIDE DEF m
<1>7. /\ w \in [JobIds -> Metadata]
      /\ \A j \in JobIds : s.table[j].analysis = "ANALYZED" /\ m[j] = "analysis"
                             => w[j] = "analysis"
  <2> DEFINE t == s.table
  <2>1. w = WithEstimate(t, m, p, f) /\ m \in [JobIds -> Metadata]
    BY <1>5 DEF w
  <2> HIDE DEF t
  <2>2. /\ WithEstimate(t, m, p, f) \in [JobIds -> Metadata]
        /\ \A j \in JobIds : t[j].analysis = "ANALYZED" /\ m[j] = "analysis"
                               => WithEstimate(t, m, p, f)[j] = "analysis"
    BY <2>1, EstimateSpares
  <2>3. QED
    BY <2>1, <2>2 DEF t
<1> HIDE DEF n, c
<1>8. /\ OnlyEnds(s.table, jobs') /\ IsTable(jobs', n, printers, c)
      /\ found' \in {m, w}
      /\ handling' \in [Handlers -> Handling \cup {Idle}]
      /\ asked' \in {asked, asked \cup {s.job}}
      /\ ~row.stored /\ row.analysis = "NOT_ANALYZED" => s.job \in asked'
  <2>1. CASE row.stored
    <3>1. /\ jobs' = s.table /\ found' = m /\ asked' = asked
          /\ handling' = [handling EXCEPT ![h] =
                       [at |-> "started", printer |-> p, file |-> f, job |-> s.job,
                        ends |-> msg.ends, estimates |-> estimates]]
      BY <1>3, <2>1
    <3>2. [at |-> "started", printer |-> p, file |-> f, job |-> s.job,
           ends |-> msg.ends, estimates |-> estimates] \in Handling
      BY <1>1, <1>3, <1>4 DEF Handling
    <3>3. handling' \in [Handlers -> Handling \cup {Idle}]
      BY <1>1, <3>1, <3>2, HandlingSet
    <3>4. QED
      BY <1>2, <2>1, <3>1, <3>3, OnlyEndsSame
  <2>2. CASE ~row.stored
    <3> DEFINE g == IF estimates THEN w ELSE m
    <3>1. Rest(h, s.table, g, p, msg.ends) /\ g \in {m, w}
      BY <1>3, <2>2
    <3>2. asked' = IF Unread(row) THEN asked \cup {s.job} ELSE asked
      BY <1>3, <2>2
    <3> HIDE DEF g
    <3>3. /\ IsTable(jobs', n, printers, c) /\ OnlyEnds(s.table, jobs') /\ found' = g
          /\ handling' \in [Handlers -> Handling \cup {Idle}]
      BY <1>1, <1>2, <1>4, <1>6, <3>1, RestEnds
    <3>4. QED
      BY <3>1, <3>2, <3>3 DEF Unread
  <2>3. QED
    BY <2>1, <2>2
<1>9. MessageTypeOK'
  <2>1. found' \in [JobIds -> Metadata]
    BY <1>5, <1>7, <1>8
  <2>2. TableTypeOK'
    BY <1>1, <1>3, <1>4, <1>8, StateIs DEF TableTypeOK
  <2>3. thumbs' \in [Printers -> JobIds \cup {NoJob}] /\ events' \subseteq Printers
        /\ asked' \subseteq JobIds
    BY <1>1, <1>3, <1>4, <1>8 DEF MessageTypeOK
  <2>4. QED
    BY <1>8, <2>1, <2>2, <2>3 DEF MessageTypeOK
<1>10. OnePrintingPerPrinter'
  <2>1. IsOne(jobs')
    BY <1>2, <1>8, OnlyEndsOne DEF MessageInv, OnePrintingPerPrinter, IsOne
  <2>2. QED
    BY <2>1 DEF OnePrintingPerPrinter, IsOne
<1>11. UnreadPrintIsAskedFor'
  <2>1. SUFFICES ASSUME NEW j \in DOMAIN jobs', jobs'[j].status = "PRINTING",
                        ~jobs'[j].stored, jobs'[j].analysis = "NOT_ANALYZED"
                 PROVE  j \in asked'
    BY DEF UnreadPrintIsAskedFor
  <2>2. j \in DOMAIN s.table /\ jobs'[j] = s.table[j]
    BY <1>8, <2>1 DEF OnlyEnds
  <2>3. CASE j = s.job
    BY <1>8, <2>1, <2>2, <2>3 DEF row
  <2>4. CASE j # s.job
    <3>1. j \in DOMAIN jobs /\ s.table[j] = jobs[j]
      BY <1>2, <2>1, <2>2, <2>4 DEF StartsOf
    <3>2. j \in asked
      BY <2>1, <2>2, <3>1 DEF MessageInv, UnreadPrintIsAskedFor
    <3>3. QED
      BY <1>8, <3>2
  <2>5. QED
    BY <2>3, <2>4
<1>12. LeavesFinishedAlone
  BY <1>2, <1>6, <1>8 DEF LeavesFinishedAlone, StartsOf, OnlyEnds, Finished
<1>13. KeepsAnalysis
  BY <1>1, <1>2, <1>5, <1>7, <1>8, StateIs DEF KeepsAnalysis, StartsOf
<1>14. QED
  BY <1>9, <1>10, <1>11, <1>12, <1>13 DEF Good, MessageInv

-----------------------------------------------------------------------------
(* Beside the messages.                                                    *)

\* What an operator corrects does not print afterwards; other rows stay.
LEMMA OperatorRows ==
    ASSUME TableTypeOK, Operator
    PROVE  /\ UNCHANGED <<lastId, clock, printers>>
           /\ DOMAIN jobs' \subseteq DOMAIN jobs
           /\ \A j \in DOMAIN jobs' : jobs'[j].status = "PRINTING" => jobs'[j] = jobs[j]
<1>1. IsTable(jobs, lastId, printers, clock) /\ lastId \in Nat /\ clock \in Nat
  BY TableAssumption DEF TableTypeOK
<1>2. PICK j \in DOMAIN jobs :
         SetCompleted(j) \/ SetFailed(j) \/ SetCancelled(j) \/ SetUnknown(j) \/ DeleteJob(j)
  BY DEF Operator
<1>3. jobs[j] \in Row
  BY <1>1, RowOfTable
<1>4. CASE DeleteJob(j)
  BY <1>4 DEF DeleteJob, Remove
<1>5. ASSUME NEW row, row.status # "PRINTING", jobs' = Save(jobs, j, row),
             UNCHANGED <<lastId, clock, printers>>
      PROVE  /\ UNCHANGED <<lastId, clock, printers>>
             /\ DOMAIN jobs' \subseteq DOMAIN jobs
             /\ \A k \in DOMAIN jobs' : jobs'[k].status = "PRINTING" => jobs'[k] = jobs[k]
  BY <1>5 DEF Save
<1>6. [jobs[j] EXCEPT !.status = "UNKNOWN"].status # "PRINTING"
  BY <1>3 DEF Row
<1>7. \A st \in Finished : End(jobs[j], st).status # "PRINTING"
  BY <1>3, EndFields DEF Finished, Statuses
<1>8. CASE SetCompleted(j) \/ SetFailed(j) \/ SetCancelled(j) \/ SetUnknown(j)
  BY <1>5, <1>6, <1>7, <1>8
     DEF SetCompleted, SetFailed, SetCancelled, SetUnknown, Correct, Finished
<1>9. QED
  BY <1>2, <1>4, <1>8

LEMMA OperatorGood ==
    ASSUME MessageInv, Operator, UNCHANGED messageVars
    PROVE  Good
<1>1. TableTypeOK /\ MessageTypeOK /\ OnePrintingPerPrinter /\ LifecycleNext
  BY DEF MessageInv, MessageTypeOK, LifecycleNext
<1>2. TableTypeOK' /\ OnePrintingPerPrinter'
  BY <1>1, LifecycleStepTypeOK, LifecycleStepOne
<1>3. MessageTypeOK'
  BY <1>1, <1>2 DEF MessageTypeOK, messageVars
<1>4. UnreadPrintIsAskedFor'
  BY <1>1, OperatorRows DEF MessageInv, UnreadPrintIsAskedFor, messageVars
<1>5. QED
  BY <1>2, <1>3, <1>4 DEF Good, MessageInv, LeavesFinishedAlone, KeepsAnalysis, messageVars

\* A deleted printer's jobs lose it, and nothing else.
LEMMA DeletedPrinterGood ==
    ASSUME MessageInv, NEW p \in printers, DeletedPrinter(p)
    PROVE  Good
<1>1. /\ TableTypeOK /\ MessageTypeOK /\ OnePrintingPerPrinter /\ LifecycleNext
      /\ DeletePrinter(p) /\ events' = events \ {p}
      /\ UNCHANGED <<handling, thumbs, found, asked>>
  BY DEF MessageInv, MessageTypeOK, LifecycleNext, DeletedPrinter, ForgetEvents
<1>2. TableTypeOK' /\ OnePrintingPerPrinter'
  BY <1>1, LifecycleStepTypeOK, LifecycleStepOne
<1>3. MessageTypeOK'
  BY <1>1, <1>2 DEF MessageTypeOK
<1>4. DOMAIN jobs' = DOMAIN jobs
      /\ \A j \in DOMAIN jobs : /\ jobs'[j].status = jobs[j].status
                                /\ jobs'[j].stored = jobs[j].stored
                                /\ jobs'[j].analysis = jobs[j].analysis
  BY <1>1, StateIs DEF DeletePrinter, Row
<1>5. UnreadPrintIsAskedFor'
  BY <1>1, <1>4 DEF MessageInv, UnreadPrintIsAskedFor
<1>6. QED
  BY <1>1, <1>2, <1>3, <1>5 DEF Good, MessageInv, LeavesFinishedAlone, KeepsAnalysis

\* A file that is sent makes a new row, which waits.
LEMMA UploadedGood ==
    ASSUME MessageInv, NEW p \in printers, NEW f \in Files, Uploaded(p, f)
    PROVE  Good
<1>1. /\ TableTypeOK /\ MessageTypeOK /\ OnePrintingPerPrinter /\ LifecycleNext
      /\ CreateUploadedJob(p, f) /\ UNCHANGED <<handling, thumbs, events, asked>>
      /\ found' = IF jobs'[lastId'].analysis = "ANALYZED"
                  THEN [found EXCEPT ![lastId'] = "analysis"] ELSE found
  BY DEF MessageInv, MessageTypeOK, LifecycleNext, Uploaded
<1>2. TableTypeOK' /\ OnePrintingPerPrinter'
  BY <1>1, LifecycleStepTypeOK, LifecycleStepOne
<1>3. lastId' = lastId + 1 /\ lastId + 1 \in JobIds /\ lastId + 1 \notin DOMAIN jobs
  BY <1>1, StateIs DEF CreateUploadedJob, JobIds
<1>4. found' \in [JobIds -> Metadata] /\ \A j \in DOMAIN jobs : found'[j] = found[j]
  BY <1>1, <1>3, StateIs DEF Metadata
<1>5. MessageTypeOK'
  BY <1>1, <1>2, <1>4 DEF MessageTypeOK
<1>6. /\ DOMAIN jobs' = DOMAIN jobs \cup {lastId + 1}
      /\ jobs'[lastId + 1].status = "PENDING"
      /\ \A j \in DOMAIN jobs : jobs'[j] = jobs[j]
  BY <1>1, <1>3 DEF CreateUploadedJob, Insert, Save, NewRow
<1>7. UnreadPrintIsAskedFor'
  BY <1>1, <1>6 DEF MessageInv, UnreadPrintIsAskedFor
<1>8. LeavesFinishedAlone /\ KeepsAnalysis
  BY <1>4, <1>6 DEF LeavesFinishedAlone, KeepsAnalysis
<1>9. QED
  BY <1>2, <1>5, <1>7, <1>8 DEF Good, MessageInv

\* The result of an analysis marks the row ANALYZED, whatever its status.
LEMMA AnalysedGood ==
    ASSUME MessageInv, NEW j \in DOMAIN jobs, Analysed(j)
    PROVE  Good
<1> DEFINE row == [jobs[j] EXCEPT !.analysis = "ANALYZED"]
<1>1. /\ TableTypeOK /\ MessageTypeOK /\ OnePrintingPerPrinter
      /\ jobs' = Save(jobs, j, row) /\ found' = [found EXCEPT ![j] = "analysis"]
      /\ UNCHANGED <<lastId, clock, printers, handling, thumbs, events, asked>>
  BY DEF MessageInv, MessageTypeOK, Analysed
<1>2. jobs[j] \in RowOf(printers, clock) /\ jobs[j] \in Row /\ j \in 1..lastId
  BY <1>1, StateIs, RowOfTable
<1>3. /\ row \in RowOf(printers, clock) /\ row.analysis = "ANALYZED"
      /\ row.status = jobs[j].status /\ row.printer = jobs[j].printer
  BY <1>2 DEF RowOf, Row, AnalysisStates
<1> HIDE DEF row
<1>4. IsTable(jobs', lastId, printers, clock)
  BY <1>1, <1>2, <1>3, StateIs, SaveIsTable
<1>5. TableTypeOK'
  BY <1>1, <1>4 DEF TableTypeOK
<1>6. found' \in [JobIds -> Metadata] /\ \A k \in DOMAIN jobs : found'[k] \in {found[k], "analysis"}
  BY <1>1, StateIs DEF Metadata
<1>7. MessageTypeOK'
  BY <1>1, <1>5, <1>6 DEF MessageTypeOK
<1>8. /\ DOMAIN jobs' = DOMAIN jobs /\ jobs'[j] = row
      /\ \A k \in DOMAIN jobs : k # j => jobs'[k] = jobs[k]
  BY <1>1 DEF Save
<1>9. \A q \in Printers : Printing(jobs', q) \subseteq Printing(jobs, q)
  BY <1>3, <1>8 DEF Printing
<1>10. OnePrintingPerPrinter'
  BY <1>1, <1>9, FewerPrinting
<1>11. UnreadPrintIsAskedFor'
  BY <1>1, <1>3, <1>8 DEF MessageInv, UnreadPrintIsAskedFor
<1>12. LeavesFinishedAlone
  BY <1>8 DEF LeavesFinishedAlone
<1>13. KeepsAnalysis
  BY <1>6 DEF KeepsAnalysis
<1>14. QED
  BY <1>7, <1>10, <1>11, <1>12, <1>13 DEF Good, MessageInv

\* A restart loses the messages that waited; the rows stay.
LEMMA RestartGood ==
    ASSUME MessageInv, Restart
    PROVE  Good
<1>1. /\ MessageTypeOK
      /\ handling' = [h \in Handlers |-> Idle] /\ events' = {}
      /\ UNCHANGED <<jobs, lastId, clock, printers, found, asked>>
  BY DEF MessageInv, Restart, tableVars
<1>2. thumbs' \in [Printers -> JobIds \cup {NoJob}]
  BY DEF Restart
<1>3. MessageTypeOK'
  BY <1>1, <1>2 DEF MessageTypeOK, TableTypeOK
<1>4. KeepsAnalysis /\ OnlyEnds(jobs, jobs')
  BY <1>1, OnlyEndsSame DEF KeepsAnalysis
<1>5. QED
  BY <1>1, <1>3, <1>4, EndingIsGood

-----------------------------------------------------------------------------
(* The theorems.                                                           *)

LEMMA MessageInit_Inv == MessageInit => MessageInv
BY InitTypeOK DEF MessageInit, TableInit, MessageInv, MessageTypeOK, Metadata,
   OnePrintingPerPrinter, Printing, UnreadPrintIsAskedFor

\* Every step is good.
LEMMA MessageStep == MessageInv /\ MessageNext => Good
<1> SUFFICES ASSUME MessageInv, MessageNext PROVE Good
  OBVIOUS
<1>1. CASE Receive
  <2>1. PICK h \in Handlers, p \in printers :
           \/ \E e \in {msg.ends : msg \in {n \in Messages : ~n.printing}} : ReceiveOther(h, p, e)
           \/ \E f \in Files : \E msg \in {n \in Messages : n.printing} : ReceivePrinting(h, p, f, msg)
    BY <1>1 DEF Receive
  <2>2. \A msg \in Messages : msg.ends \in Ends
    BY DEF Messages, OctoPrintMessages, MoonrakerMessages, PrusaLinkMessages, BambuMessages,
           Message, Ends
  <2>3. QED
    BY <2>1, <2>2, ReceiveOtherGood, ReceivePrintingGood
<1>2. CASE Resume
  BY <1>2, ThumbnailOfStartedGood, ThumbnailOfCompletedGood DEF Resume
<1>3. QED
  BY <1>1, <1>2, AnalysedGood, OperatorGood, UploadedGood, DeletedPrinterGood, RestartGood
     DEF MessageNext

LEMMA MessageStutter == MessageInv /\ UNCHANGED vars => MessageInv'
BY DEF vars, tableVars, messageVars, MessageInv, MessageTypeOK, TableTypeOK,
   OnePrintingPerPrinter, Printing, UnreadPrintIsAskedFor

LEMMA MessageInvHolds == MessageSpec => []MessageInv
<1>1. MessageInv /\ MessageNext => MessageInv'
  BY MessageStep DEF Good
<1>2. QED
  BY <1>1, MessageInit_Inv, MessageStutter, PTL DEF MessageSpec

\* While handlers wait for files, several of them of one printer, and go on
\* with what they read before, a printer has at most one job PRINTING.
THEOREM MessagesOnePrinting == MessageSpec => []OnePrintingPerPrinter
<1>1. MessageInv => OnePrintingPerPrinter
  BY DEF MessageInv
<1>2. QED
  BY <1>1, MessageInvHolds, PTL

\* No path through the waits, the re-prints and the operators' corrections
\* leaves a job printing that has no file, no analysis and was not asked for.
THEOREM MessagesUnread == MessageSpec => []UnreadPrintIsAskedFor
<1>1. MessageInv => UnreadPrintIsAskedFor
  BY DEF MessageInv
<1>2. QED
  BY <1>1, MessageInvHolds, PTL

\* What a handler does after a wait never changes a job that has finished.
THEOREM MessagesLeave == MessageSpec => MessagesLeaveFinishedAlone
<1>1. MessageInv /\ MessageNext => LeavesFinishedAlone
  BY MessageStep DEF Good
<1>2. MessageSpec => [][LeavesFinishedAlone]_vars
  BY <1>1, MessageInvHolds, PTL DEF MessageSpec
<1>3. QED
  BY <1>2 DEF MessagesLeaveFinishedAlone, LeavesFinishedAlone

\* No estimate of a printer replaces the result of an analysis that ended
\* while the message that brought the estimate waited.
THEOREM MessagesAnalysis == MessageSpec => AnalysisKept
<1>1. MessageInv /\ MessageNext => KeepsAnalysis
  BY MessageStep DEF Good
<1>2. MessageSpec => [][KeepsAnalysis]_vars
  BY <1>1, MessageInvHolds, PTL DEF MessageSpec
<1>3. QED
  BY <1>2 DEF AnalysisKept, KeepsAnalysis

=============================================================================
