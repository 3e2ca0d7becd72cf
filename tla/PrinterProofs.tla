---------------------------- MODULE PrinterProofs ----------------------------
(***************************************************************************)
(* What the copies of the tables of printers and of floors show, and what  *)
(* the maintenance of a printer rests on, after any sequence of requests,  *)
(* batches, imports and restarts.                                          *)
(***************************************************************************)
EXTENDS PrinterMaintenance, YamlImport, FiniteSetTheorems, SequenceTheorems, NaturalsInduction,
        WellFoundedInduction, TLAPS

-----------------------------------------------------------------------------
(* A state of the printer service as its operators take and leave it.      *)

IsCache(c) == c = [values |-> c.values, updated |-> c.updated, deleted |-> c.deleted]

\* The cache c follows the table, up to the id last.
Follows(table, c, last) ==
    /\ last \in Nat
    /\ DOMAIN table \subseteq 1..last
    /\ table \in [DOMAIN table -> PrinterRow]
    /\ IsCache(c)
    /\ DOMAIN c.values = DOMAIN table
    /\ c.values \in [DOMAIN table -> PrinterRow]
    /\ \A p \in DOMAIN table : Saved(table[p], c.values[p]) = table[p]
    /\ c.updated = DOMAIN table
    /\ c.deleted \subseteq 1..last
    /\ c.deleted \cap DOMAIN table = {}

IsState(s) == s = [table |-> s.table, cache |-> s.cache, last |-> s.last]

Good(s) == IsState(s) /\ Follows(s.table, s.cache, s.last)

LEMMA SetKeysIs ==
    ASSUME NEW c, NEW new
    PROVE  SetKeys(c, new) = [values  |-> WithValues(c.values, new),
                              updated |-> c.updated \cup DOMAIN new,
                              deleted |-> c.deleted \ DOMAIN new]
  BY DEF SetKeys, MarkUpdated

LEMMA DeleteKeysIs ==
    ASSUME NEW c, NEW ks
    PROVE  DeleteKeys(c, ks) = [values  |-> WithoutValues(c.values, ks),
                                updated |-> c.updated \ ks,
                                deleted |-> c.deleted \cup ks]
  BY DEF DeleteKeys, MarkDeleted

LEMMA Rows ==
    ASSUME NEW old \in PrinterRow, NEW row \in PrinterRow
    PROVE  /\ Saved(old, row) \in PrinterRow
           /\ Saved(Saved(old, row), row) = Saved(old, row)
           /\ Saved(row, row) = row
           /\ Defaulted(row) \in PrinterRow
           /\ \A b \in BOOLEAN : /\ [row EXCEPT !.rested = b] \in PrinterRow
                                 /\ [row EXCEPT !.enabled = b] \in PrinterRow
  BY DEF Saved, Defaulted, PrinterRow

\* Rows of the table are written, and the cache gets them as they were merged.
LEMMA UpdatedIsGood ==
    ASSUME NEW s, Good(s), NEW merged, DOMAIN merged \subseteq DOMAIN s.table,
           \A q \in DOMAIN merged : merged[q] \in PrinterRow
    PROVE  /\ Good(Updated(s, merged))
           /\ Updated(s, merged).last = s.last
           /\ Updated(s, merged).cache.values = WithValues(s.cache.values, merged)
           /\ Updated(s, merged).table =
                 WithValues(s.table, [q \in DOMAIN merged |-> Saved(s.table[q], merged[q])])
<1>. DEFINE rows == [q \in DOMAIN merged |-> Saved(s.table[q], merged[q])]
            t    == WithValues(s.table, rows)
            c    == SetKeys(s.cache, merged)
            v    == WithValues(s.cache.values, merged)
<1>1. Updated(s, merged) = [table |-> t, cache |-> c, last |-> s.last]
  BY DEF Updated, ToCache, Written
<1>2. c = [values |-> v, updated |-> s.cache.updated \cup DOMAIN merged,
           deleted |-> s.cache.deleted \ DOMAIN merged]
  BY SetKeysIs DEF Good, Follows
<1>3. DOMAIN t = DOMAIN s.table /\ DOMAIN v = DOMAIN s.table
  BY DEF WithValues, Good, Follows
<1>4. ASSUME NEW p \in DOMAIN s.table
      PROVE  /\ t[p] \in PrinterRow /\ v[p] \in PrinterRow
             /\ Saved(t[p], v[p]) = t[p]
  <2>1. /\ s.table[p] \in PrinterRow /\ s.cache.values[p] \in PrinterRow
        /\ Saved(s.table[p], s.cache.values[p]) = s.table[p]
    BY DEF Good, Follows
  <2>2. CASE p \in DOMAIN merged
    <3>1. t[p] = Saved(s.table[p], merged[p]) /\ v[p] = merged[p]
      BY <2>2 DEF WithValues, Good, Follows
    <3>2. QED
      BY <2>1, <2>2, <3>1, Rows
  <2>3. CASE p \notin DOMAIN merged
    <3>1. t[p] = s.table[p] /\ v[p] = s.cache.values[p]
      BY <2>3 DEF WithValues, Good, Follows
    <3>2. QED
      BY <2>1, <3>1
  <2>4. QED
    BY <2>2, <2>3
<1>5. t \in [DOMAIN s.table -> PrinterRow] /\ v \in [DOMAIN s.table -> PrinterRow]
  BY <1>3, <1>4 DEF WithValues
<1>. HIDE DEF t, v, c
<1>6. c.values = v /\ c.updated = DOMAIN s.table /\ IsCache(c)
      /\ c.deleted \subseteq s.cache.deleted
  BY <1>2 DEF IsCache, Good, Follows
<1>7. Follows(t, c, s.last)
  BY <1>3, <1>4, <1>5, <1>6 DEF Good, Follows
<1>8. QED
  BY <1>1, <1>6, <1>7 DEF Good, IsState, t, v, Written

\* Rows are created, at the next ids.
LEMMA CreatedIsGood ==
    ASSUME NEW s, Good(s), NEW rows, Len(rows) \in Nat,
           \A i \in 1..Len(rows) : rows[i] \in PrinterRow
    PROVE  Good(CreatedAll(s, rows)) /\ DOMAIN s.table \subseteq DOMAIN CreatedAll(s, rows).table
<1>. DEFINE new == [p \in (s.last + 1)..(s.last + Len(rows)) |-> Defaulted(rows[p - s.last])]
            t   == WithValues(s.table, new)
            c   == SetKeys(s.cache, new)
            v   == WithValues(s.cache.values, new)
            n   == s.last + Len(rows)
            ps  == DOMAIN s.table \cup ((s.last + 1)..n)
<1>1. CreatedAll(s, rows) = [table |-> t, cache |-> c, last |-> n]
  BY DEF CreatedAll, ToCache
<1>2. c = [values |-> v, updated |-> s.cache.updated \cup DOMAIN new,
           deleted |-> s.cache.deleted \ DOMAIN new]
  BY SetKeysIs
<1>3. DOMAIN t = ps /\ DOMAIN v = ps /\ DOMAIN new = (s.last + 1)..n
  BY DEF WithValues, Good, Follows
<1>4. n \in Nat /\ s.last \in Nat /\ s.last <= n /\ ps \subseteq 1..n
      /\ (1..s.last) \cap ((s.last + 1)..n) = {}
  BY DEF Good, Follows
<1>5. ASSUME NEW p \in ps
      PROVE  /\ t[p] \in PrinterRow /\ v[p] \in PrinterRow
             /\ Saved(t[p], v[p]) = t[p]
  <2>1. CASE p \in DOMAIN new
    <3>1. p - s.last \in 1..Len(rows)
      BY <1>3, <1>4, <2>1
    <3>2. t[p] = Defaulted(rows[p - s.last]) /\ v[p] = Defaulted(rows[p - s.last])
      BY <2>1 DEF WithValues
    <3>3. t[p] \in PrinterRow /\ t[p] = v[p]
      BY <3>1, <3>2, Rows
    <3>4. QED
      BY <3>3, Rows
  <2>2. CASE p \notin DOMAIN new
    <3>1. p \in DOMAIN s.table /\ t[p] = s.table[p] /\ v[p] = s.cache.values[p]
      BY <1>3, <2>2 DEF WithValues, Good, Follows
    <3>2. QED
      BY <3>1 DEF Good, Follows
  <2>3. QED
    BY <2>1, <2>2
<1>6. t \in [ps -> PrinterRow] /\ v \in [ps -> PrinterRow]
  BY <1>3, <1>5 DEF WithValues
<1>. HIDE DEF t, v, c, n, new, ps
<1>7. c.values = v /\ c.updated = ps /\ IsCache(c) /\ c.deleted \subseteq 1..n /\ c.deleted \cap ps = {}
  <2>1. /\ s.cache.updated = DOMAIN s.table /\ s.cache.deleted \subseteq 1..s.last
        /\ s.cache.deleted \cap DOMAIN s.table = {}
    BY DEF Good, Follows
  <2>2. c.values = v /\ c.updated = ps /\ IsCache(c) /\ c.deleted = s.cache.deleted \ DOMAIN new
    BY <1>2, <1>3, <2>1 DEF IsCache, ps
  <2>3. c.deleted \cap ps = {}
    BY <1>3, <2>1, <2>2 DEF ps
  <2>4. QED
    BY <1>4, <2>1, <2>2, <2>3
<1>8. Follows(t, c, n)
  BY <1>3, <1>4, <1>5, <1>6, <1>7 DEF Follows
<1>9. QED
  BY <1>1, <1>3, <1>8 DEF Good, IsState, ps

\* Rows are deleted, from the table and from the cache.
LEMMA DeletedIsGood ==
    ASSUME NEW s, Good(s), NEW ps, ps \subseteq DOMAIN s.table
    PROVE  /\ Good(Deleted(s, ps))
           /\ Deleted(s, ps).table = WithoutValues(s.table, ps)
           /\ Deleted(s, ps).cache.values = WithoutValues(s.cache.values, ps)
           /\ Deleted(s, ps).last = s.last
<1>. DEFINE t == WithoutValues(s.table, ps)
            c == DeleteKeys(s.cache, ps)
            v == WithoutValues(s.cache.values, ps)
<1>1. Deleted(s, ps) = [table |-> t, cache |-> c, last |-> s.last]
  BY DEF Deleted
<1>2. c = [values |-> v, updated |-> s.cache.updated \ ps, deleted |-> s.cache.deleted \cup ps]
  BY DeleteKeysIs
<1>3. /\ t \in [DOMAIN s.table \ ps -> PrinterRow] /\ v \in [DOMAIN s.table \ ps -> PrinterRow]
      /\ \A p \in DOMAIN s.table \ ps : Saved(t[p], v[p]) = t[p]
  BY DEF WithoutValues, Good, Follows
<1>. HIDE DEF t, v, c
<1>4. c.values = v /\ c.updated = DOMAIN s.table \ ps /\ IsCache(c)
      /\ c.deleted \subseteq 1..s.last /\ c.deleted \cap (DOMAIN s.table \ ps) = {}
  BY <1>2 DEF IsCache, Good, Follows
<1>5. Follows(t, c, s.last)
  BY <1>3, <1>4 DEF Good, Follows
<1>6. QED
  BY <1>1, <1>4, <1>5 DEF Good, IsState, t, v

-----------------------------------------------------------------------------
(* The printer service, in whichever specification uses it.                *)

LEMMA BecomesGood ==
    ASSUME NEW s, Good(s), BecomesState(s)
    PROVE  Good(State)' /\ lastPrinter' <= MaxPrinters
           /\ printers' = s.table /\ printerCache' = s.cache
  BY DEF BecomesState, Good, IsState, State

LEMMA GoodPrinters ==
    ASSUME Good(State)
    PROVE  /\ Follows(printers, printerCache, lastPrinter)
           /\ CacheFollowsTable /\ PrinterDiffsTell
           /\ Cached = DOMAIN printers
           /\ 0 \notin DOMAIN printers
<1>1. Follows(printers, printerCache, lastPrinter)
  BY DEF Good, State
<1>2. QED
  BY <1>1 DEF Follows, CacheFollowsTable, PrinterDiffsTell, DiffsOf, Cached

LEMMA NoPrintersGood ==
    ASSUME NoPrinters
    PROVE  Good(State) /\ lastPrinter <= MaxPrinters
<1>1. EmptyCache = [values |-> [k \in {} |-> {}], updated |-> {}, deleted |-> {}]
  BY DEF EmptyCache
<1>2. IsCache(EmptyCache)
  BY <1>1 DEF IsCache
<1>3. Follows(printers, printerCache, lastPrinter)
  BY <1>1, <1>2 DEF Follows, NoPrinters
<1>4. QED
  BY <1>3, PrinterAssumption DEF Good, IsState, State, NoPrinters

\* A new process reads the cache from the table.
LEMMA ReloadedIsGood ==
    ASSUME Good(State), printerCache' = ReloadedCache, UNCHANGED <<printers, lastPrinter>>
    PROVE  Good(State)'
<1>. DEFINE v == WithValues(EmptyCache.values, printers)
<1>1. ReloadedCache = [values |-> v, updated |-> DOMAIN printers, deleted |-> {}]
  BY SetKeysIs DEF ReloadedCache, EmptyCache
<1>2. Follows(printers, printerCache, lastPrinter)
  BY GoodPrinters
<1>3. v = [p \in DOMAIN printers |-> printers[p]]
  BY DEF WithValues, EmptyCache
<1>. HIDE DEF v
<1>4. v \in [DOMAIN printers -> PrinterRow] /\ \A p \in DOMAIN printers : v[p] = printers[p]
  BY <1>2, <1>3 DEF Follows
<1>5. \A p \in DOMAIN printers : Saved(printers[p], v[p]) = printers[p]
  BY <1>2, <1>4, Rows DEF Follows
<1>6. Follows(printers, printerCache, lastPrinter)'
  BY <1>1, <1>2, <1>4, <1>5 DEF Follows, IsCache
<1>7. QED
  BY <1>6 DEF Good, IsState, State

LEMMA EnabledIsGood ==
    ASSUME Good(State), NEW ps, NEW enabled \in BOOLEAN
    PROVE  Good(AllEnabled(State, ps, enabled))
<1>. DEFINE merged == [p \in ps \cap DOMAIN printers |-> [printers[p] EXCEPT !.enabled = enabled]]
<1>1. AllEnabled(State, ps, enabled) = Updated(State, merged)
  BY DEF AllEnabled, State
<1>2. DOMAIN merged \subseteq DOMAIN State.table
  BY DEF State
<1>3. \A q \in DOMAIN merged : merged[q] \in PrinterRow
  BY GoodPrinters, Rows DEF Follows
<1>. HIDE DEF merged
<1>4. QED
  BY <1>1, <1>2, <1>3, UpdatedIsGood

\* Each request about printers leaves a good state.
LEMMA RequestsAreGood ==
    ASSUME Good(State), PrinterRequest
    PROVE  Good(State)' /\ lastPrinter' <= MaxPrinters /\ DOMAIN printers \subseteq DOMAIN printers'
<1>1. CASE \E row \in PrinterRow : CreatePrinter(row)
  <2>1. PICK row \in PrinterRow : CreatePrinter(row)
    BY <1>1
  <2>. DEFINE rows == <<row>>
  <2>2. Len(rows) \in Nat /\ \A i \in 1..Len(rows) : rows[i] \in PrinterRow
    OBVIOUS
  <2>. HIDE DEF rows
  <2>3. Good(CreatedAll(State, rows)) /\ DOMAIN State.table \subseteq DOMAIN CreatedAll(State, rows).table
    BY <2>2, CreatedIsGood
  <2>4. BecomesState(CreatedAll(State, rows))
    BY <2>1 DEF CreatePrinter, Created, rows
  <2>5. QED
    BY <2>3, <2>4, BecomesGood DEF State
<1>2. CASE \E a, b \in PrinterRow : ImportPrinters(<<a, b>>)
  <2>1. PICK a, b \in PrinterRow : ImportPrinters(<<a, b>>)
    BY <1>2
  <2>. DEFINE rows == <<a, b>>
  <2>2. Len(rows) \in Nat /\ \A i \in 1..Len(rows) : rows[i] \in PrinterRow
    OBVIOUS
  <2>. HIDE DEF rows
  <2>3. Good(CreatedAll(State, rows)) /\ DOMAIN State.table \subseteq DOMAIN CreatedAll(State, rows).table
    BY <2>2, CreatedIsGood
  <2>4. BecomesState(CreatedAll(State, rows))
    BY <2>1 DEF ImportPrinters, rows
  <2>5. QED
    BY <2>3, <2>4, BecomesGood DEF State
<1>3. CASE \E p \in Cached, row \in PrinterRow : UpdatePrinter(p, row)
  <2>1. PICK p \in Cached, row \in PrinterRow : UpdatePrinter(p, row)
    BY <1>3
  <2>. DEFINE merged == [q \in {p} |-> row]
  <2>2. DOMAIN merged \subseteq DOMAIN State.table /\ \A q \in DOMAIN merged : merged[q] \in PrinterRow
    BY <2>1, GoodPrinters DEF State
  <2>3. BecomesState(Updated(State, merged))
    BY <2>1 DEF UpdatePrinter
  <2>. HIDE DEF merged
  <2>4. Good(Updated(State, merged))
    BY <2>2, UpdatedIsGood
  <2>5. DOMAIN Updated(State, merged).table = DOMAIN printers
    BY <2>2 DEF Updated, Written, WithValues, State
  <2>6. QED
    BY <2>3, <2>4, <2>5, BecomesGood
<1>4. CASE \E t \in PrinterTypes : DisableType(t)
  <2>1. PICK t \in PrinterTypes : DisableType(t)
    BY <1>4
  <2>. DEFINE ps == {p \in CachedEnabled : printerCache.values[p].type = t}
  <2>2. BecomesState(AllEnabled(State, ps, FALSE))
    BY <2>1 DEF DisableType
  <2>. HIDE DEF ps
  <2>3. Good(AllEnabled(State, ps, FALSE))
    BY EnabledIsGood
  <2>4. DOMAIN AllEnabled(State, ps, FALSE).table = DOMAIN printers
    BY DEF AllEnabled, Updated, Written, WithValues, State
  <2>5. QED
    BY <2>2, <2>3, <2>4, BecomesGood
<1>5. QED
  BY <1>1, <1>2, <1>3, <1>4 DEF PrinterRequest

\* A printer is taken out of maintenance, or put into it; the others are as
\* they were, and so are all if there is no such printer.
LEMMA RestedIsGood ==
    ASSUME Good(State), NEW p, NEW rested \in BOOLEAN, BecomesState(Rested(State, p, rested))
    PROVE  /\ Good(State)' /\ lastPrinter' <= MaxPrinters
           /\ DOMAIN printers' = DOMAIN printers
           /\ \A q \in DOMAIN printers :
                 printerCache.values[q].rested # printerCache'.values[q].rested
                 => q = p /\ printerCache'.values[q].rested = rested
<1>. DEFINE merged == [q \in {p} \cap DOMAIN printers |-> [printers[q] EXCEPT !.rested = rested]]
<1>1. Rested(State, p, rested) = Updated(State, merged)
  BY DEF Rested, State
<1>2. DOMAIN merged \subseteq DOMAIN State.table
  BY DEF State
<1>3. ASSUME NEW q \in DOMAIN merged
      PROVE  merged[q] \in PrinterRow /\ merged[q].rested = rested
  <2>1. printers[q] \in PrinterRow
    BY GoodPrinters DEF Follows
  <2>2. QED
    BY <2>1 DEF PrinterRow
<1>4. DOMAIN merged \subseteq {p} \cap DOMAIN printers
  OBVIOUS
<1>. HIDE DEF merged
<1>5. /\ Good(Updated(State, merged))
      /\ Updated(State, merged).cache.values = WithValues(printerCache.values, merged)
  BY <1>2, <1>3, UpdatedIsGood DEF State
<1>6. DOMAIN Updated(State, merged).table = DOMAIN printers
  BY <1>4 DEF Updated, Written, WithValues, State
<1>7. /\ Good(State)' /\ lastPrinter' <= MaxPrinters
      /\ DOMAIN printers' = DOMAIN printers
      /\ printerCache'.values = WithValues(printerCache.values, merged)
  BY <1>1, <1>5, <1>6, BecomesGood
<1>8. ASSUME NEW q \in DOMAIN printers
      PROVE  IF q \in DOMAIN merged THEN q = p /\ printerCache'.values[q].rested = rested
             ELSE printerCache'.values[q] = printerCache.values[q]
  <2>1. q \in DOMAIN printerCache.values
    BY GoodPrinters DEF Cached
  <2>2. QED
    BY <1>3, <1>4, <1>7, <2>1 DEF WithValues
<1>9. QED
  BY <1>7, <1>8

-----------------------------------------------------------------------------
(* PrinterMaintenance: the inductive invariant.                            *)

\* A log that is not completed
Open(l) == l \in DOMAIN logs /\ ~logs[l].completed

\* The log of a printer that rests is the only open one of it; logs of deleted
\* printers are told from it by their printer, which is 0.
LogsAreTold ==
    /\ lastLog \in 0..MaxLogs
    /\ DOMAIN logs \subseteq 1..lastLog
    /\ logs \in [DOMAIN logs -> LogRow]
    /\ \A l \in DOMAIN logs : logs[l].printer \in DOMAIN printers \cup {0}
    /\ \A k, l \in DOMAIN logs :
          Open(k) /\ Open(l) /\ logs[k].printer = logs[l].printer /\ logs[k].printer # 0 => k = l

BatchIsTold ==
    /\ DOMAIN batch.results \subseteq batch.asked
    /\ batch.results \in [DOMAIN batch.results -> Outcomes]

MaintenanceInv ==
    /\ Good(State) /\ lastPrinter <= MaxPrinters
    /\ TagTypeOK
    /\ LogsAreTold
    /\ BatchIsTold

LEMMA MaintenanceInvInit == MaintenanceInit => MaintenanceInv
<1>. SUFFICES ASSUME MaintenanceInit PROVE MaintenanceInv
  OBVIOUS
<1>1. Good(State) /\ lastPrinter <= MaxPrinters
  BY NoPrintersGood DEF MaintenanceInit
<1>2. TagTypeOK
  BY TagAssumption DEF MaintenanceInit, TagInit, TagTypeOK
<1>3. LogsAreTold
  BY LogAssumption DEF MaintenanceInit, LogsAreTold
<1>4. BatchIsTold
  BY DEF MaintenanceInit, BatchIsTold, NoBatch
<1>5. QED
  BY <1>1, <1>2, <1>3, <1>4 DEF MaintenanceInv

LEMMA PrintersUnchanged ==
    ASSUME MaintenanceInv, UNCHANGED printerVars
    PROVE  Good(State)' /\ lastPrinter' <= MaxPrinters
<1>1. State' = State
  BY DEF State, printerVars
<1>2. QED
  BY <1>1 DEF MaintenanceInv, Good, printerVars

LEMMA TagsUnchanged ==
    ASSUME MaintenanceInv, UNCHANGED tagVars, DOMAIN printers \subseteq DOMAIN printers'
    PROVE  TagTypeOK'
  BY DEF MaintenanceInv, TagTypeOK, tagVars

LEMMA LogsUnchanged ==
    ASSUME MaintenanceInv, UNCHANGED logVars, DOMAIN printers \subseteq DOMAIN printers'
    PROVE  LogsAreTold'
<1>1. logs' = logs /\ lastLog' = lastLog
  BY DEF logVars
<1>2. QED
  BY <1>1 DEF MaintenanceInv, LogsAreTold, Open

LEMMA BatchUnchanged ==
    ASSUME MaintenanceInv, UNCHANGED batchVars
    PROVE  BatchIsTold'
  BY DEF MaintenanceInv, BatchIsTold, batchVars

LEMMA CreateLogInv ==
    ASSUME MaintenanceInv, NEW p \in PrinterIds, CreateLog(p)
    PROVE  MaintenanceInv'
<1>1. Good(State)' /\ lastPrinter' <= MaxPrinters /\ DOMAIN printers' = DOMAIN printers
  BY RestedIsGood DEF MaintenanceInv, CreateLog
<1>2. TagTypeOK' /\ BatchIsTold'
  BY <1>1, TagsUnchanged, BatchUnchanged DEF CreateLog
<1>. DEFINE n == lastLog + 1
            row == [printer |-> p, completed |-> FALSE]
<1>3. /\ lastLog' = n /\ DOMAIN logs' = DOMAIN logs \cup {n}
      /\ logs'[n] = row
      /\ \A l \in DOMAIN logs : logs'[l] = logs[l]
      /\ n \notin DOMAIN logs /\ n \in 0..MaxLogs
      /\ logs' = [l \in DOMAIN logs' |-> logs'[l]]
  <2>1. lastLog' = n /\ logs' = WithValues(logs, [l \in {n} |-> row])
    BY DEF CreateLog
  <2>2. n \notin DOMAIN logs /\ n \in 0..MaxLogs
    BY LogAssumption DEF CreateLog, MaintenanceInv, LogsAreTold
  <2>3. QED
    BY <2>1, <2>2 DEF WithValues
<1>4. row \in LogRow /\ ~row.completed /\ row.printer = p /\ p \in DOMAIN printers
  BY DEF LogRow, PrinterIds, CreateLog
<1>5. \A l \in DOMAIN logs : Open(l) => logs[l].printer # p
  BY DEF Open, CreateLog, HasOpenLog, Active
<1>. HIDE DEF n, row
<1>6. /\ DOMAIN logs' \subseteq 1..lastLog'
      /\ \A l \in DOMAIN logs' : logs'[l] \in LogRow /\ logs'[l].printer \in DOMAIN printers' \cup {0}
  BY <1>1, <1>3, <1>4 DEF MaintenanceInv, LogsAreTold, n
<1>7. ASSUME NEW k \in DOMAIN logs', NEW l \in DOMAIN logs', Open(k)', Open(l)',
             logs'[k].printer = logs'[l].printer, logs'[k].printer # 0
      PROVE  k = l
  <2>1. \A i \in DOMAIN logs : Open(i)' => Open(i)
    BY <1>3 DEF Open
  <2>2. CASE k = n \/ l = n
    BY <1>3, <1>4, <1>5, <1>7, <2>1, <2>2
  <2>3. CASE k # n /\ l # n
    BY <1>3, <1>7, <2>1, <2>3 DEF MaintenanceInv, LogsAreTold
  <2>4. QED
    BY <2>2, <2>3
<1>8. logs' \in [DOMAIN logs' -> LogRow]
  BY <1>3, <1>6
<1>9. LogsAreTold'
  BY <1>3, <1>6, <1>7, <1>8 DEF LogsAreTold
<1>10. QED
  BY <1>1, <1>2, <1>9 DEF MaintenanceInv

LEMMA CompleteLogInv ==
    ASSUME MaintenanceInv, NEW l, CompleteLog(l)
    PROVE  MaintenanceInv'
<1>1. Good(State)' /\ lastPrinter' <= MaxPrinters /\ DOMAIN printers' = DOMAIN printers
  BY RestedIsGood DEF MaintenanceInv, CompleteLog
<1>2. TagTypeOK' /\ BatchIsTold'
  BY <1>1, TagsUnchanged, BatchUnchanged DEF CompleteLog
<1>3. /\ lastLog' = lastLog /\ logs' \in [DOMAIN logs -> LogRow]
      /\ DOMAIN logs' = DOMAIN logs
      /\ \A k \in DOMAIN logs : logs'[k].printer = logs[k].printer /\ (Open(k)' => Open(k))
  <2>1. /\ logs \in [DOMAIN logs -> LogRow] /\ l \in DOMAIN logs
        /\ lastLog' = lastLog /\ logs' = [logs EXCEPT ![l].completed = TRUE]
    BY DEF MaintenanceInv, LogsAreTold, CompleteLog
  <2>2. QED
    BY <2>1 DEF LogRow, Open
<1>4. LogsAreTold'
  BY <1>1, <1>3 DEF MaintenanceInv, LogsAreTold
<1>5. QED
  BY <1>1, <1>2, <1>4 DEF MaintenanceInv

LEMMA DeleteLogInv ==
    ASSUME MaintenanceInv, NEW l, DeleteLog(l)
    PROVE  MaintenanceInv'
<1>1. Good(State)' /\ lastPrinter' <= MaxPrinters /\ DOMAIN printers' = DOMAIN printers
  BY RestedIsGood DEF MaintenanceInv, DeleteLog
<1>2. TagTypeOK' /\ BatchIsTold'
  BY <1>1, TagsUnchanged, BatchUnchanged DEF DeleteLog
<1>3. /\ lastLog' = lastLog
      /\ logs' = [k \in DOMAIN logs \ {l} |-> logs[k]]
  BY DEF DeleteLog, WithoutValues
<1>4. LogsAreTold'
  BY <1>1, <1>3 DEF MaintenanceInv, LogsAreTold, Open
<1>5. QED
  BY <1>1, <1>2, <1>4 DEF MaintenanceInv

LEMMA DeletePrintersInv ==
    ASSUME MaintenanceInv, NEW ps, DeletePrinters(ps)
    PROVE  MaintenanceInv'
<1>1. Good(State)' /\ lastPrinter' <= MaxPrinters /\ DOMAIN printers' \subseteq DOMAIN printers
  <2>1. ps \subseteq DOMAIN State.table
    BY GoodPrinters DEF MaintenanceInv, DeletePrinters, State
  <2>2. Good(Deleted(State, ps)) /\ Deleted(State, ps).table = WithoutValues(printers, ps)
    BY <2>1, DeletedIsGood DEF MaintenanceInv, State
  <2>3. QED
    BY <2>2, BecomesGood DEF DeletePrinters, WithoutValues
<1>2. TagTypeOK' /\ BatchIsTold'
  <2>1. BatchIsTold'
    BY BatchUnchanged DEF DeletePrinters
  <2>2. links' \subseteq tags' \X (DOMAIN printers') /\ UNCHANGED <<tags, lastTag>>
    BY DEF DeletePrinters, LinksOf, MaintenanceInv, TagTypeOK
  <2>3. QED
    BY <2>1, <2>2 DEF MaintenanceInv, TagTypeOK
<1>3. /\ DOMAIN logs' = DOMAIN logs /\ lastLog' = lastLog
      /\ logs' = [l \in DOMAIN logs' |-> logs'[l]]
  BY DEF DeletePrinters, LogsOf
<1>4. ASSUME NEW l \in DOMAIN logs
      PROVE  /\ logs'[l] \in LogRow
             /\ logs'[l].completed = logs[l].completed
             /\ logs'[l].printer \in DOMAIN printers' \cup {0}
             /\ logs'[l].printer # 0 => logs'[l].printer = logs[l].printer
  <2>1. logs[l] \in LogRow
    BY DEF MaintenanceInv, LogsAreTold
  <2>2. logs'[l] = IF logs[l].printer \in DOMAIN printers' THEN logs[l]
                   ELSE [logs[l] EXCEPT !.printer = 0]
    BY DEF DeletePrinters, LogsOf
  <2>3. 0 \in 0..MaxPrinters
    BY PrinterAssumption
  <2>4. QED
    BY <2>1, <2>2, <2>3 DEF LogRow
<1>5. \A l \in DOMAIN logs : Open(l)' => Open(l)
  BY <1>3, <1>4 DEF Open
<1>6. logs' \in [DOMAIN logs' -> LogRow]
  BY <1>3, <1>4
<1>7. LogsAreTold'
  BY <1>3, <1>4, <1>5, <1>6 DEF MaintenanceInv, LogsAreTold
<1>8. QED
  BY <1>1, <1>2, <1>7 DEF MaintenanceInv

LEMMA TagsInv ==
    ASSUME MaintenanceInv, TagNext, UNCHANGED <<printerVars, logVars, batchVars>>
    PROVE  MaintenanceInv'
<1>1. Good(State)' /\ lastPrinter' <= MaxPrinters /\ LogsAreTold' /\ BatchIsTold'
  BY PrintersUnchanged, LogsUnchanged, BatchUnchanged DEF printerVars, logVars, batchVars
<1>2. printers' = printers
  BY DEF printerVars
<1>3. ASSUME CreateTag PROVE TagTypeOK'
  BY <1>2, <1>3, TagAssumption DEF MaintenanceInv, TagTypeOK, CreateTag
<1>4. ASSUME \E t \in tags : DeleteTag(t)
      PROVE  TagTypeOK'
  BY <1>2, <1>4 DEF MaintenanceInv, TagTypeOK, DeleteTag, LinksOf
<1>5. ASSUME \E t \in tags, p \in PrinterIds : AddPrinterToTag(t, p)
      PROVE  TagTypeOK'
  BY <1>2, <1>5 DEF MaintenanceInv, TagTypeOK, AddPrinterToTag
<1>6. ASSUME \E t \in tags, p \in PrinterIds : RemovePrinterFromTag(t, p)
      PROVE  TagTypeOK'
  BY <1>2, <1>6 DEF MaintenanceInv, TagTypeOK, RemovePrinterFromTag
<1>7. TagTypeOK'
  BY <1>3, <1>4, <1>5, <1>6 DEF TagNext
<1>8. QED
  BY <1>1, <1>7 DEF MaintenanceInv

LEMMA ToggleInv ==
    ASSUME MaintenanceInv, NEW ps, NEW enabled \in BOOLEAN, BatchToggle(ps, enabled)
    PROVE  MaintenanceInv'
<1>1. Good(AllEnabled(State, Toggled(ps, enabled), enabled))
  BY EnabledIsGood DEF MaintenanceInv
<1>2. DOMAIN AllEnabled(State, Toggled(ps, enabled), enabled).table = DOMAIN printers
  BY DEF AllEnabled, Updated, Written, WithValues, State
<1>3. Good(State)' /\ lastPrinter' <= MaxPrinters /\ DOMAIN printers' = DOMAIN printers
  BY <1>1, <1>2, BecomesGood DEF BatchToggle
<1>4. QED
  BY <1>3, TagsUnchanged, LogsUnchanged, BatchUnchanged DEF BatchToggle, MaintenanceInv

LEMMA BatchInv ==
    ASSUME MaintenanceInv,
           \/ \E ps \in SUBSET PrinterIds : BatchCall(ps)
           \/ \E p \in PrinterIds, o \in Outcomes : CallEnds(p, o)
    PROVE  MaintenanceInv'
<1>1. UNCHANGED printerVars /\ UNCHANGED tagVars /\ UNCHANGED logVars
  BY DEF BatchCall, CallEnds
<1>2. printers' = printers
  BY <1>1 DEF printerVars
<1>3. Good(State)' /\ lastPrinter' <= MaxPrinters /\ TagTypeOK' /\ LogsAreTold'
  BY <1>1, <1>2, PrintersUnchanged, TagsUnchanged, LogsUnchanged
<1>4. ASSUME \E ps \in SUBSET PrinterIds : BatchCall(ps)
      PROVE  BatchIsTold'
  BY <1>4 DEF BatchCall, BatchIsTold, Outcomes
<1>5. ASSUME NEW p \in PrinterIds, NEW o \in Outcomes, CallEnds(p, o)
      PROVE  BatchIsTold'
  <2>. DEFINE results == WithValues(batch.results, [q \in {p} |-> o])
              ended   == [asked |-> batch.asked, results |-> results]
  <2>1. DOMAIN results \subseteq batch.asked /\ results \in [DOMAIN results -> Outcomes]
    BY <1>5 DEF WithValues, MaintenanceInv, BatchIsTold, CallEnds
  <2>2. batch' = ended \/ batch' = NoBatch
    BY <1>5 DEF CallEnds
  <2>. HIDE DEF results
  <2>3. CASE batch' = ended
    BY <2>1, <2>3 DEF BatchIsTold
  <2>4. CASE batch' = NoBatch
    BY <2>4 DEF BatchIsTold, NoBatch
  <2>5. QED
    BY <2>2, <2>3, <2>4
<1>6. BatchIsTold'
  BY <1>4, <1>5
<1>7. QED
  BY <1>3, <1>6 DEF MaintenanceInv

LEMMA RestartInv ==
    ASSUME MaintenanceInv, RestartServer
    PROVE  MaintenanceInv'
<1>1. Good(State)' /\ lastPrinter' <= MaxPrinters /\ printers' = printers
  BY ReloadedIsGood DEF RestartServer, MaintenanceInv
<1>2. BatchIsTold'
  BY DEF RestartServer, BatchIsTold, NoBatch
<1>3. QED
  BY <1>1, <1>2, TagsUnchanged, LogsUnchanged DEF RestartServer, MaintenanceInv

LEMMA MaintenanceInvNext ==
    MaintenanceInv /\ [MaintenanceNext]_maintenanceVars => MaintenanceInv'
<1>. SUFFICES ASSUME MaintenanceInv, [MaintenanceNext]_maintenanceVars
              PROVE  MaintenanceInv'
  OBVIOUS
<1>1. CASE PrinterRequest
  BY <1>1, RequestsAreGood, TagsUnchanged, LogsUnchanged, BatchUnchanged
     DEF PrinterRequest, MaintenanceInv
<1>2. CASE TagNext /\ UNCHANGED <<printerVars, logVars, batchVars>>
  BY <1>2, TagsInv
<1>3. CASE \E p \in PrinterIds : CreateLog(p)
  BY <1>3, CreateLogInv
<1>4. CASE (\E p \in PrinterIds : DeletePrinters({p})) \/ DeletePrinters(Cached)
  BY <1>4, DeletePrintersInv
<1>5. CASE \E l \in 1..lastLog : CompleteLog(l) \/ DeleteLog(l)
  BY <1>5, CompleteLogInv, DeleteLogInv
<1>6. CASE \E ps \in SUBSET PrinterIds : BatchToggle(ps, TRUE) \/ BatchToggle(ps, FALSE)
  BY <1>6, ToggleInv
<1>7. CASE \/ \E ps \in SUBSET PrinterIds : BatchCall(ps)
           \/ \E p \in PrinterIds, o \in Outcomes : CallEnds(p, o)
  BY <1>7, BatchInv
<1>8. CASE RestartServer
  BY <1>8, RestartInv
<1>9. CASE UNCHANGED maintenanceVars
  <2>1. UNCHANGED printerVars /\ UNCHANGED tagVars /\ UNCHANGED logVars /\ UNCHANGED batchVars
    BY <1>9 DEF maintenanceVars
  <2>2. printers' = printers
    BY <2>1 DEF printerVars
  <2>3. QED
    BY <2>1, <2>2, PrintersUnchanged, TagsUnchanged, LogsUnchanged, BatchUnchanged DEF MaintenanceInv
<1>10. QED
  BY <1>1, <1>2, <1>3, <1>4, <1>5, <1>6, <1>7, <1>8, <1>9 DEF MaintenanceNext

LEMMA MaintenanceInvHolds == MaintenanceSpec => []MaintenanceInv
  BY MaintenanceInvInit, MaintenanceInvNext, PTL DEF MaintenanceSpec

-----------------------------------------------------------------------------
(* PrinterMaintenance: the theorems.                                       *)

LEMMA InvIsTyped == MaintenanceInv => MaintenanceTypeOK
<1>. SUFFICES ASSUME MaintenanceInv PROVE MaintenanceTypeOK
  OBVIOUS
<1>1. Follows(printers, printerCache, lastPrinter) /\ lastPrinter <= MaxPrinters
  BY GoodPrinters DEF MaintenanceInv
<1>2. PrinterTypeOK
  BY <1>1, PrinterAssumption DEF PrinterTypeOK, Follows
<1>3. QED
  BY <1>2 DEF MaintenanceInv, MaintenanceTypeOK, LogsAreTold, BatchIsTold

LEMMA InvHasOneOpenLog == MaintenanceInv => OneOpenLog
<1>. SUFFICES ASSUME MaintenanceInv PROVE OneOpenLog
  OBVIOUS
<1>1. 0 \notin DOMAIN printers
  BY GoodPrinters DEF MaintenanceInv
<1>2. QED
  BY <1>1 DEF OneOpenLog, MaintenanceInv, LogsAreTold, Active, Open

\* Printers, tags, links, logs and batches keep their types, no link or log
\* names a printer that is gone, and no batch has an answer it did not ask for
\* (printer-tag.service.ts, printer-maintenance-log.service.ts,
\* batch-call.service.ts).
THEOREM MaintenanceType == MaintenanceSpec => []MaintenanceTypeOK
  BY MaintenanceInvHolds, InvIsTyped, PTL

\* The printer cache shows what the printer table has, after any requests,
\* batches, maintenance and restarts (printer.cache.ts:86).
THEOREM MaintenanceFollows == MaintenanceSpec => []CacheFollowsTable
<1>1. MaintenanceInv => CacheFollowsTable
  BY GoodPrinters DEF MaintenanceInv
<1>2. QED
  BY <1>1, MaintenanceInvHolds, PTL

\* The differences of the printer cache are those of the table
\* (key-diff.cache.ts:58).
THEOREM MaintenanceDiffs == MaintenanceSpec => []PrinterDiffsTell
<1>1. MaintenanceInv => PrinterDiffsTell
  BY GoodPrinters DEF MaintenanceInv
<1>2. QED
  BY <1>1, MaintenanceInvHolds, PTL

\* No printer ever has two open maintenance logs
\* (printer-maintenance-log.service.ts:51).
THEOREM MaintenanceOneOpen == MaintenanceSpec => []OneOpenLog
  BY MaintenanceInvHolds, InvHasOneOpenLog, PTL

\* The end of a log of the printer itself
EndsItsLog(p) == \E l \in Active(p) : l \notin DOMAIN logs' \/ logs'[l].completed

\* Logs that change with the printers as they are
RestEnds(p) ==
    /\ printerCache.values[p].rested
    /\ ~printerCache'.values[p].rested
    /\ UNCHANGED printers
    /\ logs' # logs

LEMMA RestStep ==
    ASSUME MaintenanceInv, [MaintenanceNext]_maintenanceVars,
           NEW p \in DOMAIN printers, p \in DOMAIN printers', RestEnds(p)
    PROVE  EndsItsLog(p)
<1>. USE DEF RestEnds
<1>0. p # 0 /\ p \in Cached /\ Good(State)
  BY GoodPrinters DEF MaintenanceInv
<1>1. CASE PrinterRequest
  BY <1>1 DEF PrinterRequest, logVars
<1>2. CASE TagNext /\ UNCHANGED <<printerVars, logVars, batchVars>>
  BY <1>2 DEF logVars
<1>3. ASSUME NEW q \in PrinterIds, CreateLog(q) PROVE FALSE
  BY <1>0, <1>3, RestedIsGood DEF CreateLog
<1>4. ASSUME NEW ps, DeletePrinters(ps) PROVE FALSE
  <2>1. ps \subseteq DOMAIN State.table
    BY <1>0, <1>4, GoodPrinters DEF DeletePrinters, State
  <2>2. /\ Deleted(State, ps).cache.values = WithoutValues(printerCache.values, ps)
        /\ Good(Deleted(State, ps))
    BY <1>0, <2>1, DeletedIsGood DEF State
  <2>3. printerCache'.values = WithoutValues(printerCache.values, ps) /\ Good(State)'
    BY <1>4, <2>2, BecomesGood DEF DeletePrinters
  <2>4. p \in DOMAIN printerCache'.values
    BY <2>3, GoodPrinters DEF Good, Follows, State
  <2>5. printerCache'.values[p] = printerCache.values[p]
    BY <2>3, <2>4 DEF WithoutValues
  <2>6. QED
    BY <2>5
<1>5. ASSUME NEW l \in 1..lastLog, CompleteLog(l) PROVE EndsItsLog(p)
  <2>1. p = logs[l].printer
    BY <1>0, <1>5, RestedIsGood DEF CompleteLog
  <2>2. logs \in [DOMAIN logs -> LogRow] /\ l \in DOMAIN logs /\ ~logs[l].completed
        /\ logs' = [logs EXCEPT ![l].completed = TRUE]
    BY <1>5 DEF MaintenanceInv, LogsAreTold, CompleteLog
  <2>3. logs'[l].completed
    BY <2>2 DEF LogRow
  <2>4. QED
    BY <2>1, <2>2, <2>3 DEF Active, EndsItsLog
<1>6. ASSUME NEW l \in 1..lastLog, DeleteLog(l) PROVE EndsItsLog(p)
  <2>1. p = Released(l)
    BY <1>0, <1>6, RestedIsGood DEF DeleteLog
  <2>2. l \in DOMAIN logs /\ ~logs[l].completed /\ logs[l].printer = p
    BY <1>0, <1>6, <2>1 DEF Released, DeleteLog
  <2>3. l \notin DOMAIN logs'
    BY <1>6 DEF DeleteLog, WithoutValues
  <2>4. QED
    BY <2>2, <2>3 DEF Active, EndsItsLog
<1>7. CASE \E ps \in SUBSET PrinterIds : BatchToggle(ps, TRUE) \/ BatchToggle(ps, FALSE) \/ BatchCall(ps)
  BY <1>7 DEF BatchToggle, BatchCall, logVars
<1>8. CASE \E q \in PrinterIds, o \in Outcomes : CallEnds(q, o)
  BY <1>8 DEF CallEnds, logVars
<1>9. CASE RestartServer
  BY <1>9 DEF RestartServer, logVars
<1>10. CASE UNCHANGED maintenanceVars
  BY <1>10 DEF maintenanceVars, logVars
<1>11. QED
  BY <1>1, <1>2, <1>3, <1>4, <1>5, <1>6, <1>7, <1>8, <1>9, <1>10 DEF MaintenanceNext

\* Only a request about a printer itself, or its type, takes it out of
\* maintenance: no log of another printer, no old log and no batch does
\* (printer-maintenance-log.service.ts:108, :165).
THEOREM MaintenanceRest == MaintenanceSpec => RestEndsForItself
<1>. DEFINE rest == \A p \in Cached \cap DOMAIN printerCache'.values :
                       RestEnds(p) => EndsItsLog(p)
<1>1. MaintenanceInv /\ MaintenanceInv' /\ [MaintenanceNext]_maintenanceVars => rest
  <2>. SUFFICES ASSUME MaintenanceInv, MaintenanceInv', [MaintenanceNext]_maintenanceVars,
                       NEW p \in Cached \cap DOMAIN printerCache'.values, RestEnds(p)
                PROVE  EndsItsLog(p)
    OBVIOUS
  <2>1. p \in DOMAIN printers
    BY GoodPrinters DEF MaintenanceInv
  <2>2. p \in DOMAIN printers'
    BY DEF MaintenanceInv, Good, Follows, State
  <2>3. QED
    BY <2>1, <2>2, RestStep
<1>2. rest <=> \A p \in Cached \cap DOMAIN printerCache'.values :
                  /\ printerCache.values[p].rested
                  /\ ~printerCache'.values[p].rested
                  /\ UNCHANGED printers
                  /\ logs' # logs
                  => \E l \in Active(p) : l \notin DOMAIN logs' \/ logs'[l].completed
  BY DEF RestEnds, EndsItsLog
<1>. HIDE DEF rest
<1>3. QED
  BY <1>1, <1>2, MaintenanceInvHolds, PTL DEF MaintenanceSpec, RestEndsForItself

-----------------------------------------------------------------------------
(* FloorPlan and YamlImport: what a store shows of a table of places.      *)

\* The floor f of the store shows the places on it, where they are.
ShowsFloor(values, pl, f) ==
    \A p \in DOMAIN pl : pl[p].floor = f =>
        p \in DOMAIN values[f].shown /\ values[f].shown[p] = pl[p].cell

Shows(values, pl) == \A f \in DOMAIN values : ShowsFloor(values, pl, f)

\* The places in "next" are places in pl, but for some on the floor f.
Fewer(next, pl, f) ==
    \A p \in DOMAIN next : next[p].floor # f => p \in DOMAIN pl /\ next[p] = pl[p]

LEMMA DtoShows ==
    ASSUME NEW values, NEW names, NEW pl, NEW f, values[f] = FloorDto(names, pl, f)
    PROVE  ShowsFloor(values, pl, f)
<1>1. values[f].shown = [p \in On(pl, f) |-> pl[p].cell]
  BY DEF FloorDto
<1>2. QED
  BY <1>1 DEF ShowsFloor, On

LEMMA FewerShows ==
    ASSUME NEW values, NEW next, NEW pl, NEW f, NEW g, g # f,
           Fewer(next, pl, f), ShowsFloor(values, pl, g)
    PROVE  ShowsFloor(values, next, g)
  BY DEF Fewer, ShowsFloor

\* Loading some floors into a store that shows the places of the others
LEMMA SetShows ==
    ASSUME NEW store, NEW names, NEW pl, NEW fs,
           \A f \in DOMAIN store.values \ fs : ShowsFloor(store.values, pl, f)
    PROVE  LET next == SetKeys(store, [f \in fs |-> FloorDto(names, pl, f)])
           IN  DOMAIN next.values = DOMAIN store.values \cup fs /\ Shows(next.values, pl)
<1>. DEFINE new  == [f \in fs |-> FloorDto(names, pl, f)]
            next == SetKeys(store, new)
<1>1. next.values = WithValues(store.values, new)
  BY DEF SetKeys
<1>2. DOMAIN next.values = DOMAIN store.values \cup fs
  BY <1>1 DEF WithValues
<1>3. ASSUME NEW f \in fs PROVE ShowsFloor(next.values, pl, f)
  <2>1. next.values[f] = FloorDto(names, pl, f)
    BY <1>1 DEF WithValues
  <2>2. QED
    BY <2>1, DtoShows
<1>4. ASSUME NEW f \in DOMAIN store.values \ fs PROVE ShowsFloor(next.values, pl, f)
  <2>1. next.values[f] = store.values[f]
    BY <1>1 DEF WithValues
  <2>2. QED
    BY <2>1 DEF ShowsFloor
<1>5. QED
  BY <1>2, <1>3, <1>4 DEF Shows

LEMMA ShownShows ==
    ASSUME NEW store, NEW names, NEW pl, NEW next, NEW f,
           Shows(store.values, pl), Fewer(next, pl, f)
    PROVE  /\ Shows(Shown(store, names, next, f).values, next)
           /\ DOMAIN Shown(store, names, next, f).values = DOMAIN store.values \cup {f}
<1>1. \A g \in DOMAIN store.values \ {f} : ShowsFloor(store.values, next, g)
  BY FewerShows DEF Shows
<1>2. Shown(store, names, next, f) = SetKeys(store, [g \in {f} |-> FloorDto(names, next, g)])
  BY DEF Shown, SetKey
<1>3. QED
  BY <1>1, <1>2, SetShows

LEMMA LoadedShows ==
    ASSUME NEW store, NEW names, NEW pl,
           \A f \in DOMAIN store.values \ DOMAIN names : ShowsFloor(store.values, pl, f)
    PROVE  /\ Shows(Loaded(store, names, pl).values, pl)
           /\ DOMAIN Loaded(store, names, pl).values = DOMAIN store.values \cup DOMAIN names
<1>1. Loaded(store, names, pl) = SetKeys(store, [f \in DOMAIN names |-> FloorDto(names, pl, f)])
  BY DEF Loaded
<1>2. QED
  BY <1>1, SetShows

LEMMA WithoutShows ==
    ASSUME NEW values, NEW pl, NEW ps, Shows(values, pl)
    PROVE  Shows(values, Without(pl, ps))
  BY DEF Shows, ShowsFloor, Without, WithoutValues

LEMMA MovedFewer ==
    ASSUME NEW pl, NEW f, NEW p, NEW c
    PROVE  Fewer(Moved(pl, f, p, c), pl, f)
  BY DEF Fewer, Moved, With, Cleared, Without, WithoutValues

LEMMA WithoutFewer ==
    ASSUME NEW pl, NEW ps, NEW f
    PROVE  Fewer(Without(pl, ps), pl, f)
  BY DEF Fewer, Without, WithoutValues

-----------------------------------------------------------------------------
(* YamlImport: the inductive invariant and the theorem.                    *)

\* Every floor of the store is in the table, so that one import, or one start,
\* which write all floors of the table, leave none behind.
FloorInv ==
    /\ DOMAIN floorStore.values \subseteq DOMAIN floors
    /\ Shows(floorStore.values, places)

LEMMA FloorInvInit == YamlInit => FloorInv
  BY DEF YamlInit, FloorInit, EmptyCache, FloorInv, Shows

LEMMA FloorRequestInv ==
    ASSUME FloorInv, FloorRequest
    PROVE  FloorInv'
<1>. USE DEF FloorInv
<1>0. \A f : Fewer(places, places, f)
  BY DEF Fewer
<1>1. ASSUME NEW n \in FloorNames, CreateFloor(n) PROVE FloorInv'
  BY <1>0, <1>1, ShownShows DEF CreateFloor, With
<1>2. ASSUME NEW n \in FloorNames, NEW p \in PrinterIds, NEW c \in Cells, CreateFloorWith(n, p, c)
      PROVE  FloorInv'
  BY <1>2, MovedFewer, ShownShows DEF CreateFloorWith, With
<1>3. ASSUME NEW f \in FloorIds, GetFloor(f) PROVE FloorInv'
  BY <1>0, <1>3, ShownShows DEF GetFloor
<1>4. ASSUME NEW f \in FloorIds, DeleteFloor(f) PROVE FloorInv'
  <2>1. /\ floorStore'.values = WithoutValues(floorStore.values, {f})
        /\ places' = Without(places, On(places, f))
        /\ DOMAIN floors' = DOMAIN floors \ {f}
    BY <1>4 DEF DeleteFloor, DeleteKeys, Emptied, WithoutValues
  <2>2. Shows(floorStore.values, places')
    BY <2>1, WithoutShows
  <2>3. QED
    BY <2>1, <2>2 DEF WithoutValues, Shows, ShowsFloor
<1>5. ASSUME NEW f \in FloorIds, NEW n \in FloorNames, RenameFloor(f, n) PROVE FloorInv'
  <2>1. f \in DOMAIN floors /\ DOMAIN floors' = DOMAIN floors
    BY <1>5 DEF RenameFloor
  <2>2. floorStore' = Shown(floorStore, floors', places, f) /\ places' = places
    BY <1>5 DEF RenameFloor
  <2>3. QED
    BY <1>0, <2>1, <2>2, ShownShows
<1>6. ASSUME NEW f \in FloorIds, NEW p \in PrinterIds, RemovePrinterFromFloor(f, p) PROVE FloorInv'
  <2>1. f \in DOMAIN floors /\ floors' = floors
    BY <1>6 DEF RemovePrinterFromFloor
  <2>2. /\ places' = Without(places, {p})
        /\ floorStore' = Shown(floorStore, floors, places', f)
    BY <1>6 DEF RemovePrinterFromFloor
  <2>3. Fewer(places', places, f)
    BY <2>2, WithoutFewer
  <2>4. QED
    BY <2>1, <2>2, <2>3, ShownShows
<1>7. ASSUME NEW f \in FloorIds, NEW p \in PrinterIds, NEW c \in Cells, AddPrinterToFloor(f, p, c)
      PROVE  FloorInv'
  BY <1>7, MovedFewer, ShownShows, WithoutShows DEF AddPrinterToFloor, Cleared
<1>8. QED
  BY <1>1, <1>2, <1>3, <1>4, <1>5, <1>6, <1>7 DEF FloorRequest

LEMMA RemovePrintersInv ==
    ASSUME FloorInv, NEW ps, NEW reload, RemovePrinters(ps, reload)
    PROVE  FloorInv'
<1>1. places' = Without(places, ps) /\ floors' = floors
  BY DEF RemovePrinters
<1>2. Shows(floorStore.values, places')
  BY <1>1, WithoutShows DEF FloorInv
<1>3. QED
  BY <1>1, <1>2, LoadedShows DEF RemovePrinters, FloorInv, Shows

\* Whatever the import makes of the places, all floors are then written.
LEMMA ImportInv ==
    ASSUME FloorInv, NEW byName, NEW floorsByName, ImportYaml(byName, floorsByName)
    PROVE  FloorInv'
<1>1. DOMAIN floors \subseteq DOMAIN floors' /\ floorStore' = Loaded(floorStore, floors', places')
  BY DEF ImportYaml
<1>2. QED
  BY <1>1, LoadedShows DEF FloorInv

LEMMA FloorInvNext ==
    ASSUME FloorInv, [YamlNext]_yamlVars
    PROVE  FloorInv'
<1>1. CASE FloorRequest
  BY <1>1, FloorRequestInv
<1>2. CASE \E row \in NewRows : AddPrinter(row)
  BY <1>2 DEF AddPrinter, floorVars, FloorInv
<1>3. ASSUME NEW ps, NEW reload, RemovePrinters(ps, reload) PROVE FloorInv'
  BY <1>3, RemovePrintersInv
<1>4. CASE ExportYaml
  BY <1>4, LoadedShows DEF ExportYaml, ListedStore, FloorInv, Shows
<1>5. CASE \E byName, floorsByName \in BOOLEAN : ImportYaml(byName, floorsByName)
  BY <1>5, ImportInv
<1>6. CASE Reboot
  <2>1. floorStore' = Loaded(EmptyCache, floors, places) /\ floors' = floors /\ places' = places
    BY <1>6 DEF Reboot
  <2>2. DOMAIN EmptyCache.values = {}
    BY DEF EmptyCache
  <2>3. QED
    BY <2>1, <2>2, LoadedShows DEF FloorInv
<1>7. CASE UNCHANGED yamlVars
  BY <1>7 DEF yamlVars, floorVars, FloorInv
<1>8. QED
  BY <1>1, <1>2, <1>3, <1>4, <1>5, <1>6, <1>7 DEF YamlNext

-----------------------------------------------------------------------------

\* A floor that clients are shown shows every printer that is on it, where it
\* is, whatever failed, was deleted or was imported before
\* (floor.store.ts:18, yaml.service.ts:202).
THEOREM FloorsAreShown == YamlSpec => []PlacesAreShown
<1>1. FloorInv => PlacesAreShown
  BY DEF FloorInv, Shows, ShowsFloor, PlacesAreShown
<1>2. QED
  BY <1>1, FloorInvInit, FloorInvNext, PTL DEF YamlSpec

-----------------------------------------------------------------------------
(* YamlImport: numbers, and the ids an import gives.                       *)

\* Of the numbers up to n that something is true of there is a first.
LEMMA FirstOf ==
    ASSUME NEW n \in Nat, NEW S \in SUBSET (0..n), S # {}
    PROVE  \E i \in S : \A k \in S : i <= k
<1>. DEFINE LT == {ss \in Nat \X Nat : ss[1] < ss[2]}
<1>1. S \subseteq Nat
  OBVIOUS
<1>2. IsWellFoundedOn(LT, Nat)
  BY NatLessThanWellFounded DEF OpToRel
<1>. HIDE DEF LT
<1>3. PICK i \in S : \A k \in S : ~(<<k, i>> \in LT)
  BY <1>1, <1>2, WFMin, Zenon
<1>4. ASSUME NEW k \in S PROVE i <= k
  <2>1. i \in Nat /\ k \in Nat
    BY <1>1
  <2>2. k < i => <<k, i>> \in LT
    BY <2>1 DEF LT
  <2>3. QED
    BY <1>3, <2>1, <2>2
<1>5. QED
  BY <1>4

\* What holds of 0, and of k + 1 if it does of k, holds up to n.
LEMMA Upwards ==
    ASSUME NEW n \in Nat, NEW S, 0 \in S, \A k \in 0..n : k > 0 /\ k - 1 \in S => k \in S
    PROVE  0..n \subseteq S
<1>. DEFINE Bad == (0..n) \ S
<1>1. SUFFICES ASSUME Bad # {} PROVE FALSE
  OBVIOUS
<1>2. Bad \in SUBSET (0..n)
  OBVIOUS
<1>. HIDE DEF Bad
<1>3. PICK k \in Bad : \A j \in Bad : k <= j
  BY <1>1, <1>2, FirstOf
<1>. USE DEF Bad
<1>4. k \in 0..n /\ k # 0 /\ k \notin S
  OBVIOUS
<1>5. k - 1 \in 0..n /\ ~(k <= k - 1)
  BY <1>4
<1>6. QED
  BY <1>3, <1>4, <1>5

\* Ranks number the members of a set of numbers, from one.
LEMMA Ranks ==
    ASSUME NEW n \in Nat, NEW S \in SUBSET (1..n)
    PROVE  /\ Cardinality(S) \in Nat
           /\ \A i \in S : Rank(i, S) \in 1..Cardinality(S)
           /\ \A i, j \in S : Rank(i, S) = Rank(j, S) => i = j
           /\ \A k \in 1..Cardinality(S) : \E i \in S : Rank(i, S) = k
<1>1. IsFiniteSet(1..n)
  BY FS_Interval
<1>2. \A T \in SUBSET S : IsFiniteSet(T) /\ Cardinality(T) \in Nat /\ Cardinality(T) <= Cardinality(S)
  BY <1>1, FS_Subset, FS_CardinalityType
<1>3. ASSUME NEW i \in S PROVE Rank(i, S) \in 1..Cardinality(S)
  <2>1. {j \in S : j <= i} \in SUBSET S /\ {j \in S : j <= i} # {}
    OBVIOUS
  <2>2. Cardinality({j \in S : j <= i}) # 0
    BY <1>2, <2>1, FS_EmptySet
  <2>3. QED
    BY <1>2, <2>1, <2>2 DEF Rank
<1>4. ASSUME NEW i \in S, NEW j \in S, i < j PROVE Rank(i, S) < Rank(j, S)
  <2>. DEFINE A == {m \in S : m <= i}
              B == {m \in S : m <= j}
  <2>0. S \in SUBSET Nat
    OBVIOUS
  <2>5. i \in Nat /\ j \in Nat /\ i < j
    BY <1>4, <2>0
  <2>6. \A m \in S : m <= i => m <= j
    BY <2>0, <2>5
  <2>7. A \in SUBSET S /\ B \in SUBSET S /\ A \in SUBSET B
    BY <2>6
  <2>8. j \in B /\ j \notin A
    BY <2>5
  <2>1. A \in SUBSET S /\ B \in SUBSET S /\ A \cup {j} \in SUBSET B /\ j \notin A
    BY <2>7, <2>8
  <2>. HIDE DEF A, B
  <2>2. Cardinality(A \cup {j}) = Cardinality(A) + 1
    BY <1>2, <2>1, FS_AddElement
  <2>3. Cardinality(A \cup {j}) <= Cardinality(B)
    BY <1>2, <2>1, FS_Subset
  <2>4. QED
    BY <1>2, <2>1, <2>2, <2>3 DEF A, B, Rank
<1>5. ASSUME NEW i \in S, NEW j \in S, Rank(i, S) = Rank(j, S) PROVE i = j
  <2>1. i \in Nat /\ j \in Nat /\ Rank(i, S) \in Nat
    BY <1>3
  <2>2. QED
    BY <1>4, <1>5, <2>1
<1>. DEFINE f == [i \in S |-> Rank(i, S)]
            m == Cardinality(S)
<1>6. f \in Injection(S, 1..m)
  BY <1>3, <1>5 DEF Injection, IsInjective
<1>7. m \in Nat /\ IsFiniteSet(1..m) /\ Cardinality(1..m) = m
  BY <1>2, FS_Interval
<1>8. f \in Surjection(S, 1..m)
  BY <1>6, <1>7, FS_Injection
<1>9. ASSUME NEW k \in 1..m PROVE \E i \in S : Rank(i, S) = k
  BY <1>8 DEF Surjection
<1>10. QED
  BY <1>3, <1>5, <1>7, <1>9

LEMMA LeastAndMost ==
    ASSUME NEW n \in Nat, NEW S \in SUBSET (0..n), S # {}
    PROVE  /\ Min(S) \in S
           /\ Max(S) \in S
<1>1. \E i \in S : \A k \in S : i <= k
  BY FirstOf
<1>2. Min(S) \in S
  BY <1>1 DEF Min
<1>. DEFINE T == {n - i : i \in S}
<1>3. T \in SUBSET (0..n) /\ T # {}
  <2>1. PICK i \in S : TRUE
    OBVIOUS
  <2>2. n - i \in T
    BY <2>1
  <2>3. \A k \in S : n - k \in 0..n
    OBVIOUS
  <2>4. QED
    BY <2>2, <2>3
<1>4. PICK t \in T : \A k \in T : t <= k
  BY <1>3, FirstOf
<1>5. PICK i \in S : t = n - i
  OBVIOUS
<1>6. ASSUME NEW k \in S PROVE i >= k
  <2>1. n - k \in T
    OBVIOUS
  <2>2. t <= n - k
    BY <1>4, <2>1
  <2>3. QED
    BY <1>5, <2>2
<1>7. Max(S) \in S
  BY <1>6 DEF Max
<1>8. QED
  BY <1>2, <1>7

\* A match is something there of that name.
LEMMA MatchIs ==
    ASSUME NEW n \in Nat, NEW names, DOMAIN names \subseteq 1..n, NEW name, NEW byName
    PROVE  LET m == Match(names, name, byName)
           IN  m = 0 \/ (m \in DOMAIN names /\ m # 0 /\ names[m] = name)
<1>. DEFINE same == {i \in DOMAIN names : byName /\ names[i] = name}
<1>1. same \in SUBSET (0..n)
  OBVIOUS
<1>2. same # {} => Min(same) \in same
  BY <1>1, LeastAndMost
<1>3. Match(names, name, byName) = IF same = {} THEN 0 ELSE Min(same)
  BY DEF Match
<1>4. \A i \in same : i \in DOMAIN names /\ i # 0 /\ names[i] = name
  OBVIOUS
<1>. DEFINE m == Match(names, name, byName)
<1>. HIDE DEF same, m
<1>5. m = 0 \/ m \in same
  BY <1>2, <1>3 DEF m
<1>6. m = 0 \/ (m \in DOMAIN names /\ m # 0 /\ names[m] = name)
  BY <1>4, <1>5
<1>7. QED
  BY <1>6 DEF m

\* The entries that match something match what is there: up to last.
Matching(entries, matches, there, last) ==
    /\ DOMAIN matches = DOMAIN entries
    /\ \A i \in DOMAIN entries : matches[i] = 0 \/ matches[i] \in there
    /\ there \subseteq 1..last

\* The new ids go on after the last; two entries get one id only if they match
\* the same.
LEMMA IdsAre ==
    ASSUME NEW n \in Nat, NEW last \in Nat, NEW entries, DOMAIN entries \subseteq 1..n,
           NEW matches, NEW there, Matching(entries, matches, there, last)
    PROVE  LET map == IdMap(entries, matches, last)
               new == New(matches)
           IN  /\ new \in SUBSET DOMAIN entries
               /\ DOMAIN map = DOMAIN entries
               /\ Cardinality(new) \in Nat
               /\ \A i \in new : map[i] = last + Rank(i, new) /\ map[i] \in (last + 1)..(last + Cardinality(new))
               /\ \A i \in DOMAIN entries \ new : map[i] = matches[i] /\ map[i] \in there
               /\ (\A i, j \in DOMAIN entries \ new : matches[i] = matches[j] => i = j)
                  => \A i, j \in DOMAIN entries : map[i] = map[j] => i = j
<1>. DEFINE map == IdMap(entries, matches, last)
            new == New(matches)
<1>1. new \in SUBSET DOMAIN entries /\ new \in SUBSET (1..n)
  BY DEF New, Matching
<1>2. \A i \in DOMAIN entries \ new : matches[i] \in there
  BY DEF New, Matching
<1>. HIDE DEF new
<1>3. /\ DOMAIN map = DOMAIN entries
      /\ \A i \in DOMAIN entries : map[i] = IF i \in new THEN last + Rank(i, new) ELSE matches[i]
  BY DEF IdMap, new
<1>. HIDE DEF map
<1>4. /\ Cardinality(new) \in Nat
      /\ \A i \in new : Rank(i, new) \in 1..Cardinality(new)
      /\ \A i, j \in new : Rank(i, new) = Rank(j, new) => i = j
  BY <1>1, Ranks
<1>5. ASSUME NEW i \in new
      PROVE  map[i] = last + Rank(i, new) /\ map[i] \in (last + 1)..(last + Cardinality(new))
  BY <1>1, <1>3, <1>4
<1>6. ASSUME NEW i \in DOMAIN entries \ new PROVE map[i] = matches[i] /\ map[i] \in there
  BY <1>2, <1>3
<1>7. ASSUME \A i, j \in DOMAIN entries \ new : matches[i] = matches[j] => i = j,
             NEW i \in DOMAIN entries, NEW j \in DOMAIN entries, map[i] = map[j]
      PROVE  i = j
  <2>1. there \subseteq 1..last
    BY DEF Matching
  <2>2. \A k \in new : map[k] \notin there
    BY <1>5, <2>1, <1>4
  <2>3. i \in new /\ j \in new => Rank(i, new) = Rank(j, new)
    BY <1>4, <1>5, <1>7
  <2>4. QED
    BY <1>4, <1>6, <1>7, <2>2, <2>3
<1>8. QED
  BY <1>1, <1>3, <1>4, <1>5, <1>6, <1>7 DEF map, new


-----------------------------------------------------------------------------
(* YamlImport: the printers an import leaves.                              *)

Named(table, last) ==
    /\ last \in Nat
    /\ DOMAIN table \subseteq 1..last
    /\ \A p \in DOMAIN table : table[p] \in PrinterRow

Imported(rows, n) == DOMAIN rows \subseteq 1..n /\ \A i \in DOMAIN rows : rows[i] \in PrinterRow

LEMMA RowNames ==
    ASSUME NEW old \in PrinterRow, NEW row \in PrinterRow
    PROVE  /\ Saved(old, row) \in PrinterRow /\ Saved(old, row).name = row.name
           /\ Defaulted(row) \in PrinterRow /\ Defaulted(row).name = row.name
  BY DEF Saved, Defaulted, PrinterRow

LEMMA CreatedAre ==
    ASSUME NEW m \in Nat, NEW rows \in [1..m -> PrinterRow], Named(printers, lastPrinter)
    PROVE  LET s == CreatedAll(State, rows)
           IN  /\ s.last = lastPrinter + m
               /\ Named(s.table, s.last)
               /\ DOMAIN s.table = DOMAIN printers \cup (lastPrinter + 1)..(lastPrinter + m)
               /\ \A k \in 1..m : s.table[lastPrinter + k].name = rows[k].name
<1>. DEFINE s == CreatedAll(State, rows)
            new == [p \in (lastPrinter + 1)..(lastPrinter + m) |-> Defaulted(rows[p - lastPrinter])]
<1>1. Len(rows) = m
  <2>1. rows \in Seq(PrinterRow)
    OBVIOUS
  <2>2. Len(rows) \in Nat /\ 1..m = 1..Len(rows)
    BY <2>1, LenProperties
  <2>3. QED
    BY <2>2
<1>2. State.table = printers /\ State.last = lastPrinter
  BY DEF State
<1>3. s.table = WithValues(printers, new) /\ s.last = lastPrinter + m
  BY <1>1, <1>2 DEF CreatedAll
<1>. HIDE DEF s
<1>4. lastPrinter \in Nat
  BY DEF Named
<1>5. ASSUME NEW k \in 1..m
      PROVE  /\ lastPrinter + k \in DOMAIN new
             /\ new[lastPrinter + k] = Defaulted(rows[k])
             /\ new[lastPrinter + k] \in PrinterRow
             /\ new[lastPrinter + k].name = rows[k].name
  <2>1. lastPrinter + k \in DOMAIN new /\ (lastPrinter + k) - lastPrinter = k
    BY <1>4
  <2>2. rows[k] \in PrinterRow
    OBVIOUS
  <2>3. QED
    BY <2>1, <2>2, RowNames
<1>6. ASSUME NEW p \in DOMAIN new PROVE new[p] \in PrinterRow
  <2>1. p - lastPrinter \in 1..m /\ lastPrinter + (p - lastPrinter) = p
    BY <1>4
  <2>2. QED
    BY <1>5, <2>1
<1>7. DOMAIN new = (lastPrinter + 1)..(lastPrinter + m)
  OBVIOUS
<1>. HIDE DEF new
<1>8. /\ DOMAIN s.table = DOMAIN printers \cup DOMAIN new
      /\ \A p \in DOMAIN new : s.table[p] = new[p]
      /\ \A p \in DOMAIN printers \ DOMAIN new : s.table[p] = printers[p]
  BY <1>3 DEF WithValues
<1>9. Named(s.table, s.last)
  <2>1. DOMAIN s.table \subseteq 1..s.last
    BY <1>3, <1>4, <1>7, <1>8 DEF Named
  <2>2. \A p \in DOMAIN s.table : s.table[p] \in PrinterRow
    BY <1>6, <1>8 DEF Named
  <2>3. QED
    BY <1>3, <1>4, <2>1, <2>2 DEF Named
<1>10. QED
  BY <1>3, <1>5, <1>7, <1>8, <1>9 DEF s

\* The ids are those of IdMap, and the rows named as those of the file, if no
\* two of its rows are for one printer.
LEMMA ImportedAre ==
    ASSUME NEW n \in Nat, NEW rows, Imported(rows, n), Named(printers, lastPrinter),
           NEW matches, Matching(rows, matches, DOMAIN printers, lastPrinter)
    PROVE  LET s == ImportedPrinters(rows, matches)
               map == IdMap(rows, matches, lastPrinter)
           IN  /\ s.last = lastPrinter + Cardinality(New(matches))
               /\ Named(s.table, s.last)
               /\ DOMAIN printers \subseteq DOMAIN s.table
               /\ \A i \in DOMAIN rows : map[i] \in DOMAIN s.table
               /\ (\A i, j \in DOMAIN rows : map[i] = map[j] => i = j)
                  => \A i \in DOMAIN rows : s.table[map[i]].name = rows[i].name
<1>. DEFINE s == ImportedPrinters(rows, matches)
            map == IdMap(rows, matches, lastPrinter)
            new == New(matches)
            m == Cardinality(new)
            fresh == [k \in 1..m |-> rows[CHOOSE i \in new : Rank(i, new) = k]]
            created == CreatedAll(State, fresh)
            old == DOMAIN rows \ new
            of(p) == {i \in old : matches[i] = p}
            merged == [p \in {matches[i] : i \in old} |-> rows[Max(of(p))]]
<1>1. s = Updated(created, merged)
  BY DEF ImportedPrinters
<1>2. lastPrinter \in Nat /\ DOMAIN rows \subseteq 1..n
  BY DEF Named, Imported
<1>3. /\ new \in SUBSET DOMAIN rows /\ m \in Nat
      /\ DOMAIN map = DOMAIN rows
      /\ \A i \in new : map[i] = lastPrinter + Rank(i, new)
      /\ \A i \in old : map[i] = matches[i] /\ map[i] \in DOMAIN printers
  BY <1>2, IdsAre
<1>4. new \in SUBSET (1..n)
  BY <1>2, <1>3
<1>5. /\ \A i \in new : Rank(i, new) \in 1..m
      /\ \A i, j \in new : Rank(i, new) = Rank(j, new) => i = j
      /\ \A k \in 1..m : \E i \in new : Rank(i, new) = k
  BY <1>4, Ranks
<1>. HIDE DEF new, map
<1>6. \A i \in new : fresh[Rank(i, new)] = rows[i]
  <2>. TAKE i \in new
  <2>1. (CHOOSE j \in new : Rank(j, new) = Rank(i, new)) = i
    BY <1>5
  <2>2. QED
    BY <1>5, <2>1
<1>7. fresh \in [1..m -> PrinterRow]
  <2>1. ASSUME NEW k \in 1..m PROVE fresh[k] \in PrinterRow
    <3>1. PICK i \in new : Rank(i, new) = k
      BY <1>5
    <3>2. fresh[k] = rows[i]
      BY <1>6, <3>1
    <3>3. QED
      BY <1>3, <3>2 DEF Imported
  <2>2. QED
    BY <2>1
<1>. HIDE DEF fresh, m
<1>8. /\ created.last = lastPrinter + m
      /\ Named(created.table, created.last)
      /\ DOMAIN created.table = DOMAIN printers \cup (lastPrinter + 1)..(lastPrinter + m)
      /\ \A k \in 1..m : created.table[lastPrinter + k].name = fresh[k].name
  BY <1>3, <1>7, CreatedAre
<1>. HIDE DEF created
<1>9. ASSUME NEW i \in new
      PROVE  /\ map[i] \in DOMAIN created.table
             /\ created.table[map[i]].name = rows[i].name
  <2>1. Rank(i, new) \in 1..m /\ map[i] = lastPrinter + Rank(i, new)
    BY <1>3, <1>5
  <2>2. map[i] \in (lastPrinter + 1)..(lastPrinter + m)
    BY <1>2, <1>3, <2>1 DEF m
  <2>3. created.table[map[i]].name = fresh[Rank(i, new)].name
    BY <1>8, <2>1
  <2>4. QED
    BY <1>6, <1>8, <2>2, <2>3
<1>10. DOMAIN merged = {matches[i] : i \in old}
  OBVIOUS
<1>11. ASSUME NEW p \in DOMAIN merged
       PROVE  \E i \in of(p) : merged[p] = rows[i]
  <2>1. of(p) \in SUBSET (0..n) /\ of(p) # {}
    BY <1>2
  <2>2. Max(of(p)) \in of(p)
    BY <1>2, <2>1, LeastAndMost
  <2>3. QED
    BY <2>2
<1>. HIDE DEF merged
<1>12. \A p \in DOMAIN merged : p \in DOMAIN printers /\ merged[p] \in PrinterRow
  <2>. TAKE p \in DOMAIN merged
  <2>1. PICK i \in of(p) : merged[p] = rows[i]
    BY <1>11
  <2>2. i \in old /\ matches[i] = p
    OBVIOUS
  <2>3. QED
    BY <1>3, <2>1, <2>2 DEF Imported
<1>13. s.last = created.last /\ s.table = Written(created.table, merged)
  BY <1>1 DEF Updated
<1>. HIDE DEF s
<1>14. /\ DOMAIN s.table = DOMAIN created.table
       /\ \A p \in DOMAIN merged : s.table[p] = Saved(created.table[p], merged[p])
       /\ \A p \in DOMAIN created.table \ DOMAIN merged : s.table[p] = created.table[p]
  BY <1>8, <1>12, <1>13 DEF Written, WithValues
<1>15. \A p \in DOMAIN merged : s.table[p] \in PrinterRow /\ s.table[p].name = merged[p].name
  <2>. TAKE p \in DOMAIN merged
  <2>1. created.table[p] \in PrinterRow
    BY <1>8, <1>12 DEF Named
  <2>2. QED
    BY <1>12, <1>14, <2>1, RowNames
<1>16. Named(s.table, s.last)
  BY <1>8, <1>13, <1>14, <1>15 DEF Named
<1>17. \A i \in DOMAIN rows : map[i] \in DOMAIN s.table
  BY <1>3, <1>8, <1>9, <1>14
<1>18. ASSUME \A i, j \in DOMAIN rows : map[i] = map[j] => i = j,
              NEW i \in DOMAIN rows
       PROVE  s.table[map[i]].name = rows[i].name
  <2>1. CASE i \in new
    <3>1. map[i] \notin DOMAIN merged
      BY <1>2, <1>3, <1>5, <1>12, <2>1 DEF Named
    <3>2. QED
      BY <1>9, <1>14, <2>1, <3>1
  <2>2. CASE i \notin new
    <3>1. map[i] \in DOMAIN merged
      BY <1>3, <1>10, <2>2
    <3>2. PICK j \in of(map[i]) : merged[map[i]] = rows[j]
      BY <1>11, <3>1
    <3>3. j \in old /\ map[j] = map[i]
      BY <1>3, <3>2
    <3>4. i = j
      BY <1>18, <3>3
    <3>5. QED
      BY <1>15, <3>1, <3>2, <3>4
  <2>3. QED
    BY <2>1, <2>2
<1>19. QED
  BY <1>8, <1>13, <1>14, <1>16, <1>17, <1>18 DEF s, map, m, new


-----------------------------------------------------------------------------
(* YamlImport: the places an import leaves.                                *)

\* No two printers are at one cell.
Once(shown) == \A p, q \in DOMAIN shown : shown[p] = shown[q] => p = q

\* No two printers are at one place.
Apart(pl) == Once(pl) /\ \A p \in DOMAIN pl : pl[p] = [floor |-> pl[p].floor, cell |-> pl[p].cell]

LEMMA WithoutIs ==
    ASSUME NEW pl, NEW ps
    PROVE  /\ DOMAIN Without(pl, ps) = DOMAIN pl \ ps
           /\ \A q \in DOMAIN pl \ ps : Without(pl, ps)[q] = pl[q]
           /\ Apart(pl) => Apart(Without(pl, ps))
  BY DEF Without, WithoutValues, Apart, Once

LEMMA MovedIs ==
    ASSUME NEW pl, NEW f, NEW p, NEW c
    PROVE  LET next == Moved(pl, f, p, c)
           IN  /\ p \in DOMAIN next
               /\ next[p] = [floor |-> f, cell |-> c]
               /\ \A q \in DOMAIN pl : q # p /\ pl[q] # [floor |-> f, cell |-> c]
                                       => q \in DOMAIN next /\ next[q] = pl[q]
               /\ Apart(pl) => Apart(next)
<1>. DEFINE next == Moved(pl, f, p, c)
            left == Cleared(pl, f, p, c)
            place == [floor |-> f, cell |-> c]
<1>1. left = Without(pl, {p} \cup At(pl, f, c))
  BY DEF Cleared
<1>. DEFINE gone == {p} \cup At(pl, f, c)
<1>8. /\ DOMAIN left = DOMAIN pl \ gone
      /\ \A q \in DOMAIN pl \ gone : left[q] = pl[q]
      /\ Apart(pl) => Apart(left)
  <2>. HIDE DEF gone, left
  <2>1. left = Without(pl, gone)
    BY <1>1 DEF gone, left
  <2>2. QED
    BY <2>1, WithoutIs
<1>2. \A q : q \in DOMAIN left <=> (q \in DOMAIN pl /\ q # p /\ pl[q] # place)
  BY <1>8 DEF At
<1>3. (\A q \in DOMAIN left : left[q] = pl[q]) /\ (Apart(pl) => Apart(left))
  BY <1>8
<1>. HIDE DEF left, place
<1>4. next = [q \in DOMAIN left \cup {p} |-> IF q = p THEN place ELSE left[q]]
  BY DEF Moved, With, left, place
<1>. HIDE DEF next
<1>5. /\ DOMAIN next = DOMAIN left \cup {p} /\ next[p] = place
      /\ \A q \in DOMAIN left : next[q] = left[q]
  BY <1>2, <1>4
<1>6. Apart(pl) => Apart(next)
  <2>1. place = [floor |-> place.floor, cell |-> place.cell]
    BY DEF place
  <2>2. QED
    BY <1>2, <1>3, <1>5, <2>1 DEF Apart, Once
<1>7. QED
  BY <1>2, <1>3, <1>5, <1>6 DEF next, place

\* The tables of places that the moves of MovedAll leave, one after the other
Moves(g, pl, f, wanted) ==
    /\ g[0] = pl
    /\ \A i \in 1..MaxPrinters :
          g[i] = IF i \in DOMAIN wanted THEN Moved(g[i - 1], f, wanted[i][1], wanted[i][2])
                 ELSE g[i - 1]

LEMMA MovesExist ==
    ASSUME NEW pl, NEW f, NEW wanted
    PROVE  \E g : Moves(g, pl, f, wanted) /\ MovedAll(pl, f, wanted) = g[MaxPrinters]
<1>. DEFINE n == MaxPrinters
            Step(x, i) == IF i \in DOMAIN wanted THEN Moved(x, f, wanted[i][1], wanted[i][2]) ELSE x
            E(g, k) == [i \in 0..k |-> IF i = 0 THEN pl ELSE Step(g[i - 1], i)]
            S == {k \in 0..n : \E g : g = E(g, k)}
            moved == CHOOSE g : g = [i \in 0..n |->
                        IF i = 0 THEN pl
                        ELSE IF i \in DOMAIN wanted THEN Moved(g[i - 1], f, wanted[i][1], wanted[i][2])
                        ELSE g[i - 1]]
<1>0. n \in Nat
  BY PrinterAssumption
<1>1. MovedAll(pl, f, wanted) = moved[n]
  BY DEF MovedAll
<1>2. moved = CHOOSE g : g = E(g, n)
  OBVIOUS
<1>. HIDE DEF n, Step, moved
<1>3. 0 \in S
  <2>1. [i \in 0..0 |-> pl] = E([i \in 0..0 |-> pl], 0)
    OBVIOUS
  <2>2. \E g : g = E(g, 0)
    BY <2>1
  <2>3. QED
    BY <1>0, <2>2
<1>4. ASSUME NEW k \in 0..n, k > 0, k - 1 \in S PROVE k \in S
  <2>1. PICK g : g = E(g, k - 1)
    BY <1>4
  <2>. DEFINE h == [i \in 0..k |-> IF i = k THEN Step(g[k - 1], k) ELSE g[i]]
  <2>2. ASSUME NEW i \in 0..k PROVE h[i] = IF i = 0 THEN pl ELSE Step(h[i - 1], i)
    <3>1. CASE i = k
      <4>1. h[i - 1] = g[k - 1]
        BY <1>4, <3>1
      <4>2. QED
        BY <1>4, <3>1, <4>1
    <3>2. CASE i # k
      <4>1. i \in 0..(k - 1)
        BY <3>2
      <4>2. g[i] = IF i = 0 THEN pl ELSE Step(g[i - 1], i)
        BY <2>1, <4>1
      <4>3. i # 0 => h[i - 1] = g[i - 1]
        BY <4>1
      <4>4. QED
        BY <3>2, <4>2, <4>3
    <3>3. QED
      BY <3>1, <3>2
  <2>3. h = E(h, k)
    BY <2>2
  <2>4. QED
    BY <2>3
<1>. HIDE DEF S
<1>5. n \in S
  BY <1>0, <1>3, <1>4, Upwards
<1>6. moved = E(moved, n)
  BY <1>2, <1>5 DEF S
<1>7. \A i \in 0..n : moved[i] = IF i = 0 THEN pl ELSE Step(moved[i - 1], i)
  BY <1>6
<1>8. moved[0] = pl /\ \A i \in 1..n : moved[i] = Step(moved[i - 1], i)
  BY <1>0, <1>7
<1>9. Moves(moved, pl, f, wanted)
  BY <1>8 DEF Moves, Step, n
<1>10. QED
  BY <1>1, <1>9 DEF n

\* What a floor is updated to hold: each printer once, no two at one cell
Clear(wanted) ==
    /\ DOMAIN wanted \subseteq 1..MaxPrinters
    /\ \A i, j \in DOMAIN wanted :
          wanted[i][1] = wanted[j][1] \/ wanted[i][2] = wanted[j][2] => i = j

Holds(pl, f, w) == w[1] \in DOMAIN pl /\ pl[w[1]] = [floor |-> f, cell |-> w[2]]

LEMMA MovedAllIs ==
    ASSUME NEW pl, NEW f, NEW wanted
    PROVE  LET next == MovedAll(pl, f, wanted)
           IN  /\ Apart(pl) => Apart(next)
               /\ Clear(wanted) => \A i \in DOMAIN wanted : Holds(next, f, wanted[i])
               /\ \A q \in DOMAIN pl :
                     pl[q].floor # f /\ (\A i \in DOMAIN wanted : wanted[i][1] # q)
                     => q \in DOMAIN next /\ next[q] = pl[q]
<1>. DEFINE n == MaxPrinters
            next == MovedAll(pl, f, wanted)
            Stays(x) == \A q \in DOMAIN pl :
                           pl[q].floor # f /\ (\A i \in DOMAIN wanted : wanted[i][1] # q)
                           => q \in DOMAIN x /\ x[q] = pl[q]
            Held(x, k) == Clear(wanted) => \A i \in DOMAIN wanted : i <= k => Holds(x, f, wanted[i])
<1>1. PICK g : Moves(g, pl, f, wanted) /\ next = g[n]
  BY MovesExist
<1>2. n \in Nat
  BY PrinterAssumption
<1>. DEFINE S == {k \in 0..n : (Apart(pl) => Apart(g[k])) /\ Held(g[k], k) /\ Stays(g[k])}
<1>3. 0 \in S
  <2>1. g[0] = pl
    BY <1>1 DEF Moves
  <2>2. Held(g[0], 0)
    BY <1>2 DEF Clear
  <2>3. QED
    BY <1>2, <2>1, <2>2
<1>4. ASSUME NEW k \in 0..n, k > 0, k - 1 \in S PROVE k \in S
  <2>. DEFINE x == g[k - 1]
              w == wanted[k]
  <2>1. k \in 1..n /\ k - 1 \in 0..n
    BY <1>4
  <2>2. (Apart(pl) => Apart(x)) /\ Held(x, k - 1) /\ Stays(x)
    BY <1>4
  <2>3. g[k] = IF k \in DOMAIN wanted THEN Moved(x, f, w[1], w[2]) ELSE x
    BY <1>1, <2>1 DEF Moves
  <2>. HIDE DEF x, w
  <2>4. CASE k \notin DOMAIN wanted
    <3>1. ASSUME Clear(wanted), NEW i \in DOMAIN wanted, i <= k PROVE i <= k - 1
      BY <2>1, <2>4, <3>1 DEF Clear, n
    <3>2. Held(x, k)
      BY <2>2, <3>1
    <3>3. QED
      BY <2>2, <2>3, <2>4, <3>2
  <2>5. CASE k \in DOMAIN wanted
    <3>1. g[k] = Moved(x, f, w[1], w[2])
      BY <2>3, <2>5
    <3>2. /\ Holds(g[k], f, w)
          /\ \A q \in DOMAIN x : q # w[1] /\ x[q] # [floor |-> f, cell |-> w[2]]
                                 => q \in DOMAIN g[k] /\ g[k][q] = x[q]
          /\ Apart(x) => Apart(g[k])
      BY <3>1, MovedIs DEF Holds
    <3>3. Stays(g[k])
      <4>. SUFFICES ASSUME NEW q \in DOMAIN pl, pl[q].floor # f, \A i \in DOMAIN wanted : wanted[i][1] # q
                    PROVE  q \in DOMAIN g[k] /\ g[k][q] = pl[q]
        OBVIOUS
      <4>1. q \in DOMAIN x /\ x[q] = pl[q] /\ q # w[1]
        BY <2>2, <2>5 DEF w
      <4>2. x[q] # [floor |-> f, cell |-> w[2]]
        BY <4>1
      <4>3. QED
        BY <3>2, <4>1, <4>2
    <3>4. ASSUME Clear(wanted), NEW i \in DOMAIN wanted, i <= k PROVE Holds(g[k], f, wanted[i])
      <4>1. CASE i = k
        BY <3>2, <4>1 DEF w
      <4>2. CASE i # k
        <5>1. i <= k - 1
          BY <2>1, <3>4, <4>2 DEF Clear, n
        <5>2. Holds(x, f, wanted[i])
          BY <2>2, <3>4, <5>1
        <5>3. wanted[i][1] # w[1] /\ wanted[i][2] # w[2]
          BY <2>5, <3>4, <4>2 DEF Clear, w
        <5>4. [floor |-> f, cell |-> wanted[i][2]] # [floor |-> f, cell |-> w[2]]
          BY <5>3
        <5>5. QED
          BY <3>2, <5>2, <5>3, <5>4 DEF Holds
      <4>3. QED
        BY <4>1, <4>2
    <3>5. QED
      BY <2>2, <3>2, <3>3, <3>4
  <2>6. QED
    BY <2>4, <2>5
<1>. HIDE DEF S
<1>5. n \in S
  BY <1>2, <1>3, <1>4, Upwards
<1>6. /\ Apart(pl) => Apart(next)
      /\ Held(next, n)
      /\ Stays(next)
  BY <1>1, <1>5 DEF S
<1>7. ASSUME Clear(wanted), NEW i \in DOMAIN wanted PROVE Holds(next, f, wanted[i])
  <2>1. i <= n
    BY <1>2, <1>7 DEF Clear, n
  <2>2. QED
    BY <1>6, <1>7, <2>1
<1>8. QED
  BY <1>6, <1>7


LEMMA UpdatingIs ==
    ASSUME NEW pl, NEW f, NEW wanted
    PROVE  LET next == Updating(pl, f, wanted)
           IN  /\ Apart(pl) => Apart(next)
               /\ Clear(wanted) => \A i \in DOMAIN wanted : Holds(next, f, wanted[i])
               /\ \A q \in DOMAIN pl :
                     pl[q].floor # f /\ (\A i \in DOMAIN wanted : wanted[i][1] # q)
                     => q \in DOMAIN next /\ next[q] = pl[q]
<1>. DEFINE next == Updating(pl, f, wanted)
            moved == MovedAll(pl, f, wanted)
            stay == {wanted[i][1] : i \in DOMAIN wanted}
            gone == On(pl, f) \ stay
<1>1. CASE DOMAIN wanted = {}
  BY <1>1 DEF Updating
<1>2. CASE DOMAIN wanted # {}
  <2>1. next = Without(moved, gone)
    BY <1>2 DEF Updating
  <2>2. \A i \in DOMAIN wanted : wanted[i][1] \notin gone
    OBVIOUS
  <2>3. \A q \in DOMAIN pl : pl[q].floor # f => q \notin gone
    BY DEF On
  <2>. HIDE DEF next, moved, gone
  <2>4. /\ DOMAIN next = DOMAIN moved \ gone
        /\ \A q \in DOMAIN moved \ gone : next[q] = moved[q]
        /\ Apart(moved) => Apart(next)
    BY <2>1, WithoutIs
  <2>5. /\ Apart(pl) => Apart(moved)
        /\ Clear(wanted) => \A i \in DOMAIN wanted : Holds(moved, f, wanted[i])
        /\ \A q \in DOMAIN pl :
              pl[q].floor # f /\ (\A i \in DOMAIN wanted : wanted[i][1] # q)
              => q \in DOMAIN moved /\ moved[q] = pl[q]
    BY MovedAllIs DEF moved
  <2>6. QED
    BY <2>2, <2>3, <2>4, <2>5 DEF next, Holds
<1>3. QED
  BY <1>1, <1>2

\* The tables of places that the updates of Placed leave, one after the other
Updates(g, pl, dtos, some, floorMap, map) ==
    /\ g[0] = pl
    /\ \A i \in 1..MaxFloors :
          g[i] = IF i \in some THEN Updating(g[i - 1], floorMap[i], WantedOn(dtos[i], map))
                 ELSE g[i - 1]

LEMMA UpdatesExist ==
    ASSUME NEW pl, NEW dtos, NEW some, NEW floorMap, NEW map
    PROVE  \E g : /\ Updates(g, pl, dtos, some, floorMap, map)
                  /\ Placed(pl, dtos, some, floorMap, map) = g[MaxFloors]
<1>. DEFINE n == MaxFloors
            Step(x, i) == IF i \in some THEN Updating(x, floorMap[i], WantedOn(dtos[i], map)) ELSE x
            E(g, k) == [i \in 0..k |-> IF i = 0 THEN pl ELSE Step(g[i - 1], i)]
            S == {k \in 0..n : \E g : g = E(g, k)}
            placed == CHOOSE g : g = [i \in 0..n |->
                        IF i = 0 THEN pl
                        ELSE IF i \in some THEN Updating(g[i - 1], floorMap[i], WantedOn(dtos[i], map))
                        ELSE g[i - 1]]
<1>0. n \in Nat
  BY FloorAssumption
<1>1. Placed(pl, dtos, some, floorMap, map) = placed[n]
  BY DEF Placed
<1>2. placed = CHOOSE g : g = E(g, n)
  OBVIOUS
<1>. HIDE DEF n, Step, placed
<1>3. 0 \in S
  <2>1. [i \in 0..0 |-> pl] = E([i \in 0..0 |-> pl], 0)
    OBVIOUS
  <2>2. \E g : g = E(g, 0)
    BY <2>1
  <2>3. QED
    BY <1>0, <2>2
<1>4. ASSUME NEW k \in 0..n, k > 0, k - 1 \in S PROVE k \in S
  <2>1. PICK g : g = E(g, k - 1)
    BY <1>4
  <2>. DEFINE h == [i \in 0..k |-> IF i = k THEN Step(g[k - 1], k) ELSE g[i]]
  <2>2. ASSUME NEW i \in 0..k PROVE h[i] = IF i = 0 THEN pl ELSE Step(h[i - 1], i)
    <3>1. CASE i = k
      <4>1. h[i - 1] = g[k - 1]
        BY <1>4, <3>1
      <4>2. QED
        BY <1>4, <3>1, <4>1
    <3>2. CASE i # k
      <4>1. i \in 0..(k - 1)
        BY <3>2
      <4>2. g[i] = IF i = 0 THEN pl ELSE Step(g[i - 1], i)
        BY <2>1, <4>1
      <4>3. i # 0 => h[i - 1] = g[i - 1]
        BY <4>1
      <4>4. QED
        BY <3>2, <4>2, <4>3
    <3>3. QED
      BY <3>1, <3>2
  <2>3. h = E(h, k)
    BY <2>2
  <2>4. QED
    BY <2>3
<1>. HIDE DEF S
<1>5. n \in S
  BY <1>0, <1>3, <1>4, Upwards
<1>6. placed = E(placed, n)
  BY <1>2, <1>5 DEF S
<1>7. \A i \in 0..n : placed[i] = IF i = 0 THEN pl ELSE Step(placed[i - 1], i)
  BY <1>6
<1>8. placed[0] = pl /\ \A i \in 1..n : placed[i] = Step(placed[i - 1], i)
  BY <1>0, <1>7
<1>9. Updates(placed, pl, dtos, some, floorMap, map)
  BY <1>8 DEF Updates, Step, n
<1>10. QED
  BY <1>1, <1>9 DEF n

\* The floor i of the file stands as it did there.
Stands(pl, dtos, floorMap, map, i) ==
    \A p \in DOMAIN dtos[i].shown \cap DOMAIN map :
        /\ map[p] \in DOMAIN pl
        /\ pl[map[p]] = [floor |-> floorMap[i], cell |-> dtos[i].shown[p]]

\* Nothing in the file is for one printer, one floor or one cell twice.
Straight(dtos, floorMap, map) ==
    /\ DOMAIN map \subseteq 1..MaxPrinters
    /\ \A p, q \in DOMAIN map : map[p] = map[q] => p = q
    /\ \A i, j \in DOMAIN dtos : floorMap[i] = floorMap[j] => i = j
    /\ \A i \in DOMAIN dtos : Once(dtos[i].shown)
    /\ \A i, j \in DOMAIN dtos : i # j => DOMAIN dtos[i].shown \cap DOMAIN dtos[j].shown = {}

LEMMA UpdatingStands ==
    ASSUME NEW pl, NEW dtos, NEW floorMap, NEW map, Straight(dtos, floorMap, map), NEW k \in DOMAIN dtos
    PROVE  LET next == Updating(pl, floorMap[k], WantedOn(dtos[k], map))
           IN  /\ Stands(next, dtos, floorMap, map, k)
               /\ \A i \in DOMAIN dtos :
                     Stands(pl, dtos, floorMap, map, i) => Stands(next, dtos, floorMap, map, i)
<1>. DEFINE wanted == WantedOn(dtos[k], map)
            next == Updating(pl, floorMap[k], wanted)
<1>1. /\ DOMAIN wanted = DOMAIN dtos[k].shown \cap DOMAIN map
      /\ \A p \in DOMAIN wanted : wanted[p][1] = map[p] /\ wanted[p][2] = dtos[k].shown[p]
  BY DEF WantedOn
<1>. HIDE DEF wanted
<1>2. Clear(wanted)
  <2>1. DOMAIN wanted \subseteq 1..MaxPrinters
    BY <1>1 DEF Straight
  <2>2. ASSUME NEW p \in DOMAIN wanted, NEW q \in DOMAIN wanted,
               wanted[p][1] = wanted[q][1] \/ wanted[p][2] = wanted[q][2]
        PROVE  p = q
    <3>1. map[p] = map[q] \/ dtos[k].shown[p] = dtos[k].shown[q]
      BY <1>1, <2>2
    <3>2. QED
      BY <1>1, <3>1 DEF Straight, Once
  <2>3. QED
    BY <2>1, <2>2 DEF Clear
<1>. HIDE DEF next
<1>3. /\ \A p \in DOMAIN wanted : Holds(next, floorMap[k], wanted[p])
      /\ \A q \in DOMAIN pl :
            pl[q].floor # floorMap[k] /\ (\A p \in DOMAIN wanted : wanted[p][1] # q)
            => q \in DOMAIN next /\ next[q] = pl[q]
  BY <1>2, UpdatingIs DEF next
<1>4. Stands(next, dtos, floorMap, map, k)
  BY <1>1, <1>3 DEF Stands, Holds
<1>5. ASSUME NEW i \in DOMAIN dtos, i # k, Stands(pl, dtos, floorMap, map, i)
      PROVE  Stands(next, dtos, floorMap, map, i)
  <2>. SUFFICES ASSUME NEW p \in DOMAIN dtos[i].shown \cap DOMAIN map
                PROVE  /\ map[p] \in DOMAIN next
                       /\ next[map[p]] = [floor |-> floorMap[i], cell |-> dtos[i].shown[p]]
    BY DEF Stands
  <2>1. map[p] \in DOMAIN pl /\ pl[map[p]] = [floor |-> floorMap[i], cell |-> dtos[i].shown[p]]
    BY <1>5 DEF Stands
  <2>2. pl[map[p]].floor # floorMap[k]
    BY <1>5, <2>1 DEF Straight
  <2>3. \A q \in DOMAIN wanted : wanted[q][1] # map[p]
    BY <1>1, <1>5 DEF Straight
  <2>4. QED
    BY <1>3, <2>1, <2>2, <2>3
<1>6. QED
  BY <1>4, <1>5 DEF next, wanted

\* The updates keep the places apart; and the floors they are for stand as in
\* the file, as do those that stood before.
LEMMA PlacedIs ==
    ASSUME NEW pl, NEW dtos, NEW some \in SUBSET DOMAIN dtos, NEW floorMap, NEW map,
           DOMAIN dtos \subseteq 1..MaxFloors
    PROVE  LET next == Placed(pl, dtos, some, floorMap, map)
           IN  /\ Apart(pl) => Apart(next)
               /\ Straight(dtos, floorMap, map) =>
                     \A i \in DOMAIN dtos :
                        i \in some \/ Stands(pl, dtos, floorMap, map, i)
                        => Stands(next, dtos, floorMap, map, i)
<1>. DEFINE n == MaxFloors
            next == Placed(pl, dtos, some, floorMap, map)
            Stand(x, k) == \A i \in DOMAIN dtos :
                              (i \in some /\ i <= k) \/ Stands(pl, dtos, floorMap, map, i)
                              => Stands(x, dtos, floorMap, map, i)
<1>1. PICK g : Updates(g, pl, dtos, some, floorMap, map) /\ next = g[n]
  BY UpdatesExist
<1>2. n \in Nat /\ DOMAIN dtos \subseteq 1..n
  BY FloorAssumption
<1>. DEFINE S == {k \in 0..n : /\ Apart(pl) => Apart(g[k])
                               /\ Straight(dtos, floorMap, map) => Stand(g[k], k)}
<1>. HIDE DEF n
<1>3. 0 \in S
  <2>1. g[0] = pl
    BY <1>1 DEF Updates
  <2>2. Stand(g[0], 0)
    BY <1>2, <2>1
  <2>3. QED
    BY <1>2, <2>1, <2>2
<1>4. ASSUME NEW k \in 0..n, k > 0, k - 1 \in S PROVE k \in S
  <2>. DEFINE x == g[k - 1]
              w == WantedOn(dtos[k], map)
  <2>1. k \in 1..n
    BY <1>4
  <2>2. /\ Apart(pl) => Apart(x)
        /\ Straight(dtos, floorMap, map) => Stand(x, k - 1)
    BY <1>4
  <2>3. g[k] = IF k \in some THEN Updating(x, floorMap[k], w) ELSE x
    BY <1>1, <2>1 DEF Updates, n
  <2>. HIDE DEF x
  <2>4. CASE k \notin some
    <3>1. \A i \in some : i <= k => i <= k - 1
      BY <1>2, <2>1, <2>4
    <3>2. Stand(x, k - 1) => Stand(x, k)
      BY <3>1
    <3>3. QED
      BY <2>2, <2>3, <2>4, <3>2
  <2>5. CASE k \in some
    <3>1. g[k] = Updating(x, floorMap[k], w)
      BY <2>3, <2>5
    <3>. HIDE DEF w
    <3>2. Apart(x) => Apart(g[k])
      BY <3>1, UpdatingIs
    <3>. USE DEF w
    <3>3. Straight(dtos, floorMap, map) =>
             /\ Stands(g[k], dtos, floorMap, map, k)
             /\ \A i \in DOMAIN dtos :
                   Stands(x, dtos, floorMap, map, i) => Stands(g[k], dtos, floorMap, map, i)
      BY <2>5, <3>1, UpdatingStands
    <3>4. \A i \in some : i <= k => i = k \/ i <= k - 1
      BY <1>2, <2>1
    <3>5. Straight(dtos, floorMap, map) => Stand(g[k], k)
      BY <2>2, <3>3, <3>4
    <3>6. QED
      BY <2>2, <3>2, <3>5
  <2>6. QED
    BY <2>4, <2>5
<1>. HIDE DEF S
<1>5. n \in S
  BY <1>2, <1>3, <1>4, Upwards
<1>6. /\ Apart(pl) => Apart(next)
      /\ Straight(dtos, floorMap, map) => Stand(next, n)
  BY <1>1, <1>5 DEF S
<1>7. \A i \in some : i <= n
  BY <1>2
<1>8. QED
  BY <1>6, <1>7


-----------------------------------------------------------------------------
(* YamlImport: the inductive invariant of the import, and the theorem.     *)

\* The floors of a store, or of a file
Floors(values, n) == DOMAIN values \subseteq 1..n /\ \A f \in DOMAIN values : Once(values[f].shown)

\* What the import relies on: ids go up, the rows are rows, no cell is taken
\* twice on a floor, in the store's copy of one nor in the file; and what an
\* import has just answered is so.
YamlInv ==
    /\ Named(printers, lastPrinter) /\ lastPrinter <= MaxPrinters
    /\ lastFloor \in 0..MaxFloors /\ DOMAIN floors \subseteq 1..lastFloor
    /\ Apart(places)
    /\ Floors(floorStore.values, lastFloor)
    /\ Imported(file.printers, MaxPrinters) /\ Floors(file.floors, MaxFloors)
    /\ ImportRestoresPlaces

LEMMA NoAnswerRestores ==
    /\ answer = NoAnswer => ImportRestoresPlaces
    /\ answer' = NoAnswer => ImportRestoresPlaces'
  BY DEF NoAnswer, NoFile, Empty, ImportRestoresPlaces

LEMMA YamlInvInit == YamlInit => YamlInv
<1>. SUFFICES ASSUME YamlInit PROVE YamlInv
  OBVIOUS
<1>1. Named(printers, lastPrinter) /\ lastPrinter <= MaxPrinters
  BY PrinterAssumption DEF YamlInit, FloorInit, NoPrinters, Named
<1>2. lastFloor \in 0..MaxFloors /\ DOMAIN floors \subseteq 1..lastFloor
  BY FloorAssumption DEF YamlInit, FloorInit
<1>3. Apart(places) /\ Floors(floorStore.values, lastFloor)
  BY DEF YamlInit, FloorInit, EmptyCache, Apart, Once, Floors
<1>4. Imported(file.printers, MaxPrinters) /\ Floors(file.floors, MaxFloors)
  BY DEF YamlInit, NoFile, Empty, Imported, Floors
<1>5. ImportRestoresPlaces
  BY NoAnswerRestores DEF YamlInit
<1>6. QED
  BY <1>1, <1>2, <1>3, <1>4, <1>5 DEF YamlInv

LEMMA SetFloors ==
    ASSUME NEW store, NEW n \in Nat, Floors(store.values, n), NEW pl, Apart(pl), NEW names,
           NEW fs \in SUBSET (1..n)
    PROVE  Floors(SetKeys(store, [f \in fs |-> FloorDto(names, pl, f)]).values, n)
<1>. DEFINE new == [f \in fs |-> FloorDto(names, pl, f)]
            next == SetKeys(store, new).values
<1>1. next = WithValues(store.values, new)
  BY DEF SetKeys
<1>2. ASSUME NEW f \in fs PROVE Once(new[f].shown)
  <2>1. new[f].shown = [p \in On(pl, f) |-> pl[p].cell]
    BY DEF FloorDto
  <2>2. ASSUME NEW p \in On(pl, f), NEW q \in On(pl, f), pl[p].cell = pl[q].cell PROVE p = q
    BY <2>2 DEF On, Apart, Once
  <2>3. QED
    BY <2>1, <2>2 DEF Once
<1>3. DOMAIN new = fs
  OBVIOUS
<1>. HIDE DEF new, next
<1>4. QED
  BY <1>1, <1>2, <1>3 DEF WithValues, Floors, next, new

LEMMA ShownFloors ==
    ASSUME NEW store, NEW n \in Nat, Floors(store.values, n), NEW pl, Apart(pl), NEW names, NEW f \in 1..n
    PROVE  Floors(Shown(store, names, pl, f).values, n)
<1>1. Shown(store, names, pl, f) = SetKeys(store, [g \in {f} |-> FloorDto(names, pl, g)])
  BY DEF Shown, SetKey
<1>2. QED
  BY <1>1, SetFloors

LEMMA LoadedFloors ==
    ASSUME NEW store, NEW n \in Nat, Floors(store.values, n), NEW pl, Apart(pl), NEW names,
           DOMAIN names \subseteq 1..n
    PROVE  Floors(Loaded(store, names, pl).values, n)
<1>1. Loaded(store, names, pl) = SetKeys(store, [f \in DOMAIN names |-> FloorDto(names, pl, f)])
  BY DEF Loaded
<1>2. QED
  BY <1>1, SetFloors

\* The part of the invariant that requests about floors disturb
FloorsInv ==
    /\ lastFloor \in 0..MaxFloors /\ DOMAIN floors \subseteq 1..lastFloor
    /\ Apart(places)
    /\ Floors(floorStore.values, lastFloor)

LEMMA FloorsInvStep ==
    ASSUME FloorsInv, FloorRequest
    PROVE  FloorsInv'
<1>. USE DEF FloorsInv
<1>0. /\ lastFloor \in Nat
      /\ Floors(floorStore.values, lastFloor + 1)
      /\ \A f \in DOMAIN floors : f \in 1..lastFloor
  BY DEF Floors
<1>1. ASSUME NEW n \in FloorNames, CreateFloor(n) PROVE FloorsInv'
  <2>1. /\ lastFloor' = lastFloor + 1 /\ lastFloor' \in 0..MaxFloors /\ places' = places
        /\ DOMAIN floors' = DOMAIN floors \cup {lastFloor'}
        /\ floorStore' = Shown(floorStore, floors', places, lastFloor')
    BY <1>1, FloorAssumption DEF CreateFloor, With
  <2>2. QED
    BY <1>0, <2>1, ShownFloors
<1>2. ASSUME NEW n \in FloorNames, NEW p \in PrinterIds, NEW c \in Cells, CreateFloorWith(n, p, c)
      PROVE  FloorsInv'
  <2>1. /\ lastFloor' = lastFloor + 1 /\ lastFloor' \in 0..MaxFloors
        /\ DOMAIN floors' = DOMAIN floors \cup {lastFloor'}
        /\ \/ /\ places' = Moved(places, lastFloor', p, c)
              /\ floorStore' = Shown(floorStore, floors', places', lastFloor')
           \/ UNCHANGED <<places, floorStore>>
    BY <1>2, FloorAssumption DEF CreateFloorWith, With
  <2>2. Apart(places')
    BY <2>1, MovedIs
  <2>3. QED
    BY <1>0, <2>1, <2>2, ShownFloors
<1>3. ASSUME NEW f \in FloorIds, GetFloor(f) PROVE FloorsInv'
  <2>1. /\ f \in DOMAIN floors /\ UNCHANGED <<floors, lastFloor, places>>
        /\ floorStore' = Shown(floorStore, floors, places, f)
    BY <1>3 DEF GetFloor
  <2>2. QED
    BY <1>0, <2>1, ShownFloors
<1>4. ASSUME NEW f \in FloorIds, DeleteFloor(f) PROVE FloorsInv'
  <2>1. /\ floorStore'.values = WithoutValues(floorStore.values, {f})
        /\ places' = Without(places, On(places, f))
        /\ DOMAIN floors' = DOMAIN floors \ {f} /\ lastFloor' = lastFloor
    BY <1>4 DEF DeleteFloor, DeleteKeys, Emptied, WithoutValues
  <2>2. Apart(places')
    BY <2>1, WithoutIs
  <2>3. Floors(floorStore'.values, lastFloor)
    BY <2>1 DEF Floors, WithoutValues
  <2>4. QED
    BY <2>1, <2>2, <2>3
<1>5. ASSUME NEW f \in FloorIds, NEW n \in FloorNames, RenameFloor(f, n) PROVE FloorsInv'
  <2>1. /\ f \in DOMAIN floors /\ DOMAIN floors' = DOMAIN floors /\ UNCHANGED <<lastFloor, places>>
        /\ floorStore' = Shown(floorStore, floors', places, f)
    BY <1>5 DEF RenameFloor
  <2>2. QED
    BY <1>0, <2>1, ShownFloors
<1>6. ASSUME NEW f \in FloorIds, NEW p \in PrinterIds, RemovePrinterFromFloor(f, p) PROVE FloorsInv'
  <2>1. /\ f \in DOMAIN floors /\ UNCHANGED <<floors, lastFloor>>
        /\ places' = Without(places, {p})
        /\ floorStore' = Shown(floorStore, floors, places', f)
    BY <1>6 DEF RemovePrinterFromFloor
  <2>2. Apart(places')
    BY <2>1, WithoutIs
  <2>3. QED
    BY <1>0, <2>1, <2>2, ShownFloors
<1>7. ASSUME NEW f \in FloorIds, NEW p \in PrinterIds, NEW c \in Cells, AddPrinterToFloor(f, p, c)
      PROVE  FloorsInv'
  <2>1. /\ f \in DOMAIN floors /\ UNCHANGED <<floors, lastFloor>>
        /\ \/ /\ places' = Moved(places, f, p, c)
              /\ floorStore' = Shown(floorStore, floors, places', f)
           \/ /\ places' = Without(places, {p} \cup At(places, f, c))
              /\ UNCHANGED floorStore
    BY <1>7 DEF AddPrinterToFloor, Cleared
  <2>2. Apart(places')
    <3>1. Apart(Moved(places, f, p, c))
      BY MovedIs
    <3>2. Apart(Without(places, {p} \cup At(places, f, c)))
      BY WithoutIs
    <3>3. QED
      BY <2>1, <3>1, <3>2
  <2>3. QED
    BY <1>0, <2>1, <2>2, ShownFloors
<1>8. QED
  BY <1>1, <1>2, <1>3, <1>4, <1>5, <1>6, <1>7 DEF FloorRequest


LEMMA ImportRestores ==
    ASSUME YamlInv, NEW printersByName, NEW floorsByName, ImportYaml(printersByName, floorsByName)
    PROVE  YamlInv'
<1>. DEFINE rows     == file.printers
            names    == [p \in DOMAIN printers |-> printers[p].name]
            pMatches == [i \in DOMAIN rows |-> Match(names, rows[i].name, printersByName)]
            map      == IdMap(rows, pMatches, lastPrinter)
            dtos     == file.floors
            fMatches == [i \in DOMAIN dtos |-> Match(floors, dtos[i].name, floorsByName)]
            floorMap == IdMap(dtos, fMatches, lastFloor)
            added    == Cardinality(New(fMatches))
            s        == ImportedPrinters(rows, pMatches)
            first    == Placed(places, dtos, New(fMatches), floorMap, map)
<1>1. /\ lastFloor + added <= MaxFloors
      /\ BecomesState(s)
      /\ lastFloor' = lastFloor + added
      /\ DOMAIN floors' = DOMAIN floors \cup {floorMap[i] : i \in DOMAIN dtos}
      /\ places' = Placed(first, dtos, DOMAIN dtos \ New(fMatches), floorMap, map)
      /\ floorStore' = Loaded(floorStore, floors', places')
      /\ answer' = [printers |-> map, floors |-> floorMap, file |-> file]
      /\ file' = file
  BY DEF ImportYaml, PrinterIdMap, ImportedPlaces
<1>2. /\ lastPrinter \in Nat /\ DOMAIN printers \subseteq 1..lastPrinter /\ Named(printers, lastPrinter)
      /\ lastFloor \in Nat /\ DOMAIN floors \subseteq 1..lastFloor
      /\ Imported(rows, MaxPrinters) /\ DOMAIN rows \subseteq 1..MaxPrinters /\ MaxPrinters \in Nat
      /\ DOMAIN dtos \subseteq 1..MaxFloors /\ MaxFloors \in Nat
      /\ \A i \in DOMAIN dtos : Once(dtos[i].shown)
      /\ Apart(places) /\ Floors(floorStore.values, lastFloor)
  BY PrinterAssumption, FloorAssumption DEF YamlInv, Named, Imported, Floors
<1>3. \A i \in DOMAIN rows : \/ pMatches[i] = 0
                             \/ /\ pMatches[i] \in DOMAIN printers /\ pMatches[i] # 0
                                /\ printers[pMatches[i]].name = rows[i].name
  BY <1>2, MatchIs
<1>4. \A i \in DOMAIN dtos : \/ fMatches[i] = 0
                             \/ /\ fMatches[i] \in DOMAIN floors /\ fMatches[i] # 0
                                /\ floors[fMatches[i]] = dtos[i].name
  BY <1>2, MatchIs
<1>5. DOMAIN pMatches = DOMAIN rows /\ DOMAIN fMatches = DOMAIN dtos
  OBVIOUS
<1>. DEFINE pOld == DOMAIN rows \ New(pMatches)
            fOld == DOMAIN dtos \ New(fMatches)
<1>. HIDE DEF pMatches, fMatches, rows, dtos
<1>6. /\ Matching(rows, pMatches, DOMAIN printers, lastPrinter)
      /\ Matching(dtos, fMatches, DOMAIN floors, lastFloor)
  BY <1>2, <1>3, <1>4, <1>5 DEF Matching
<1>7. /\ DOMAIN map = DOMAIN rows
      /\ (\A i, j \in pOld : pMatches[i] = pMatches[j] => i = j)
         => \A i, j \in DOMAIN rows : map[i] = map[j] => i = j
  BY <1>2, <1>6, IdsAre
<1>8. /\ New(fMatches) \in SUBSET DOMAIN dtos /\ added \in Nat
      /\ \A i \in New(fMatches) : floorMap[i] \in (lastFloor + 1)..(lastFloor + added)
      /\ \A i \in fOld : floorMap[i] \in DOMAIN floors
      /\ (\A i, j \in fOld : fMatches[i] = fMatches[j] => i = j)
         => \A i, j \in DOMAIN dtos : floorMap[i] = floorMap[j] => i = j
  BY <1>2, <1>6, IdsAre
<1>9. /\ Named(s.table, s.last)
      /\ \A i \in DOMAIN rows : map[i] \in DOMAIN s.table
      /\ (\A i, j \in DOMAIN rows : map[i] = map[j] => i = j)
         => \A i \in DOMAIN rows : s.table[map[i]].name = rows[i].name
  BY <1>2, <1>6, ImportedAre
<1>. HIDE DEF map, floorMap, added, s
<1>10. Named(printers', lastPrinter') /\ lastPrinter' <= MaxPrinters /\ printers' = s.table
  BY <1>1, <1>9 DEF BecomesState
<1>11. lastFloor' \in 0..MaxFloors /\ DOMAIN floors' \subseteq 1..lastFloor'
  <2>1. \A i \in DOMAIN dtos : floorMap[i] \in 1..(lastFloor + added)
    BY <1>2, <1>8
  <2>2. QED
    BY <1>1, <1>2, <1>8, <2>1
<1>12. /\ Apart(places')
       /\ Straight(dtos, floorMap, map) => \A i \in DOMAIN dtos : Stands(places', dtos, floorMap, map, i)
  <2>1. fOld \in SUBSET DOMAIN dtos
    OBVIOUS
  <2>2. /\ Apart(first)
        /\ Straight(dtos, floorMap, map) =>
              \A i \in New(fMatches) : Stands(first, dtos, floorMap, map, i)
    BY <1>2, <1>8, PlacedIs
  <2>. HIDE DEF first
  <2>3. /\ Apart(first) => Apart(places')
        /\ Straight(dtos, floorMap, map) =>
              \A i \in DOMAIN dtos : i \in fOld \/ Stands(first, dtos, floorMap, map, i)
                                     => Stands(places', dtos, floorMap, map, i)
    BY <1>1, <1>2, <2>1, PlacedIs
  <2>4. QED
    BY <2>2, <2>3
<1>13. Floors(floorStore'.values, lastFloor')
  <2>1. Floors(floorStore.values, lastFloor')
    BY <1>1, <1>2, <1>8 DEF Floors
  <2>2. lastFloor' \in Nat
    BY <1>11
  <2>3. QED
    BY <1>1, <1>11, <1>12, <2>1, <2>2, LoadedFloors
<1>14. Imported(file'.printers, MaxPrinters) /\ Floors(file'.floors, MaxFloors)
  BY <1>1 DEF YamlInv
<1>15. ImportRestoresPlaces'
  <2>. SUFFICES ASSUME Unambiguous(file)
                PROVE  /\ \A p \in DOMAIN rows :
                             /\ map[p] \in DOMAIN printers'
                             /\ printers'[map[p]].name = rows[p].name
                       /\ \A i \in DOMAIN dtos :
                             \A p \in DOMAIN dtos[i].shown \cap DOMAIN rows :
                                /\ map[p] \in DOMAIN places'
                                /\ places'[map[p]] = [floor |-> floorMap[i], cell |-> dtos[i].shown[p]]
    BY <1>1 DEF ImportRestoresPlaces, rows, dtos
  <2>1. /\ \A i, j \in DOMAIN rows : rows[i].name = rows[j].name => i = j
        /\ \A i, j \in DOMAIN dtos :
              i = j \/ (/\ dtos[i].name # dtos[j].name
                        /\ DOMAIN dtos[i].shown \cap DOMAIN dtos[j].shown = {})
    BY DEF Unambiguous, rows, dtos
  <2>2. \A i, j \in pOld : pMatches[i] = pMatches[j] => i = j
    BY <1>3, <1>5, <2>1 DEF New
  <2>3. \A i, j \in fOld : fMatches[i] = fMatches[j] => i = j
    BY <1>4, <1>5, <2>1 DEF New
  <2>4. \A i, j \in DOMAIN rows : map[i] = map[j] => i = j
    BY <1>7, <2>2
  <2>5. \A i, j \in DOMAIN dtos : floorMap[i] = floorMap[j] => i = j
    BY <1>8, <2>3
  <2>6. Straight(dtos, floorMap, map)
    BY <1>2, <1>7, <2>1, <2>4, <2>5 DEF Straight
  <2>7. \A i \in DOMAIN dtos : Stands(places', dtos, floorMap, map, i)
    BY <1>12, <2>6
  <2>8. QED
    BY <1>7, <1>9, <1>10, <2>4, <2>7 DEF Stands
<1>16. QED
  BY <1>10, <1>11, <1>12, <1>13, <1>14, <1>15 DEF YamlInv

LEMMA YamlInvNext ==
    ASSUME YamlInv, [YamlNext]_yamlVars
    PROVE  YamlInv'
<1>0. YamlInv => FloorsInv
  BY DEF YamlInv, FloorsInv
<1>1. CASE FloorRequest /\ UNCHANGED file /\ answer' = NoAnswer
  <2>1. FloorsInv' /\ ImportRestoresPlaces'
    BY <1>0, <1>1, FloorsInvStep, NoAnswerRestores
  <2>2. UNCHANGED printerVars
    BY <1>1 DEF FloorRequest, CreateFloor, CreateFloorWith, GetFloor, DeleteFloor, RenameFloor,
                RemovePrinterFromFloor, AddPrinterToFloor
  <2>3. QED
    BY <1>1, <2>1, <2>2 DEF YamlInv, FloorsInv, printerVars
<1>2. CASE (\E row \in NewRows : AddPrinter(row)) /\ UNCHANGED file /\ answer' = NoAnswer
  <2>1. PICK row \in NewRows : AddPrinter(row)
    BY <1>2
  <2>2. <<row>> \in [1..1 -> PrinterRow]
    BY DEF NewRows
  <2>. DEFINE s == CreatedAll(State, <<row>>)
  <2>3. BecomesState(s) /\ UNCHANGED floorVars
    BY <2>1 DEF AddPrinter, CreatePrinter, Created
  <2>4. Named(s.table, s.last)
    BY <2>2, CreatedAre DEF YamlInv
  <2>. HIDE DEF s
  <2>5. Named(printers', lastPrinter') /\ lastPrinter' <= MaxPrinters
    BY <2>3, <2>4 DEF BecomesState
  <2>6. ImportRestoresPlaces'
    BY <1>2, NoAnswerRestores
  <2>7. QED
    BY <1>2, <2>3, <2>5, <2>6 DEF YamlInv, floorVars
<1>3. ASSUME NEW ps, NEW reload, RemovePrinters(ps, reload), UNCHANGED file, answer' = NoAnswer
      PROVE  YamlInv'
  <2>1. /\ printers' = WithoutValues(printers, ps) /\ lastPrinter' = lastPrinter
        /\ places' = Without(places, ps)
        /\ floorStore' = IF reload THEN Loaded(floorStore, floors, places') ELSE floorStore
        /\ UNCHANGED <<floors, lastFloor>>
    BY <1>3 DEF RemovePrinters, BecomesState, Deleted, State
  <2>2. Apart(places')
    BY <2>1, WithoutIs DEF YamlInv
  <2>3. Floors(floorStore'.values, lastFloor)
    BY <2>1, <2>2, LoadedFloors DEF YamlInv
  <2>4. Named(printers', lastPrinter')
    BY <2>1 DEF YamlInv, Named, WithoutValues
  <2>5. ImportRestoresPlaces'
    BY <1>3, NoAnswerRestores
  <2>6. QED
    BY <1>3, <2>1, <2>2, <2>3, <2>4, <2>5 DEF YamlInv
<1>4. CASE ExportYaml
  <2>1. /\ floorStore' = ListedStore /\ answer' = NoAnswer
        /\ file'.printers = printers /\ file'.floors = floorStore'.values
        /\ UNCHANGED <<printerVars, floors, lastFloor, places>>
    BY <1>4 DEF ExportYaml
  <2>2. Floors(floorStore'.values, lastFloor)
    BY <2>1, LoadedFloors DEF ListedStore, YamlInv
  <2>3. Imported(file'.printers, MaxPrinters) /\ Floors(file'.floors, MaxFloors)
    BY <2>1, <2>2, PrinterAssumption, FloorAssumption DEF YamlInv, Named, Imported, Floors
  <2>4. ImportRestoresPlaces'
    BY <2>1, NoAnswerRestores
  <2>5. QED
    BY <2>1, <2>2, <2>3, <2>4 DEF YamlInv, printerVars
<1>5. CASE \E byName, floorsByName \in BOOLEAN : ImportYaml(byName, floorsByName)
  BY <1>5, ImportRestores
<1>6. CASE Reboot
  <2>1. /\ floorStore' = Loaded(EmptyCache, floors, places) /\ answer' = NoAnswer
        /\ UNCHANGED <<printers, lastPrinter, floors, lastFloor, places, file>>
    BY <1>6 DEF Reboot
  <2>2. Floors(EmptyCache.values, lastFloor)
    BY DEF EmptyCache, Floors
  <2>3. Floors(floorStore'.values, lastFloor)
    BY <2>1, <2>2, LoadedFloors DEF YamlInv
  <2>4. ImportRestoresPlaces'
    BY <2>1, NoAnswerRestores
  <2>5. QED
    BY <2>1, <2>3, <2>4 DEF YamlInv
<1>7. CASE UNCHANGED yamlVars
  BY <1>7 DEF yamlVars, printerVars, floorVars, YamlInv, ImportRestoresPlaces
<1>8. QED
  BY <1>1, <1>2, <1>3, <1>4, <1>5, <1>6, <1>7 DEF YamlNext

-----------------------------------------------------------------------------

\* After an import of an unambiguous file each of its printers is there under
\* its name and stands where the file had it, on the floor made or found for
\* the file's, whatever the server held and whichever ids it gave since the
\* export (yaml.service.ts:39-202).
THEOREM PlacesAreRestored == YamlSpec => []ImportRestoresPlaces
<1>1. YamlInv => ImportRestoresPlaces
  BY DEF YamlInv
<1>2. QED
  BY <1>1, YamlInvInit, YamlInvNext, PTL DEF YamlSpec

=============================================================================
