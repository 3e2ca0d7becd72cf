---------------------------- MODULE SocketProofs ----------------------------
(***************************************************************************)
(* What holds of the printers' sockets whatever the order in which setups, *)
(* polls, requests and late events of former connections come: a request   *)
(* that a Moonraker adapter keeps has its timer, and a deleted OctoPrint   *)
(* printer stays out of the events cache.                                  *)
(***************************************************************************)
EXTENDS PrinterWebsockets, FiniteSetTheorems, SequenceTheorems, NaturalsInduction,
        WellFoundedInduction, TLAPS

-----------------------------------------------------------------------------
(* Moonraker.                                                              *)

MoonrakerInv == Moonraker!MoonrakerTypeOK /\ Moonraker!EntryIsTimed

LEMMA MoonrakerInvInit == Moonraker!MoonrakerInit => MoonrakerInv
  BY WebsocketAssumption
  DEF Moonraker!MoonrakerInit, MoonrakerInv, Moonraker!MoonrakerTypeOK,
      Moonraker!EntryIsTimed, Moonraker!MoonrakerAdapter, Moonraker!MoonrakerSetup,
      Moonraker!NoSetup, Moonraker!Opening, Moonraker!NotOpening, Moonraker!Conns,
      Moonraker!Setups

\* The setups of the task: a free one is taken, while no other is the task's.
LEMMA SetupIsTaken ==
    ASSUME MoonrakerInv, NEW a, NEW why \in {"task", "event"},
           a \in Moonraker!MoonrakerAdapter, a.conn = adapter.conn,
           Moonraker!SetupBegins(a, why),
           why = "task" => \A s \in Moonraker!Setups :
                              setup[s].at = "none" \/ setup[s].why # "task",
           UNCHANGED <<conns, opened, entry>>
    PROVE  MoonrakerInv'
<1>. DEFINE free == CHOOSE s \in Moonraker!FreeSetups : TRUE
<1>1. free \in Moonraker!Setups /\ setup[free].at = "none"
  BY DEF Moonraker!SetupBegins, Moonraker!FreeSetups
<1>2. adapter' \in Moonraker!MoonrakerAdapter /\ adapter'.conn = adapter.conn
  BY DEF Moonraker!SetupBegins, Moonraker!Reset, Moonraker!MoonrakerAdapter
<1>3. setup' = [setup EXCEPT ![free] = [why |-> why, at |-> "version"]]
  BY DEF Moonraker!SetupBegins
<1>. HIDE DEF free
<1>4. setup' \in [Moonraker!Setups -> Moonraker!MoonrakerSetup]
  BY <1>1, <1>3 DEF MoonrakerInv, Moonraker!MoonrakerTypeOK, Moonraker!MoonrakerSetup
<1>5. \A s, t \in Moonraker!Setups :
          s # t => ~(\A u \in {s, t} : setup'[u].at # "none" /\ setup'[u].why = "task")
  BY <1>1, <1>3 DEF MoonrakerInv, Moonraker!MoonrakerTypeOK, Moonraker!MoonrakerSetup
<1>6. QED
  BY <1>2, <1>4, <1>5
  DEF MoonrakerInv, Moonraker!MoonrakerTypeOK, Moonraker!EntryIsTimed

\* One action at a time; the entry keeps its timer because a WebSocket is
\* not used again before the request of its afterOpened is over.
LEMMA MoonrakerInvNext == MoonrakerInv /\ [Moonraker!MoonrakerNext]_moonrakerVars => MoonrakerInv'
<1>. SUFFICES ASSUME MoonrakerInv, [Moonraker!MoonrakerNext]_moonrakerVars PROVE MoonrakerInv'
  OBVIOUS
<1>. 0 \in 0..MaxMoonConns
  BY WebsocketAssumption
<1>. USE WebsocketAssumption
<1>1. CASE UNCHANGED moonrakerVars
  BY <1>1 DEF moonrakerVars, MoonrakerInv, Moonraker!MoonrakerTypeOK, Moonraker!EntryIsTimed
<1>2. CASE Moonraker!RunStarts
  BY <1>2, SetupIsTaken
  DEF Moonraker!RunStarts, MoonrakerInv, Moonraker!MoonrakerTypeOK
<1>3. CASE Moonraker!Reconnect
  <2>. DEFINE o == IF entry = 0 THEN 0 ELSE opened[entry].owed
              r == [Moonraker!NotOpening EXCEPT !.owed = o]
  <2>1. o \in 0..MaxMoonConns
    BY DEF MoonrakerInv, Moonraker!MoonrakerTypeOK, Moonraker!Conns, Moonraker!Opening
  <2>2. r \in Moonraker!Opening
    BY <2>1 DEF Moonraker!NotOpening, Moonraker!Opening
  <2>3. opened' = [c \in Moonraker!Conns |-> IF c = entry THEN r ELSE opened[c]] /\ entry' = 0
    BY <1>3 DEF Moonraker!Reconnect, Moonraker!RequestsCleared, Moonraker!Settled
  <2>. HIDE DEF r
  <2>4. opened' \in [Moonraker!Conns -> Moonraker!Opening]
    BY <2>2, <2>3 DEF MoonrakerInv, Moonraker!MoonrakerTypeOK
  <2>5. /\ adapter' \in Moonraker!MoonrakerAdapter
        /\ conns' \in [Moonraker!Conns -> {"none", "connecting", "open", "closing"}]
        /\ adapter'.conn = 0
    <3>. DEFINE a == [Moonraker!Reset(adapter) EXCEPT !.conn = 0]
                e == [a EXCEPT !.socket = "closed"]
    <3>1. /\ a \in Moonraker!MoonrakerAdapter /\ a.conn = 0
          /\ e \in Moonraker!MoonrakerAdapter /\ e.conn = 0
      BY DEF Moonraker!Reset, Moonraker!MoonrakerAdapter, MoonrakerInv, Moonraker!MoonrakerTypeOK
    <3>2. adapter' \in {a, e}
      BY <1>3 DEF Moonraker!Reconnect
    <3>. HIDE DEF a, e
    <3>3. \/ conns' = conns
          \/ conns' = [conns EXCEPT ![adapter.conn] = "none"]
          \/ conns' = [conns EXCEPT ![adapter.conn] = "closing"]
      BY <1>3 DEF Moonraker!Reconnect
    <3>4. QED
      BY <3>1, <3>2, <3>3 DEF MoonrakerInv, Moonraker!MoonrakerTypeOK
  <2>6. UNCHANGED setup
    BY <1>3 DEF Moonraker!Reconnect
  <2>7. QED
    BY <2>3, <2>4, <2>5, <2>6
    DEF MoonrakerInv, Moonraker!MoonrakerTypeOK, Moonraker!EntryIsTimed
<1>4. ASSUME NEW s \in Moonraker!Setups, Moonraker!VersionAnswered(s) PROVE MoonrakerInv'
  BY <1>4
  DEF Moonraker!VersionAnswered, Moonraker!MoonrakerSetup,
      MoonrakerInv, Moonraker!MoonrakerTypeOK, Moonraker!EntryIsTimed
<1>5. ASSUME NEW s \in Moonraker!Setups, Moonraker!VersionFails(s) PROVE MoonrakerInv'
  BY <1>5
  DEF Moonraker!VersionFails, Moonraker!MoonrakerSetup, Moonraker!NoSetup,
      Moonraker!MoonrakerAdapter,
      MoonrakerInv, Moonraker!MoonrakerTypeOK, Moonraker!EntryIsTimed
<1>6. ASSUME NEW s \in Moonraker!Setups, Moonraker!SetupEnds(s) PROVE MoonrakerInv'
  <2>1. setup' = [setup EXCEPT ![s] = Moonraker!NoSetup] /\ UNCHANGED entry
    BY <1>6 DEF Moonraker!SetupEnds
  <2>2. /\ setup' \in [Moonraker!Setups -> Moonraker!MoonrakerSetup]
        /\ \A t, u \in Moonraker!Setups :
              t # u => ~(\A v \in {t, u} : setup'[v].at # "none" /\ setup'[v].why = "task")
    BY <2>1
    DEF MoonrakerInv, Moonraker!MoonrakerTypeOK, Moonraker!MoonrakerSetup, Moonraker!NoSetup
  <2>3. CASE UNCHANGED <<adapter, conns, opened>>
    BY <2>1, <2>2, <2>3
    DEF MoonrakerInv, Moonraker!MoonrakerTypeOK, Moonraker!EntryIsTimed
  <2>4. ASSUME NEW c \in Moonraker!Conns, Moonraker!Over(c),
               conns' = [conns EXCEPT ![c] = "connecting"],
               opened' = [opened EXCEPT ![c] = Moonraker!NotOpening],
               adapter' = [adapter EXCEPT !.conn = c]
        PROVE  MoonrakerInv'
    <3>1. /\ adapter' \in Moonraker!MoonrakerAdapter
          /\ conns' \in [Moonraker!Conns -> {"none", "connecting", "open", "closing"}]
          /\ adapter'.conn = c /\ conns'[c] # "none"
      BY <2>4
      DEF MoonrakerInv, Moonraker!MoonrakerTypeOK, Moonraker!MoonrakerAdapter, Moonraker!Conns
    <3>2. opened' \in [Moonraker!Conns -> Moonraker!Opening]
      BY <2>4
      DEF MoonrakerInv, Moonraker!MoonrakerTypeOK, Moonraker!NotOpening, Moonraker!Opening
    <3>3. c # entry
      BY <2>4 DEF Moonraker!Over
    <3>4. Moonraker!EntryIsTimed'
      BY <2>1, <2>4, <3>3
      DEF MoonrakerInv, Moonraker!MoonrakerTypeOK, Moonraker!EntryIsTimed, Moonraker!Conns
    <3>5. QED
      BY <2>1, <2>2, <3>1, <3>2, <3>4 DEF MoonrakerInv, Moonraker!MoonrakerTypeOK
  <2>5. QED
    BY <1>6, <2>3, <2>4 DEF Moonraker!SetupEnds
<1>7. ASSUME NEW c \in Moonraker!Conns, Moonraker!ConnOpens(c) PROVE MoonrakerInv'
  <2>1. /\ conns' = [conns EXCEPT ![c] = "open"]
        /\ adapter' = [adapter EXCEPT !.socket = "opened"]
        /\ UNCHANGED setup
    BY <1>7 DEF Moonraker!ConnOpens
  <2>2. /\ adapter' \in Moonraker!MoonrakerAdapter
        /\ conns' \in [Moonraker!Conns -> {"none", "connecting", "open", "closing"}]
        /\ adapter'.conn # 0 => conns'[adapter'.conn] # "none"
    BY <2>1
    DEF MoonrakerInv, Moonraker!MoonrakerTypeOK, Moonraker!MoonrakerAdapter, Moonraker!Conns
  <2>3. CASE UNCHANGED <<opened, entry>>
    BY <2>1, <2>2, <2>3
    DEF MoonrakerInv, Moonraker!MoonrakerTypeOK, Moonraker!EntryIsTimed
  <2>4. CASE adapter.conn # 0 /\ opened' = Moonraker!Registered(c) /\ entry' = c
    <3>. DEFINE r == [at    |-> IF conns'[adapter.conn] = "connecting" THEN "none"
                                ELSE "identify",
                      timer |-> TRUE,
                      owed  |-> IF conns'[adapter.conn] = "open" THEN adapter.conn ELSE 0]
    <3>1. r \in Moonraker!Opening
      BY DEF MoonrakerInv, Moonraker!MoonrakerTypeOK, Moonraker!MoonrakerAdapter,
             Moonraker!Opening
    <3>2. r.timer = TRUE
      OBVIOUS
    <3>3. opened' = [opened EXCEPT ![c] = r]
      BY <2>4 DEF Moonraker!Registered
    <3>. HIDE DEF r
    <3>4. opened' \in [Moonraker!Conns -> Moonraker!Opening] /\ opened'[c] = r
      BY <3>1, <3>3 DEF MoonrakerInv, Moonraker!MoonrakerTypeOK
    <3>5. Moonraker!EntryIsTimed'
      BY <2>4, <3>2, <3>4 DEF Moonraker!EntryIsTimed
    <3>6. QED
      BY <2>1, <2>2, <2>4, <3>4, <3>5
      DEF MoonrakerInv, Moonraker!MoonrakerTypeOK, Moonraker!Conns
  <2>5. QED
    BY <1>7, <2>3, <2>4 DEF Moonraker!ConnOpens
<1>8. ASSUME NEW c \in Moonraker!Conns, Moonraker!ConnMessage(c) PROVE MoonrakerInv'
  <2>. DEFINE a == [adapter EXCEPT !.socket = "authenticated"]
  <2>1. a \in Moonraker!MoonrakerAdapter /\ a.conn = adapter.conn
    BY DEF MoonrakerInv, Moonraker!MoonrakerTypeOK, Moonraker!MoonrakerAdapter
  <2>2. CASE adapter' = a /\ UNCHANGED setup
    BY <1>8, <2>1, <2>2
    DEF Moonraker!ConnMessage, MoonrakerInv, Moonraker!MoonrakerTypeOK, Moonraker!EntryIsTimed
  <2>3. CASE Moonraker!SetupBegins(a, "event")
    BY <1>8, <2>1, <2>3, SetupIsTaken DEF Moonraker!ConnMessage
  <2>4. QED
    BY <1>8, <2>2, <2>3 DEF Moonraker!ConnMessage
<1>9. ASSUME NEW c \in Moonraker!Conns, Moonraker!ConnErrs(c) PROVE MoonrakerInv'
  BY <1>9
  DEF Moonraker!ConnErrs, Moonraker!Conns, Moonraker!MoonrakerAdapter,
      MoonrakerInv, Moonraker!MoonrakerTypeOK, Moonraker!EntryIsTimed
<1>10. ASSUME NEW c \in Moonraker!Conns, Moonraker!ConnCloses(c) PROVE MoonrakerInv'
  <2>1. /\ conns' = [conns EXCEPT ![c] = "none"]
        /\ adapter' = [adapter EXCEPT !.socket = "closed", !.conn = 0]
        /\ UNCHANGED <<setup, entry>>
    BY <1>10 DEF Moonraker!ConnCloses
  <2>2. adapter' \in Moonraker!MoonrakerAdapter /\ adapter'.conn = 0
    BY <2>1 DEF MoonrakerInv, Moonraker!MoonrakerTypeOK, Moonraker!MoonrakerAdapter
  <2>. conns' \in [Moonraker!Conns -> {"none", "connecting", "open", "closing"}]
    BY <2>1 DEF MoonrakerInv, Moonraker!MoonrakerTypeOK
  <2>3. opened' = [d \in Moonraker!Conns |->
                      IF opened[d].owed = c THEN [opened[d] EXCEPT !.owed = 0] ELSE opened[d]]
    BY <1>10 DEF Moonraker!ConnCloses
  <2>4. \A r \in Moonraker!Opening :
           /\ [r EXCEPT !.owed = 0] \in Moonraker!Opening
           /\ [r EXCEPT !.owed = 0].timer = r.timer
    BY DEF Moonraker!Opening
  <2>5. /\ opened' \in [Moonraker!Conns -> Moonraker!Opening]
        /\ \A d \in Moonraker!Conns : opened'[d].timer = opened[d].timer
    BY <2>3, <2>4 DEF MoonrakerInv, Moonraker!MoonrakerTypeOK
  <2>6. QED
    BY <2>1, <2>2, <2>5
    DEF MoonrakerInv, Moonraker!MoonrakerTypeOK, Moonraker!EntryIsTimed, Moonraker!Conns
<1>11. ASSUME NEW c \in Moonraker!Conns, Moonraker!RequestAnswered(c) PROVE MoonrakerInv'
  <2>. DEFINE f == [opened EXCEPT ![c].owed = 0]
              r == IF entry = 0 \/ f[entry].at = "none"
                   THEN [Moonraker!NotOpening EXCEPT !.owed = IF entry = 0 THEN 0
                                                              ELSE f[entry].owed]
                   ELSE [at |-> "subscribe", timer |-> FALSE, owed |-> f[entry].owed]
  <2>1. f \in [Moonraker!Conns -> Moonraker!Opening]
    BY DEF MoonrakerInv, Moonraker!MoonrakerTypeOK, Moonraker!Opening
  <2>2. r \in Moonraker!Opening
    <3>. HIDE DEF f
    <3>1. (IF entry = 0 THEN 0 ELSE f[entry].owed) \in 0..MaxMoonConns
      BY <2>1 DEF MoonrakerInv, Moonraker!MoonrakerTypeOK, Moonraker!Opening, Moonraker!Conns
    <3>2. QED
      BY <3>1 DEF Moonraker!NotOpening, Moonraker!Opening
  <2>3. opened' = [d \in Moonraker!Conns |-> IF d = entry THEN r ELSE f[d]]
    BY <1>11 DEF Moonraker!RequestAnswered, Moonraker!Settled
  <2>4. UNCHANGED <<adapter, conns, setup>> /\ entry' = 0
    BY <1>11 DEF Moonraker!RequestAnswered
  <2>. HIDE DEF f, r
  <2>5. opened' \in [Moonraker!Conns -> Moonraker!Opening]
    BY <2>1, <2>2, <2>3
  <2>6. QED
    BY <2>4, <2>5 DEF MoonrakerInv, Moonraker!MoonrakerTypeOK, Moonraker!EntryIsTimed
<1>12. ASSUME NEW c \in Moonraker!Conns, Moonraker!RequestTimesOut(c) PROVE MoonrakerInv'
  <2>1. UNCHANGED <<adapter, conns, setup>> /\ entry' = 0
    BY <1>12 DEF Moonraker!RequestTimesOut, Moonraker!TimedOut
  <2>2. \A r \in Moonraker!Opening :
           /\ [Moonraker!NotOpening EXCEPT !.owed = r.owed] \in Moonraker!Opening
           /\ [r EXCEPT !.timer = FALSE] \in Moonraker!Opening
    BY DEF Moonraker!Opening, Moonraker!NotOpening
  <2>3. opened' \in [Moonraker!Conns -> Moonraker!Opening]
    BY <1>12, <2>2
    DEF Moonraker!RequestTimesOut, Moonraker!TimedOut, MoonrakerInv, Moonraker!MoonrakerTypeOK
  <2>4. QED
    BY <2>1, <2>3 DEF MoonrakerInv, Moonraker!MoonrakerTypeOK, Moonraker!EntryIsTimed
<1>13. ASSUME NEW c \in Moonraker!Conns, Moonraker!Subscribed(c) PROVE MoonrakerInv'
  BY <1>13
  DEF Moonraker!Subscribed, Moonraker!Opening,
      Moonraker!Conns, MoonrakerInv, Moonraker!MoonrakerTypeOK, Moonraker!EntryIsTimed
<1>14. QED
  BY <1>1, <1>2, <1>3, <1>4, <1>5, <1>6, <1>7, <1>8, <1>9, <1>10, <1>11, <1>12, <1>13
  DEF Moonraker!MoonrakerNext, Moonraker!SetupStep, Moonraker!ConnStep

-----------------------------------------------------------------------------
(* OctoPrint.                                                              *)

\* What DeletedStaysOut rests on: an adapter the Map has lost is silent or
\* was replaced, and the Map has none of a deleted printer.
LostAreSilent ==
    \A a \in DOMAIN adapters : a \in Listed \/ adapters[a].silent \/ adapters[a].replaced

DeletedAreUnlisted == \A a \in Listed : rows[adapters[a].printer] # "deleted"

OctoPrintInv == SocketTypeOK /\ DeletedStaysOut /\ LostAreSilent /\ DeletedAreUnlisted

LEMMA SeqOfFunction ==
    ASSUME NEW S, NEW n \in Nat, NEW f \in [1..n -> S]
    PROVE  f \in Seq(S) /\ Len(f) = n
  BY SeqDef

LEMMA OctoPrintInvInit == SocketInit => OctoPrintInv
<1>. SUFFICES ASSUME SocketInit PROVE OctoPrintInv
  OBVIOUS
<1>. DEFINE n == Cardinality(Printers)
<1>1. n \in Nat /\ n <= MaxAdapters
  BY SocketAssumption, FS_CardinalityType
<1>2. \A p \in Printers : NewAdapter(p) \in Adapter
  <2>. 0 \in 0..MaxConns
    BY SocketAssumption
  <2>. QED
    BY DEF NewAdapter, Adapter, SocketStates, ApiStates
<1>3. adapters \in [1..n -> {NewAdapter(p) : p \in Printers}]
  BY DEF SocketInit
<1>. HIDE DEF n
<1>4. adapters \in [1..n -> Adapter]
  BY <1>2, <1>3
<1>5. adapters \in Seq(Adapter) /\ Len(adapters) = n /\ DOMAIN adapters = 1..n
  BY <1>1, <1>4, SeqOfFunction
<1>6. listed \in [1..n -> DOMAIN adapters]
  BY <1>5 DEF SocketInit
<1>7. listed \in Seq(DOMAIN adapters) /\ Len(listed) = n
  BY <1>1, <1>6, SeqOfFunction
<1>8. \A a \in 1..n : listed[a] = a
  BY <1>5 DEF SocketInit
<1>9. Listed = DOMAIN adapters
  BY <1>5, <1>7, <1>8 DEF Listed
<1>10. \A a \in 1..n : adapters[a] = NewAdapter(adapters[a].printer)
  BY <1>3 DEF NewAdapter
<1>11. \A i, k \in 1..Len(listed) :
          adapters[listed[i]].printer = adapters[listed[k]].printer => i = k
  <2>1. \A a, b \in DOMAIN adapters : adapters[a] = adapters[b] => a = b
    BY <1>3 DEF SocketInit
  <2>2. \A a, b \in 1..n : adapters[a].printer = adapters[b].printer => a = b
    BY <1>5, <1>10, <2>1
  <2>3. QED
    BY <1>7, <1>8, <2>2
<1>12. \A a \in DOMAIN adapters : adapters[a].conn = 0
  BY <1>5, <1>10 DEF NewAdapter
<1>13. ws \in [DOMAIN adapters -> [1..MaxConns -> ConnStates]]
  BY DEF SocketInit, NoConns, ConnStates
<1>14. session \in [DOMAIN adapters -> [1..MaxSessions -> Session]]
  BY DEF SocketInit, NoSessions, NoSession, Session
<1>15. SocketTypeOK
  <2>1. /\ rows \in [Printers -> {"enabled", "disabled", "other", "deleted"}]
        /\ restore \in Seq(DOMAIN adapters)
        /\ reauthing \in BOOLEAN
        /\ cached \subseteq Printers
    BY EmptySeq DEF SocketInit
  <2>2. QED
    BY <1>1, <1>5, <1>7, <1>11, <1>12, <1>13, <1>14, <2>1 DEF SocketTypeOK
<1>16. DeletedAreUnlisted
  BY <1>4, <1>5, <1>9 DEF SocketInit, DeletedAreUnlisted, Adapter
<1>17. QED
  BY <1>9, <1>15, <1>16 DEF OctoPrintInv, LostAreSilent, DeletedStaysOut, SocketInit

\* What an adapter remains through every step of a task or of its own.
Remains(r, q) ==
    /\ q.printer = r.printer
    /\ r.silent => q.silent
    /\ r.replaced => q.replaced

HasItsConn(r, cs) == r.conn # 0 => cs[r.conn] # "none"

Sessions == [DOMAIN adapters -> [1..MaxSessions -> Session]]

\* What adapters that are not silent may put into the cache
Emittable == {adapters[a].printer : a \in {b \in DOMAIN adapters : ~adapters[b].silent}}

LEMMA AdapterIds ==
    ASSUME SocketTypeOK
    PROVE  /\ Len(adapters) \in Nat
           /\ DOMAIN adapters = 1..Len(adapters)
           /\ adapters \in [DOMAIN adapters -> Adapter]
           /\ Len(listed) \in Nat
           /\ listed \in [1..Len(listed) -> DOMAIN adapters]
           /\ Listed \subseteq DOMAIN adapters
           /\ ws \in [DOMAIN adapters -> [1..MaxConns -> ConnStates]]
           /\ session \in Sessions
           /\ \A a \in DOMAIN adapters : HasItsConn(adapters[a], ws[a])
  BY LenProperties DEF SocketTypeOK, Listed, Sessions, HasItsConn

\* No step but an operator's changes the Map or the printers.
LEMMA OnlyAdaptersMove ==
    ASSUME OctoPrintInv, UNCHANGED <<rows, listed>>,
           adapters' \in [DOMAIN adapters -> Adapter],
           ws' \in [DOMAIN adapters -> [1..MaxConns -> ConnStates]],
           session' \in Sessions,
           restore' \in Seq(DOMAIN adapters),
           reauthing' \in BOOLEAN,
           cached' \subseteq cached \cup Emittable,
           \A a \in DOMAIN adapters :
              Remains(adapters[a], adapters'[a]) /\ HasItsConn(adapters'[a], ws'[a])
    PROVE  OctoPrintInv'
<1>1. /\ Len(adapters) \in Nat
      /\ DOMAIN adapters = 1..Len(adapters)
      /\ adapters \in [DOMAIN adapters -> Adapter]
      /\ Listed \subseteq DOMAIN adapters
      /\ listed \in [1..Len(listed) -> DOMAIN adapters]
  BY AdapterIds DEF OctoPrintInv
<1>2. adapters' \in Seq(Adapter) /\ Len(adapters') = Len(adapters)
  BY <1>1, SeqOfFunction
<1>3. DOMAIN adapters' = DOMAIN adapters /\ Listed' = Listed
  BY DEF Listed
<1>4. \A a \in DOMAIN adapters : adapters'[a].printer = adapters[a].printer
  BY DEF Remains
<1>5. \A i, k \in 1..Len(listed) :
         adapters'[listed[i]].printer = adapters'[listed[k]].printer => i = k
  BY <1>1, <1>4 DEF OctoPrintInv, SocketTypeOK
<1>6. cached' \subseteq Printers
  BY <1>1 DEF OctoPrintInv, SocketTypeOK, Emittable, Adapter
<1>7. SocketTypeOK'
  BY <1>2, <1>3, <1>5, <1>6 DEF OctoPrintInv, SocketTypeOK, Sessions, HasItsConn
<1>8. LostAreSilent'
  BY <1>3 DEF OctoPrintInv, LostAreSilent, Remains
<1>9. DeletedAreUnlisted'
  BY <1>1, <1>3, <1>4 DEF OctoPrintInv, DeletedAreUnlisted
<1>10. ASSUME NEW p \in Printers, rows'[p] = "deleted", p \in cached'
       PROVE  \E a \in DOMAIN adapters' : adapters'[a].printer = p /\ adapters'[a].replaced
  <2>1. \E a \in DOMAIN adapters : adapters[a].printer = p /\ adapters[a].replaced
    <3>1. CASE p \in cached
      BY <1>10, <3>1 DEF OctoPrintInv, DeletedStaysOut
    <3>2. CASE p \in Emittable
      <4>1. PICK a \in DOMAIN adapters : ~adapters[a].silent /\ adapters[a].printer = p
        BY <3>2 DEF Emittable
      <4>2. a \notin Listed
        BY <1>10, <4>1 DEF OctoPrintInv, DeletedAreUnlisted
      <4>3. QED
        BY <4>1, <4>2 DEF OctoPrintInv, LostAreSilent
    <3>3. QED
      BY <1>10, <3>1, <3>2
  <2>2. QED
    BY <1>3, <2>1 DEF Remains
<1>11. DeletedStaysOut'
  BY <1>10 DEF DeletedStaysOut
<1>12. QED
  BY <1>7, <1>8, <1>9, <1>11 DEF OctoPrintInv

\* Sessions that begin reset their adapters, and change nothing else of them.
LEMMA SessionsBegin ==
    ASSUME SocketTypeOK, NEW as \in [DOMAIN adapters -> Adapter], NEW ss \in Sessions,
           NEW A, NEW why \in {"open", "reauth"}, Begin(as, ss, A, why)
    PROVE  /\ adapters' \in [DOMAIN adapters -> Adapter]
           /\ session' \in Sessions
           /\ \A a \in DOMAIN adapters :
                 /\ adapters'[a].printer = as[a].printer
                 /\ adapters'[a].silent = as[a].silent
                 /\ adapters'[a].replaced = as[a].replaced
                 /\ adapters'[a].conn = as[a].conn
<1>1. \A r \in Adapter :
         /\ Reset(r) \in Adapter
         /\ Reset(r).printer = r.printer
         /\ Reset(r).silent = r.silent
         /\ Reset(r).replaced = r.replaced
         /\ Reset(r).conn = r.conn
  BY DEF Reset, Adapter, SocketStates, ApiStates
<1>2. adapters' = [a \in DOMAIN as |-> IF a \in A THEN Reset(as[a]) ELSE as[a]]
  BY DEF Begin
<1>3. ASSUME NEW a \in DOMAIN adapters PROVE session'[a] \in [1..MaxSessions -> Session]
  <2>. DEFINE new == [why |-> why, awaited |-> TRUE, at |-> "login"]
  <2>1. new \in Session
    BY DEF Session
  <2>. HIDE DEF new
  <2>2. CASE a \in A
    <3>. DEFINE t == CHOOSE t \in FreeSlots(ss, a) : TRUE
    <3>1. session'[a] = [ss[a] EXCEPT ![t] = new]
      BY <2>2 DEF Begin, Sessions, new
    <3>. HIDE DEF t
    <3>2. QED
      BY <2>1, <3>1 DEF Sessions
  <2>3. CASE a \notin A
    BY <2>3 DEF Begin, Sessions
  <2>4. QED
    BY <2>2, <2>3
<1>4. session' = [a \in DOMAIN adapters |-> session'[a]]
  BY DEF Begin, Sessions
<1>5. QED
  BY <1>1, <1>2, <1>3, <1>4 DEF Sessions

LEMMA SessionGoes ==
    ASSUME SocketTypeOK, NEW a \in DOMAIN adapters, NEW s \in 1..MaxSessions,
           NEW at \in {"none", "login", "user", "current", "auth"}, Goes(a, s, at)
    PROVE  session' \in Sessions
<1>. DEFINE new == [session[a][s] EXCEPT !.at = at]
<1>1. new \in Session
  <2>1. session[a][s] \in Session
    BY AdapterIds DEF Sessions
  <2>2. QED
    BY <2>1 DEF Session
<1>2. session' = [session EXCEPT ![a] = [session[a] EXCEPT ![s] = new]]
  BY DEF Goes, SocketTypeOK
<1>. HIDE DEF new
<1>3. [session[a] EXCEPT ![s] = new] \in [1..MaxSessions -> Session]
  BY <1>1 DEF SocketTypeOK
<1>4. QED
  BY <1>2, <1>3 DEF SocketTypeOK, Sessions

LEMMA SessionRejected ==
    ASSUME SocketTypeOK, NEW a \in DOMAIN adapters, NEW s \in 1..MaxSessions, Rejected(a, s)
    PROVE  session' \in Sessions /\ reauthing' \in BOOLEAN
<1>1. NoSession \in Session
  BY DEF NoSession, Session
<1>2. \A x \in Session : \A ends \in BOOLEAN :
         [x EXCEPT !.awaited = x.awaited /\ ~ends] \in Session
  BY DEF Session
<1>. DEFINE ends == session[a][s].awaited
<1>3. ends \in BOOLEAN
  <2>1. session[a][s] \in Session
    BY AdapterIds DEF Sessions
  <2>2. QED
    BY <2>1 DEF Session
<1>4. /\ session' = [b \in DOMAIN session |-> [t \in 1..MaxSessions |->
                        IF <<b, t>> = <<a, s>> THEN NoSession
                        ELSE [session[b][t] EXCEPT !.awaited = session[b][t].awaited /\ ~ends]]]
      /\ reauthing' = (reauthing /\ ~ends)
  BY DEF Rejected
<1>. HIDE DEF ends
<1>5. QED
  BY <1>1, <1>2, <1>3, <1>4 DEF SocketTypeOK, Sessions

\* Adapter a and its WebSockets change.
OneAdapter(a, r) ==
    /\ UNCHANGED <<rows, listed, restore>>
    /\ r \in Adapter
    /\ Remains(adapters[a], r)
    /\ HasItsConn(r, ws'[a])
    /\ \/ ws' = ws
       \/ \E c \in 1..MaxConns, st \in ConnStates : ws' = [ws EXCEPT ![a][c] = st]
       \/ \E cs \in [1..MaxConns -> ConnStates] : ws' = [ws EXCEPT ![a] = cs]
    /\ cached' \subseteq cached \cup Emittable

LEMMA OneAdapterConns ==
    ASSUME OctoPrintInv, NEW a \in DOMAIN adapters, NEW r, OneAdapter(a, r)
    PROVE  /\ ws' \in [DOMAIN adapters -> [1..MaxConns -> ConnStates]]
           /\ \A b \in DOMAIN adapters : b # a => ws'[b] = ws[b]
<1>1. ws \in [DOMAIN adapters -> [1..MaxConns -> ConnStates]]
  BY DEF OctoPrintInv, SocketTypeOK
<1>2. CASE ws' = ws
  BY <1>1, <1>2
<1>3. ASSUME NEW c \in 1..MaxConns, NEW st \in ConnStates, ws' = [ws EXCEPT ![a][c] = st]
      PROVE  \E cs \in [1..MaxConns -> ConnStates] : ws' = [ws EXCEPT ![a] = cs]
  <2>1. [ws[a] EXCEPT ![c] = st] \in [1..MaxConns -> ConnStates]
    BY <1>1
  <2>2. ws' = [ws EXCEPT ![a] = [ws[a] EXCEPT ![c] = st]]
    BY <1>1, <1>3
  <2>3. QED
    BY <2>1, <2>2
<1>4. ASSUME NEW cs \in [1..MaxConns -> ConnStates], ws' = [ws EXCEPT ![a] = cs]
      PROVE  /\ ws' \in [DOMAIN adapters -> [1..MaxConns -> ConnStates]]
             /\ \A b \in DOMAIN adapters : b # a => ws'[b] = ws[b]
  BY <1>1, <1>4
<1>5. QED
  BY <1>2, <1>3, <1>4, <1>1 DEF OneAdapter

LEMMA OneAdapterMoves ==
    ASSUME OctoPrintInv, NEW a \in DOMAIN adapters, NEW r, OneAdapter(a, r), Becomes(a, r),
           session' \in Sessions, reauthing' \in BOOLEAN
    PROVE  OctoPrintInv'
<1>1. adapters \in [DOMAIN adapters -> Adapter]
  BY AdapterIds DEF OctoPrintInv
<1>2. adapters' = [adapters EXCEPT ![a] = r] /\ r \in Adapter
  BY DEF Becomes, OneAdapter
<1>3. adapters' \in [DOMAIN adapters -> Adapter]
  BY <1>1, <1>2
<1>4. \A b \in DOMAIN adapters :
         Remains(adapters[b], adapters'[b]) /\ HasItsConn(adapters'[b], ws'[b])
  BY <1>1, <1>2, OneAdapterConns
  DEF Remains, HasItsConn, OneAdapter, OctoPrintInv, SocketTypeOK
<1>5. QED
  BY <1>3, <1>4, OneAdapterConns, OnlyAdaptersMove DEF OneAdapter, OctoPrintInv, SocketTypeOK

LEMMA SessionDone ==
    ASSUME OctoPrintInv, NEW a \in DOMAIN adapters, NEW s \in 1..MaxSessions,
           NEW r, OneAdapter(a, r), Done(a, s, r)
    PROVE  OctoPrintInv'
<1>. DEFINE as     == [adapters EXCEPT ![a] = r]
            ss     == [session EXCEPT ![a][s] = NoSession]
            goesOn == reauthing /\ session[a][s].awaited /\ Awaited(ss) = {}
            A      == IF goesOn THEN ToSetUp(as) ELSE {}
<1>1. adapters \in [DOMAIN adapters -> Adapter] /\ r \in Adapter
  BY AdapterIds DEF OctoPrintInv, OneAdapter
<1>2. as \in [DOMAIN adapters -> Adapter]
  BY <1>1
<1>3. ss \in Sessions
  <2>1. NoSession \in Session
    BY DEF NoSession, Session
  <2>2. QED
    BY <2>1 DEF OctoPrintInv, SocketTypeOK, Sessions
<1>4. Begin(as, ss, A, "open") /\ reauthing' = (reauthing /\ ~goesOn)
  BY DEF Done
<1>5. reauthing' \in BOOLEAN
  BY <1>4 DEF OctoPrintInv, SocketTypeOK
<1>6. \A b \in DOMAIN adapters : b # a => as[b] = adapters[b]
  BY <1>1
<1>7. as[a] = r
  BY <1>1
<1>. HIDE DEF as, ss, goesOn, A
<1>8. /\ adapters' \in [DOMAIN adapters -> Adapter]
      /\ session' \in Sessions
      /\ \A b \in DOMAIN adapters :
            /\ adapters'[b].printer = as[b].printer
            /\ adapters'[b].silent = as[b].silent
            /\ adapters'[b].replaced = as[b].replaced
            /\ adapters'[b].conn = as[b].conn
  BY <1>2, <1>3, <1>4, SessionsBegin DEF OctoPrintInv
<1>9. \A b \in DOMAIN adapters :
         Remains(adapters[b], adapters'[b]) /\ HasItsConn(adapters'[b], ws'[b])
  <2>1. ASSUME NEW b \in DOMAIN adapters, b # a
        PROVE  Remains(adapters[b], adapters'[b]) /\ HasItsConn(adapters'[b], ws'[b])
    <3>1. ws'[b] = ws[b]
      BY <2>1, OneAdapterConns
    <3>2. QED
      BY <1>6, <1>8, <2>1, <3>1, AdapterIds DEF Remains, HasItsConn, OctoPrintInv
  <2>2. Remains(adapters[a], adapters'[a]) /\ HasItsConn(adapters'[a], ws'[a])
    BY <1>7, <1>8 DEF Remains, HasItsConn, OneAdapter
  <2>3. QED
    BY <2>1, <2>2
<1>10. QED
  BY <1>5, <1>8, <1>9, OneAdapterConns, OnlyAdaptersMove
  DEF OneAdapter, OctoPrintInv, SocketTypeOK

LEMMA EmittedIsEmittable ==
    ASSUME SocketTypeOK, NEW a \in DOMAIN adapters
    PROVE  Emitted(a) \subseteq cached \cup Emittable
  BY DEF Emitted, Emittable

LEMMA CurrentStateEmits ==
    ASSUME SocketTypeOK, NEW a \in DOMAIN adapters, NEW api \in ApiStates, CurrentState(a, api)
    PROVE  cached' \subseteq cached \cup Emittable
  BY EmittedIsEmittable DEF CurrentState

\* Records that differ from r as the handlers make them
Same(r, q) ==
    q \in Adapter /\ q.printer = r.printer /\ q.silent = r.silent /\ q.replaced = r.replaced

LEMMA Records ==
    ASSUME NEW r \in Adapter
    PROVE  /\ \A so \in SocketStates :
                 LET t == [r EXCEPT !.socket = so] IN Same(r, t) /\ t.conn = r.conn
           /\ \A api \in ApiStates :
                 LET t == [r EXCEPT !.api = api, !.polling = TRUE] IN Same(r, t) /\ t.conn = r.conn
           /\ \A api \in ApiStates :
                 LET t == [r EXCEPT !.api = api, !.tick = FALSE] IN Same(r, t) /\ t.conn = r.conn
           /\ \A c \in 0..MaxConns :
                 LET t == [r EXCEPT !.conn = c] IN Same(r, t) /\ t.conn = c
           /\ \A b \in BOOLEAN :
                 LET t == [r EXCEPT !.reauth = b] IN Same(r, t) /\ t.conn = r.conn
           /\ \A b \in BOOLEAN :
                 LET t == [r EXCEPT !.tick = b] IN Same(r, t) /\ t.conn = r.conn
           /\ \A h \in {"never", "recent", "old"} :
                 LET t == [r EXCEPT !.heard = h] IN Same(r, t) /\ t.conn = r.conn
           /\ \A so \in SocketStates, h \in {"never", "recent", "old"} :
                 LET t == [r EXCEPT !.socket = so, !.heard = h] IN Same(r, t) /\ t.conn = r.conn
<1>1. \A so \in SocketStates :
         LET t == [r EXCEPT !.socket = so] IN Same(r, t) /\ t.conn = r.conn
  BY DEF Same, Adapter
<1>2. \A api \in ApiStates :
         LET t == [r EXCEPT !.api = api, !.polling = TRUE] IN Same(r, t) /\ t.conn = r.conn
  BY DEF Same, Adapter
<1>3. \A api \in ApiStates :
         LET t == [r EXCEPT !.api = api, !.tick = FALSE] IN Same(r, t) /\ t.conn = r.conn
  BY DEF Same, Adapter
<1>4. \A c \in 0..MaxConns :
         LET t == [r EXCEPT !.conn = c] IN Same(r, t) /\ t.conn = c
  BY DEF Same, Adapter
<1>5. \A b \in BOOLEAN :
         LET t == [r EXCEPT !.reauth = b] IN Same(r, t) /\ t.conn = r.conn
  BY DEF Same, Adapter
<1>6. \A b \in BOOLEAN :
         LET t == [r EXCEPT !.tick = b] IN Same(r, t) /\ t.conn = r.conn
  BY DEF Same, Adapter
<1>7. \A h \in {"never", "recent", "old"} :
         LET t == [r EXCEPT !.heard = h] IN Same(r, t) /\ t.conn = r.conn
  BY DEF Same, Adapter
<1>8. \A so \in SocketStates, h \in {"never", "recent", "old"} :
         LET t == [r EXCEPT !.socket = so, !.heard = h] IN Same(r, t) /\ t.conn = r.conn
  BY DEF Same, Adapter
<1>. QED
  BY <1>1, <1>2, <1>3, <1>4, <1>5, <1>6, <1>7, <1>8

LEMMA SameRemains ==
    ASSUME NEW r, NEW q, Same(r, q) PROVE q \in Adapter /\ Remains(r, q)
  BY DEF Same, Remains

LEMMA SameTwice ==
    ASSUME NEW r, NEW q, NEW t, Same(r, q), Same(q, t) PROVE Same(r, t)
  BY DEF Same

LEMMA SessionInv ==
    ASSUME OctoPrintInv, NEW a \in DOMAIN adapters, NEW s \in 1..MaxSessions, SessionStep(a, s)
    PROVE  OctoPrintInv'
<1>. DEFINE r == adapters[a]
<1>1. r \in Adapter /\ HasItsConn(r, ws[a])
  BY AdapterIds DEF OctoPrintInv
<1>. SocketTypeOK
  BY DEF OctoPrintInv
<1>. /\ {"opening", "authenticating", "aborted"} \subseteq SocketStates
     /\ {"responding", "failed"} \subseteq ApiStates
  BY DEF SocketStates, ApiStates
<1>. reauthing \in BOOLEAN
  BY DEF SocketTypeOK
<1>2. CASE LoginAnswered(a, s)
  <2>. DEFINE q == [r EXCEPT !.socket = "opening", !.api = "responding"]
  <2>1. Same(r, q) /\ q.conn = r.conn
    BY <1>1 DEF Same, Adapter, SocketStates, ApiStates
  <2>. HIDE DEF q
  <2>2. OneAdapter(a, q)
    BY <1>1, <1>2, <2>1, SameRemains DEF LoginAnswered, OneAdapter, HasItsConn, taskVars
  <2>3. Becomes(a, q) /\ Goes(a, s, "user") /\ UNCHANGED reauthing
    BY <1>2 DEF LoginAnswered, taskVars, q
  <2>4. QED
    BY <2>2, <2>3, SessionGoes, OneAdapterMoves
<1>3. CASE UserAnswered(a, s)
  <2>1. Same(r, r)
    BY <1>1 DEF Same
  <2>2. Becomes(a, r)
    BY <1>3, AdapterIds, Zenon DEF UserAnswered, Becomes
  <2>. HIDE DEF r
  <2>3. OneAdapter(a, r)
    BY <1>1, <1>3, <2>1, SameRemains DEF UserAnswered, OneAdapter, taskVars, r
  <2>4. QED
    BY <1>3, <2>2, <2>3, SessionGoes, OneAdapterMoves DEF UserAnswered, taskVars
<1>4. CASE SetupFails(a, s)
  <2>. DEFINE q == [r EXCEPT !.socket = "aborted", !.api = "failed"]
  <2>1. Same(r, q) /\ q.conn = r.conn
    BY <1>1 DEF Same, Adapter, SocketStates, ApiStates
  <2>. HIDE DEF q
  <2>2. OneAdapter(a, q)
    BY <1>1, <1>4, <2>1, SameRemains DEF SetupFails, OneAdapter, HasItsConn
  <2>3. Becomes(a, q) /\ Rejected(a, s)
    BY <1>4 DEF SetupFails, q
  <2>4. QED
    BY <2>2, <2>3, SessionRejected, OneAdapterMoves
<1>5. CASE SocketOpens(a, s)
  <2>1. PICK api \in ApiStates :
           /\ CurrentState(a, api)
           /\ LET q == [r EXCEPT !.api = api, !.polling = TRUE]
              IN  IF q.conn = 0
                  THEN \E c \in 1..MaxConns :
                          /\ ws' = [ws EXCEPT ![a][c] = "connecting"]
                          /\ Done(a, s, [q EXCEPT !.conn = c])
                  ELSE Becomes(a, q) /\ Rejected(a, s) /\ UNCHANGED ws
    BY <1>5 DEF SocketOpens
  <2>. DEFINE q == [r EXCEPT !.api = api, !.polling = TRUE]
  <2>2. Same(r, q) /\ q.conn = r.conn
    BY <1>1, Records
  <2>3. UNCHANGED <<rows, listed, restore>> /\ cached' \subseteq cached \cup Emittable
    BY <1>5, <2>1, CurrentStateEmits DEF SocketOpens
  <2>. HIDE DEF q
  <2>4. CASE Becomes(a, q) /\ Rejected(a, s) /\ UNCHANGED ws
    <3>1. OneAdapter(a, q)
      BY <1>1, <2>2, <2>3, <2>4, SameRemains DEF OneAdapter, HasItsConn
    <3>2. QED
      BY <2>4, <3>1, SessionRejected, OneAdapterMoves
  <2>5. ASSUME NEW c \in 1..MaxConns, ws' = [ws EXCEPT ![a][c] = "connecting"],
               Done(a, s, [q EXCEPT !.conn = c])
        PROVE  OctoPrintInv'
    <3>. DEFINE t == [q EXCEPT !.conn = c]
    <3>. q \in Adapter /\ c \in 0..MaxConns
      BY <2>2, SocketAssumption DEF Same
    <3>1. Same(q, t) /\ t.conn = c
      BY Records
    <3>. HIDE DEF t
    <3>2. Same(r, t)
      BY <2>2, <3>1, SameTwice
    <3>3. HasItsConn(t, ws'[a])
      BY <2>5, <3>1, AdapterIds DEF HasItsConn
    <3>4. "connecting" \in ConnStates
      BY DEF ConnStates
    <3>5. OneAdapter(a, t)
      BY <2>3, <2>5, <3>2, <3>3, <3>4, SameRemains DEF OneAdapter
    <3>6. Done(a, s, t)
      BY <2>5 DEF t
    <3>7. QED
      BY <3>5, <3>6, SessionDone
  <2>6. QED
    BY <2>1, <2>4, <2>5 DEF q
<1>6. CASE AuthBegins(a, s)
  <2>1. PICK api \in ApiStates :
           /\ CurrentState(a, api)
           /\ LET q == [r EXCEPT !.api = api, !.polling = TRUE, !.socket = "authenticating"]
              IN  \/ Becomes(a, q) /\ Goes(a, s, "auth") /\ UNCHANGED reauthing
                  \/ Done(a, s, [q EXCEPT !.reauth = FALSE])
    BY <1>6 DEF AuthBegins
  <2>. DEFINE q == [r EXCEPT !.api = api, !.polling = TRUE, !.socket = "authenticating"]
              t == [q EXCEPT !.reauth = FALSE]
  <2>2. Same(r, q) /\ q.conn = r.conn
    BY <1>1 DEF Same, Adapter, SocketStates, ApiStates
  <2>3. UNCHANGED <<rows, listed, ws, restore>> /\ cached' \subseteq cached \cup Emittable
    BY <1>6, <2>1, CurrentStateEmits DEF AuthBegins
  <2>4. Same(q, t) /\ t.conn = q.conn
    <3>. HIDE DEF q
    <3>. QED
      BY <2>2, Records DEF Same
  <2>. HIDE DEF q, t
  <2>5. OneAdapter(a, q)
    BY <1>1, <2>2, <2>3, SameRemains DEF OneAdapter, HasItsConn
  <2>6. OneAdapter(a, t)
    BY <1>1, <2>2, <2>3, <2>4, SameTwice, SameRemains DEF OneAdapter, HasItsConn
  <2>7. \/ Becomes(a, q) /\ Goes(a, s, "auth") /\ UNCHANGED reauthing
        \/ Done(a, s, t)
    BY <2>1 DEF q, t
  <2>8. QED
    BY <2>5, <2>6, <2>7, SessionGoes, SessionDone, OneAdapterMoves
<1>7. CASE AuthSent(a, s)
  <2>. DEFINE q == [r EXCEPT !.reauth = FALSE]
  <2>1. Same(r, q) /\ q.conn = r.conn
    BY <1>1, Records
  <2>. HIDE DEF q
  <2>2. OneAdapter(a, q)
    BY <1>1, <1>7, <2>1, SameRemains DEF AuthSent, OneAdapter, HasItsConn
  <2>3. Done(a, s, q)
    BY <1>7 DEF AuthSent, q
  <2>4. QED
    BY <2>2, <2>3, SessionDone
<1>8. CASE AuthNotSent(a, s)
  <2>1. Same(r, r)
    BY <1>1 DEF Same
  <2>2. Becomes(a, r)
    BY <1>8, AdapterIds DEF AuthNotSent, Becomes
  <2>. HIDE DEF r
  <2>3. OneAdapter(a, r)
    BY <1>1, <1>8, <2>1, SameRemains DEF AuthNotSent, OneAdapter, r
  <2>4. QED
    BY <1>8, <2>2, <2>3, SessionRejected, OneAdapterMoves DEF AuthNotSent
<1>9. QED
  BY <1>2, <1>3, <1>4, <1>5, <1>6, <1>7, <1>8 DEF SessionStep

\* A handler of WebSocket c, or of the interval, leaves its adapter as q.
LEMMA HandlerInv ==
    ASSUME OctoPrintInv, NEW a \in DOMAIN adapters, NEW q, Same(adapters[a], q),
           q.conn \in {0, adapters[a].conn}, Becomes(a, q),
           UNCHANGED <<rows, listed, session, taskVars>>,
           \/ ws' = ws
           \/ /\ \E c \in 1..MaxConns, st \in ConnStates :
                    ws' = [ws EXCEPT ![a][c] = st] /\ (q.conn # 0 => st # "none"),
           cached' \subseteq cached \cup Emittable
    PROVE  OctoPrintInv'
<1>1. /\ ws \in [DOMAIN adapters -> [1..MaxConns -> ConnStates]]
      /\ HasItsConn(adapters[a], ws[a])
      /\ session \in Sessions
  BY AdapterIds DEF OctoPrintInv
<1>2. HasItsConn(q, ws'[a])
  <2>1. CASE ws' = ws
    BY <1>1, <2>1 DEF HasItsConn
  <2>2. ASSUME NEW c \in 1..MaxConns, NEW st \in ConnStates,
               ws' = [ws EXCEPT ![a][c] = st], q.conn # 0, st # "none"
        PROVE  ws'[a][q.conn] # "none"
    <3>1. ws'[a] = [ws[a] EXCEPT ![c] = st]
      BY <1>1, <2>2
    <3>2. q.conn \in 1..MaxConns /\ ws[a][q.conn] # "none"
      <4>1. q.conn \in 0..MaxConns /\ q.conn = adapters[a].conn
        BY <2>2 DEF Same, Adapter
      <4>2. QED
        BY <1>1, <2>2, <4>1, SocketAssumption DEF HasItsConn
    <3>3. QED
      BY <1>1, <2>2, <3>1, <3>2
  <2>3. QED
    BY <2>1, <2>2 DEF HasItsConn
<1>3. OneAdapter(a, q)
  BY <1>2, SameRemains DEF OneAdapter, taskVars
<1>4. reauthing' \in BOOLEAN /\ session' \in Sessions
  BY <1>1 DEF taskVars, OctoPrintInv, SocketTypeOK
<1>5. QED
  BY <1>3, <1>4, OneAdapterMoves

LEMMA ConnInv ==
    ASSUME OctoPrintInv, NEW a \in DOMAIN adapters, NEW c \in 1..MaxConns,
           \/ ConnOpens(a, c) \/ ConnMessage(a, c) \/ ConnErrs(a, c)
           \/ ConnDies(a, c) \/ ConnCloses(a, c)
    PROVE  OctoPrintInv'
<1>. DEFINE r == adapters[a]
<1>1. r \in Adapter /\ adapters \in [DOMAIN adapters -> Adapter]
  BY AdapterIds DEF OctoPrintInv
<1>2. "authenticating" \in SocketStates /\ "error" \in SocketStates
      /\ "authenticated" \in SocketStates /\ "closed" \in SocketStates
  BY DEF SocketStates
<1>3. /\ "open" \in ConnStates /\ "ending" \in ConnStates
      /\ "dead" \in ConnStates /\ "none" \in ConnStates
  BY DEF ConnStates
<1>4. SocketTypeOK
  BY DEF OctoPrintInv
<1>5. CASE ConnOpens(a, c)
  <2>. DEFINE q == [r EXCEPT !.socket = "authenticating"]
  <2>1. Same(r, q) /\ q.conn = r.conn
    BY <1>1, <1>2, Records
  <2>. HIDE DEF q
  <2>2. Becomes(a, q)
    BY <1>5 DEF ConnOpens, q
  <2>3. QED
    BY <1>3, <1>5, <2>1, <2>2, HandlerInv DEF ConnOpens
<1>6. CASE ConnMessage(a, c)
  <2>. DEFINE q == [r EXCEPT !.socket = "authenticated", !.heard = "recent"]
              t == [q EXCEPT !.reauth = TRUE]
  <2>1. Same(r, q) /\ q.conn = r.conn
    BY <1>1, <1>2, Records
  <2>2. Same(q, t) /\ t.conn = q.conn
    BY <1>1, <1>2 DEF Same, Adapter
  <2>. HIDE DEF q, t
  <2>3. Same(r, t)
    BY <2>1, <2>2, SameTwice
  <2>4. (Becomes(a, q) \/ Becomes(a, t)) /\ cached' \in {cached, Emitted(a)}
    BY <1>6 DEF ConnMessage, q, t
  <2>5. UNCHANGED <<rows, listed, ws, session, taskVars>>
    BY <1>6 DEF ConnMessage
  <2>6. cached' \subseteq cached \cup Emittable
    BY <1>4, <2>4, EmittedIsEmittable
  <2>7. QED
    BY <2>1, <2>2, <2>3, <2>4, <2>5, <2>6, HandlerInv
<1>7. CASE ConnErrs(a, c)
  <2>. DEFINE q == [r EXCEPT !.socket = "error"]
  <2>1. Same(r, q) /\ q.conn = r.conn
    BY <1>1, <1>2, Records
  <2>. HIDE DEF q
  <2>2. Becomes(a, q)
    BY <1>7 DEF ConnErrs, q
  <2>3. QED
    BY <1>3, <1>7, <2>1, <2>2, HandlerInv DEF ConnErrs
<1>8. CASE ConnDies(a, c)
  <2>1. Same(r, r)
    BY <1>1 DEF Same
  <2>2. Becomes(a, r)
    BY <1>1, <1>8, Zenon DEF ConnDies, Becomes
  <2>. HIDE DEF r
  <2>3. QED
    BY <1>3, <1>8, <2>1, <2>2, HandlerInv DEF ConnDies, r
<1>9. CASE ConnCloses(a, c)
  <2>. DEFINE q == [r EXCEPT !.socket = "closed", !.conn = 0]
  <2>1. Same(r, q) /\ q.conn = 0
    <3>. 0 \in 0..MaxConns
      BY SocketAssumption
    <3>. QED
      BY <1>1, <1>2 DEF Same, Adapter
  <2>. HIDE DEF q
  <2>2. Becomes(a, q)
    BY <1>9 DEF ConnCloses, q
  <2>3. QED
    BY <1>3, <1>9, <2>1, <2>2, HandlerInv DEF ConnCloses
<1>10. QED
  BY <1>5, <1>6, <1>7, <1>8, <1>9

LEMMA IntervalInv ==
    ASSUME OctoPrintInv, NEW a \in DOMAIN adapters, Silence(a) \/ TickBegins(a) \/ TickEnds(a)
    PROVE  OctoPrintInv'
<1>. DEFINE r == adapters[a]
<1>1. r \in Adapter /\ SocketTypeOK
  BY AdapterIds DEF OctoPrintInv
<1>2. CASE Silence(a)
  <2>. DEFINE q == [r EXCEPT !.heard = "old"]
  <2>1. Same(r, q) /\ q.conn = r.conn
    BY <1>1, Records
  <2>. HIDE DEF q
  <2>2. Becomes(a, q)
    BY <1>2 DEF Silence, q
  <2>3. QED
    BY <1>2, <2>1, <2>2, HandlerInv DEF Silence
<1>3. CASE TickBegins(a)
  <2>. DEFINE q == [r EXCEPT !.tick = TRUE]
  <2>1. Same(r, q) /\ q.conn = r.conn
    BY <1>1, Records
  <2>. HIDE DEF q
  <2>2. Becomes(a, q)
    BY <1>3 DEF TickBegins, q
  <2>3. QED
    BY <1>3, <2>1, <2>2, HandlerInv DEF TickBegins
<1>4. CASE TickEnds(a)
  <2>1. PICK api \in ApiStates :
           CurrentState(a, api) /\ Becomes(a, [r EXCEPT !.api = api, !.tick = FALSE])
    BY <1>4 DEF TickEnds
  <2>. DEFINE q == [r EXCEPT !.api = api, !.tick = FALSE]
  <2>2. Same(r, q) /\ q.conn = r.conn
    BY <1>1, Records
  <2>. HIDE DEF q
  <2>3. Becomes(a, q) /\ cached' \subseteq cached \cup Emittable
    BY <1>1, <2>1, CurrentStateEmits DEF q
  <2>4. UNCHANGED <<rows, listed, ws, session, taskVars>>
    BY <1>4 DEF TickEnds
  <2>5. QED
    BY <2>2, <2>3, <2>4, HandlerInv
<1>5. QED
  BY <1>2, <1>3, <1>4

LEMMA RunStartsInv == ASSUME OctoPrintInv, RunStarts PROVE OctoPrintInv'
<1>1. SocketTypeOK /\ adapters \in [DOMAIN adapters -> Adapter] /\ session \in Sessions
  BY AdapterIds DEF OctoPrintInv
<1>2. \E A : \E why \in {"open", "reauth"} : Begin(adapters, session, A, why)
  BY DEF RunStarts
<1>3. reauthing' \in BOOLEAN /\ UNCHANGED <<rows, listed, ws, restore, cached>>
  BY DEF RunStarts
<1>4. /\ adapters' \in [DOMAIN adapters -> Adapter]
      /\ session' \in Sessions
      /\ \A a \in DOMAIN adapters :
            /\ adapters'[a].printer = adapters[a].printer
            /\ adapters'[a].silent = adapters[a].silent
            /\ adapters'[a].replaced = adapters[a].replaced
            /\ adapters'[a].conn = adapters[a].conn
  BY <1>1, <1>2, SessionsBegin
<1>5. \A a \in DOMAIN adapters :
         Remains(adapters[a], adapters'[a]) /\ HasItsConn(adapters'[a], ws'[a])
  BY <1>1, <1>3, <1>4, AdapterIds DEF Remains, HasItsConn
<1>6. QED
  BY <1>1, <1>3, <1>4, <1>5, AdapterIds, OnlyAdaptersMove DEF SocketTypeOK

-----------------------------------------------------------------------------
(* close                                                                   *)

\* Whatever else close is followed by, the adapter has no WebSocket then.
LEMMA CloseRecords ==
    ASSUME NEW r \in Adapter
    PROVE  /\ Same(r, Reset(Closed(r))) /\ Reset(Closed(r)).conn = 0
           /\ LET t == [Closed(r) EXCEPT !.replaced = TRUE]
              IN  /\ t \in Adapter /\ Remains(r, t) /\ t.conn = 0 /\ t.replaced
                  /\ t.printer = r.printer
           /\ Purged(r) \in Adapter /\ Remains(r, Purged(r)) /\ Purged(r).conn = 0
           /\ Purged(r).silent /\ Purged(r).printer = r.printer
<1>. 0 \in 0..MaxConns /\ "unopened" \in SocketStates /\ "unset" \in ApiStates
  BY SocketAssumption DEF SocketStates, ApiStates
<1>1. Same(r, Reset(Closed(r))) /\ Reset(Closed(r)).conn = 0
  BY DEF Reset, Closed, Same, Adapter
<1>2. LET t == [Closed(r) EXCEPT !.replaced = TRUE]
      IN  /\ t \in Adapter /\ Remains(r, t) /\ t.conn = 0 /\ t.replaced
          /\ t.printer = r.printer
  BY DEF Closed, Remains, Adapter
<1>3. /\ Purged(r) \in Adapter /\ Remains(r, Purged(r)) /\ Purged(r).conn = 0
      /\ Purged(r).silent /\ Purged(r).printer = r.printer
  BY DEF Closed, Purged, Remains, Adapter
<1>4. QED
  BY <1>1, <1>2, <1>3

LEMMA DroppedRemains ==
    ASSUME NEW a, NEW r, NEW q \in Adapter, Remains(r, q), q.conn = 0
    PROVE  /\ Dropped(a, q) \in Adapter /\ Remains(r, Dropped(a, q)) /\ Dropped(a, q).conn = 0
           /\ Dropped(a, q).silent = q.silent /\ Dropped(a, q).replaced = q.replaced
<1>. DEFINE t == [q EXCEPT !.socket = "closed"]
<1>1. Same(q, t) /\ t.conn = q.conn
  BY Records DEF SocketStates
<1>2. Dropped(a, q) \in {q, t}
  BY DEF Dropped
<1>. HIDE DEF t
<1>3. QED
  BY <1>1, <1>2 DEF Same, Remains

LEMMA CloseConnType ==
    ASSUME SocketTypeOK, NEW a \in DOMAIN adapters
    PROVE  CloseConn(a) \in [1..MaxConns -> ConnStates]
<1>1. ws[a] \in [1..MaxConns -> ConnStates]
  BY AdapterIds
<1>. DEFINE c == adapters[a].conn
<1>2. CASE c = 0
  BY <1>1, <1>2 DEF CloseConn
<1>3. CASE c # 0 /\ c \in 1..MaxConns
  <2>1. ws[a][c] \in ConnStates
    BY <1>1, <1>3
  <2>. DEFINE st == CASE ws[a][c] = "connecting" -> "none"
                      [] ws[a][c] = "open"       -> "closing"
                      [] ws[a][c] = "dead"       -> "ending"
                      [] OTHER                   -> ws[a][c]
  <2>2. st \in ConnStates
    BY <2>1 DEF ConnStates
  <2>3. CloseConn(a) = [ws[a] EXCEPT ![c] = st]
    BY <1>3 DEF CloseConn
  <2>. HIDE DEF st
  <2>4. QED
    BY <1>1, <2>2, <2>3
<1>4. c \in 0..MaxConns
  <2>1. adapters[a] \in Adapter
    BY AdapterIds
  <2>2. QED
    BY <2>1 DEF Adapter
<1>5. QED
  BY <1>2, <1>3, <1>4, SocketAssumption

-----------------------------------------------------------------------------
(* PrinterWebsocketRestoreTask                                             *)

\* A set of positions of a sequence that is not empty has a first one.
LEMMA FirstOf ==
    ASSUME NEW n \in Nat, NEW S \in SUBSET (1..n), S # {}
    PROVE  \E i \in S : \A k \in S : i <= k
<1>. DEFINE LT == {ss \in Nat \X Nat : ss[1] < ss[2]}
<1>1. S \subseteq Nat
  OBVIOUS
<1>2. IsWellFoundedOn(LT, Nat)
  BY NatLessThanWellFounded DEF OpToRel
<1>. HIDE DEF LT
<1>3. PICK i \in S : \A k \in S : ~(<<k, i>> \in LT)
  BY <1>1, <1>2, WFMin, Zenon
<1>4. ASSUME NEW k \in S PROVE i <= k
  <2>1. i \in Nat /\ k \in Nat
    BY <1>1
  <2>2. k < i => <<k, i>> \in LT
    BY <2>1 DEF LT
  <2>3. QED
    BY <1>3, <2>1, <2>2
<1>5. QED
  BY <1>4

LEMMA RestoreInv ==
    ASSUME OctoPrintInv, NEW L \in Seq(DOMAIN adapters), RestoreFrom(L)
    PROVE  OctoPrintInv'
<1>. DEFINE asked == {i \in 1..Len(L) : Asked(adapters[L[i]])}
            n     == CHOOSE i \in 1..(Len(L) + 1) :
                        /\ \A k \in asked : i <= k
                        /\ i \in asked \/ (asked = {} /\ i = Len(L) + 1)
            down  == {a \in {L[i] : i \in 1..(n - 1)} : IsClosedOrAborted(adapters[a])}
<1>1. Len(L) \in Nat /\ \A i \in 1..Len(L) : L[i] \in DOMAIN adapters
  BY LenProperties
<1>2. SocketTypeOK /\ adapters \in [DOMAIN adapters -> Adapter]
  BY AdapterIds DEF OctoPrintInv
<1>3. /\ adapters' = [a \in DOMAIN adapters |->
                        IF a \in down THEN Dropped(a, Reset(Closed(adapters[a])))
                        ELSE adapters[a]]
      /\ ws' = [a \in DOMAIN ws |-> IF a \in down THEN CloseConn(a) ELSE ws[a]]
      /\ restore' = SubSeq(L, n, Len(L))
      /\ UNCHANGED <<rows, listed, session, reauthing, cached>>
  BY DEF RestoreFrom
<1>4. n \in 1..(Len(L) + 1)
  <2>1. asked \in SUBSET (1..Len(L))
    OBVIOUS
  <2>. HIDE DEF asked
  <2>2. \E i \in 1..(Len(L) + 1) :
           (\A k \in asked : i <= k) /\ (i \in asked \/ (asked = {} /\ i = Len(L) + 1))
    <3>1. CASE asked = {}
      BY <1>1, <3>1
    <3>2. CASE asked # {}
      <4>1. PICK i \in asked : \A k \in asked : i <= k
        BY <1>1, <2>1, <3>2, FirstOf
      <4>2. QED
        BY <1>1, <2>1, <4>1
    <3>3. QED
      BY <3>1, <3>2
  <2>3. QED
    BY <2>2
<1>. HIDE DEF n, asked
<1>5. restore' \in Seq(DOMAIN adapters)
  <2>1. \A i \in n..Len(L) : L[i] \in DOMAIN adapters
    BY <1>1, <1>4
  <2>2. QED
    BY <1>1, <1>3, <1>4, <2>1, SubSeqProperties
<1>. HIDE DEF down
<1>6. ASSUME NEW a \in DOMAIN adapters
      PROVE  /\ adapters'[a] \in Adapter
             /\ Remains(adapters[a], adapters'[a])
             /\ HasItsConn(adapters'[a], ws'[a])
             /\ ws'[a] \in [1..MaxConns -> ConnStates]
  <2>. adapters[a] \in Adapter
    BY <1>2
  <2>1. CASE a \in down
    <3>1. adapters'[a] = Dropped(a, Reset(Closed(adapters[a])))
      BY <1>3, <2>1
    <3>. DEFINE q == Reset(Closed(adapters[a]))
    <3>2. q \in Adapter /\ Remains(adapters[a], q) /\ q.conn = 0
      BY CloseRecords, SameRemains
    <3>. HIDE DEF q
    <3>3. /\ Dropped(a, q) \in Adapter
          /\ Remains(adapters[a], Dropped(a, q)) /\ Dropped(a, q).conn = 0
      BY <3>2, DroppedRemains
    <3>4. ws'[a] = CloseConn(a)
      BY <1>2, <1>3, <2>1, AdapterIds
    <3>5. QED
      BY <1>2, <3>1, <3>3, <3>4, CloseConnType DEF HasItsConn, q
  <2>2. CASE a \notin down
    BY <1>2, <1>3, <2>2, AdapterIds DEF Remains
  <2>3. QED
    BY <2>1, <2>2
<1>7. /\ adapters' \in [DOMAIN adapters -> Adapter]
      /\ ws' \in [DOMAIN adapters -> [1..MaxConns -> ConnStates]]
  BY <1>2, <1>3, <1>6, AdapterIds
<1>8. session' \in Sessions /\ reauthing' \in BOOLEAN
  BY <1>2, <1>3, AdapterIds DEF SocketTypeOK
<1>9. QED
  BY <1>3, <1>5, <1>6, <1>7, <1>8, OnlyAdaptersMove

LEMMA TaskInv == ASSUME OctoPrintInv, TaskStep PROVE OctoPrintInv'
<1>1. SocketTypeOK
  BY DEF OctoPrintInv
<1>2. CASE RunStarts
  BY <1>2, RunStartsInv
<1>3. CASE RestoreStarts
  BY <1>1, <1>3, RestoreInv DEF RestoreStarts, SocketTypeOK
<1>4. CASE RestoreAnswered
  <2>1. Tail(restore) \in Seq(DOMAIN adapters)
    BY <1>1, <1>4, HeadTailProperties DEF RestoreAnswered, SocketTypeOK
  <2>2. QED
    BY <1>4, <2>1, RestoreInv DEF RestoreAnswered
<1>5. CASE RestoreFails
  <2>1. /\ restore' = << >>
        /\ UNCHANGED <<rows, listed, adapters, ws, session, reauthing, cached>>
    BY <1>5 DEF RestoreFails
  <2>2. restore' \in Seq(DOMAIN adapters)
    BY <2>1, EmptySeq
  <2>3. \A a \in DOMAIN adapters :
           Remains(adapters[a], adapters'[a]) /\ HasItsConn(adapters'[a], ws'[a])
    BY <1>1, <2>1, AdapterIds DEF Remains
  <2>4. QED
    BY <1>1, <2>1, <2>2, <2>3, AdapterIds, OnlyAdaptersMove DEF SocketTypeOK
<1>6. QED
  BY <1>2, <1>3, <1>4, <1>5 DEF TaskStep

-----------------------------------------------------------------------------
(* Requests of operators                                                   *)

LEMMA OneIsListed ==
    ASSUME SocketTypeOK, NEW p, NEW a \in AdaptersOf(p), NEW b \in AdaptersOf(p)
    PROVE  a = b
<1>1. PICK i \in 1..Len(listed), k \in 1..Len(listed) : a = listed[i] /\ b = listed[k]
  BY DEF AdaptersOf, Listed
<1>2. QED
  BY <1>1 DEF SocketTypeOK, AdaptersOf

\* l, of length n, without its element at position at
Without(l, n, at) == [i \in 1..(n - 1) |-> IF i < at THEN l[i] ELSE l[i + 1]]

IsWithout(m, D, l, n, at) ==
    /\ n - 1 \in Nat /\ m \in [1..(n - 1) -> D]
    /\ \A i \in 1..(n - 1) : \E k \in 1..n :
          k # at /\ m[i] = l[k] /\ k = (IF i < at THEN i ELSE i + 1)
    /\ \A k \in 1..n : k # at => \E i \in 1..(n - 1) : m[i] = l[k]

LEMMA Shortened ==
    ASSUME NEW D, NEW n \in Nat, NEW l \in [1..n -> D], NEW at \in 1..n
    PROVE  IsWithout(Without(l, n, at), D, l, n, at)
<1>. DEFINE m == Without(l, n, at)
<1>1. n - 1 \in Nat /\ \A i \in 1..(n - 1) : i \in 1..n /\ i + 1 \in 1..n
  OBVIOUS
<1>2. m \in [1..(n - 1) -> D]
  BY <1>1 DEF Without
<1>3. \A i \in 1..(n - 1) : \E k \in 1..n :
         k # at /\ m[i] = l[k] /\ k = (IF i < at THEN i ELSE i + 1)
  BY <1>1 DEF Without
<1>4. ASSUME NEW k \in 1..n, k # at PROVE \E i \in 1..(n - 1) : m[i] = l[k]
  <2>1. CASE k < at
    BY <2>1 DEF Without
  <2>2. CASE k > at
    <3>1. k - 1 \in 1..(n - 1) /\ ~(k - 1 < at) /\ (k - 1) + 1 = k
      BY <2>2
    <3>2. QED
      BY <3>1 DEF Without
  <2>3. QED
    BY <1>4, <2>1, <2>2
<1>5. QED
  BY <1>1, <1>2, <1>3, <1>4 DEF IsWithout

LEMMA Unlists ==
    ASSUME SocketTypeOK, NEW a \in Listed, listed' = Unlisted({a})
    PROVE  /\ listed' \in Seq(DOMAIN adapters)
           /\ Listed' = Listed \ {a}
           /\ \A i, k \in 1..Len(listed') :
                 adapters[listed'[i]].printer = adapters[listed'[k]].printer => i = k
<1>. DEFINE n  == Len(listed)
            at == CHOOSE i \in 1..n : listed[i] \in {a}
<1>1. n \in Nat /\ listed \in [1..n -> DOMAIN adapters]
  BY AdapterIds
<1>2. at \in 1..n /\ listed[at] = a
  BY DEF Listed
<1>3. listed' = Without(listed, n, at)
  BY DEF Unlisted, Without
<1>4. \A i, k \in 1..n :
         adapters[listed[i]].printer = adapters[listed[k]].printer => i = k
  BY DEF SocketTypeOK
<1>5. Listed = {listed[i] : i \in 1..n}
  BY DEF Listed
<1>. HIDE DEF at, n
<1>6. /\ n - 1 \in Nat /\ listed' \in [1..(n - 1) -> DOMAIN adapters]
      /\ \A i \in 1..(n - 1) : \E k \in 1..n :
            k # at /\ listed'[i] = listed[k] /\ k = (IF i < at THEN i ELSE i + 1)
      /\ \A k \in 1..n : k # at => \E i \in 1..(n - 1) : listed'[i] = listed[k]
  
  <2>1. IsWithout(Without(listed, n, at), DOMAIN adapters, listed, n, at)
    BY <1>1, <1>2, Shortened
  <2>2. IsWithout(listed', DOMAIN adapters, listed, n, at)
    BY <1>3, <2>1
  <2>3. QED
    BY <2>2 DEF IsWithout
<1>7. listed' \in Seq(DOMAIN adapters) /\ Len(listed') = n - 1
  BY <1>6, SeqOfFunction
<1>8. ASSUME NEW i \in 1..(n - 1), NEW k \in 1..(n - 1),
             adapters[listed'[i]].printer = adapters[listed'[k]].printer
      PROVE  i = k
  <2>1. PICK x \in 1..n : listed'[i] = listed[x] /\ x = (IF i < at THEN i ELSE i + 1)
    BY <1>6
  <2>2. PICK y \in 1..n : listed'[k] = listed[y] /\ y = (IF k < at THEN k ELSE k + 1)
    BY <1>6
  <2>3. x = y
    BY <1>4, <1>8, <2>1, <2>2
  <2>4. QED
    BY <1>1, <1>2, <2>1, <2>2, <2>3
<1>9. Listed' = {listed'[i] : i \in 1..(n - 1)}
  BY <1>7 DEF Listed
<1>10. Listed' = Listed \ {a}
  <2>1. ASSUME NEW b \in Listed, b # a PROVE b \in Listed'
    <3>1. PICK k \in 1..n : b = listed[k]
      BY <1>5
    <3>2. k # at
      BY <1>2, <2>1, <3>1
    <3>3. PICK i \in 1..(n - 1) : listed'[i] = b
      BY <1>6, <3>1, <3>2
    <3>4. QED
      BY <1>9, <3>3
  <2>2. ASSUME NEW b \in Listed' PROVE b \in Listed /\ b # a
    <3>1. PICK i \in 1..(n - 1) : b = listed'[i]
      BY <1>9
    <3>2. PICK k \in 1..n : k # at /\ b = listed[k]
      BY <1>6, <3>1
    <3>3. QED
      BY <1>2, <1>4, <1>5, <3>2
  <2>3. QED
    BY <2>1, <2>2
<1>11. QED
  BY <1>7, <1>8, <1>10

\* A request closes adapters and takes some from the Map, none to it.
LEMMA MapShrinks ==
    ASSUME OctoPrintInv, UNCHANGED <<session, taskVars>>,
           rows' \in [Printers -> {"enabled", "disabled", "other", "deleted"}],
           adapters' \in [DOMAIN adapters -> Adapter],
           ws' \in [DOMAIN adapters -> [1..MaxConns -> ConnStates]],
           \A a \in DOMAIN adapters :
              Remains(adapters[a], adapters'[a]) /\ HasItsConn(adapters'[a], ws'[a]),
           listed' \in Seq(DOMAIN adapters),
           \A i, k \in 1..Len(listed') :
              adapters[listed'[i]].printer = adapters[listed'[k]].printer => i = k,
           \A a \in Listed : a \in Listed' \/ adapters'[a].silent \/ adapters'[a].replaced,
           \A a \in Listed' : rows'[adapters[a].printer] # "deleted",
           cached' \subseteq cached,
           \A p \in Printers : rows'[p] = "deleted" /\ p \in cached' => rows[p] = "deleted"
    PROVE  OctoPrintInv'
<1>1. /\ Len(adapters) \in Nat
      /\ DOMAIN adapters = 1..Len(adapters)
      /\ session \in Sessions
  BY AdapterIds DEF OctoPrintInv
<1>2. adapters' \in Seq(Adapter) /\ Len(adapters') = Len(adapters)
  BY <1>1, SeqOfFunction
<1>3. DOMAIN adapters' = DOMAIN adapters
  OBVIOUS
<1>4. \A a \in DOMAIN adapters : adapters'[a].printer = adapters[a].printer
  BY DEF Remains
<1>5. listed' \in [1..Len(listed') -> DOMAIN adapters]
      /\ \A a \in Listed' : a \in DOMAIN adapters
  BY LenProperties DEF Listed
<1>6. \A i, k \in 1..Len(listed') :
         adapters'[listed'[i]].printer = adapters'[listed'[k]].printer => i = k
  BY <1>4, <1>5
<1>7. restore' = restore /\ reauthing' = reauthing /\ session' = session
  BY DEF taskVars
<1>8. SocketTypeOK'
  BY <1>1, <1>2, <1>3, <1>6, <1>7 DEF OctoPrintInv, SocketTypeOK, HasItsConn, Sessions
<1>9. LostAreSilent'
  BY <1>3 DEF OctoPrintInv, LostAreSilent, Remains
<1>10. DeletedAreUnlisted'
  BY <1>4, <1>5 DEF DeletedAreUnlisted
<1>11. DeletedStaysOut'
  BY <1>3 DEF OctoPrintInv, DeletedStaysOut, Remains
<1>12. QED
  BY <1>8, <1>9, <1>10, <1>11 DEF OctoPrintInv

\* deleteSocket leaves no adapter of p in the Map; its adapter is silent.
LEMMA DeletesSocket ==
    ASSUME OctoPrintInv, NEW p \in Printers, DeleteSocket(p), UNCHANGED <<session, taskVars>>,
           rows' \in [Printers -> {"enabled", "disabled", "other", "deleted"}],
           \A o \in Printers \ {p} : rows'[o] = rows[o],
           cached' \subseteq cached,
           rows'[p] = "deleted" => p \notin cached'
    PROVE  OctoPrintInv'
<1>1. /\ SocketTypeOK /\ adapters \in [DOMAIN adapters -> Adapter]
      /\ DOMAIN ws = DOMAIN adapters
      /\ Listed \subseteq DOMAIN adapters
  BY AdapterIds DEF OctoPrintInv
<1>2. ASSUME NEW a \in DOMAIN adapters
      PROVE  /\ adapters'[a] \in Adapter
             /\ Remains(adapters[a], adapters'[a])
             /\ HasItsConn(adapters'[a], ws'[a])
             /\ ws'[a] \in [1..MaxConns -> ConnStates]
             /\ a \in AdaptersOf(p) => adapters'[a].silent
  <2>. adapters[a] \in Adapter
    BY <1>1
  <2>1. CASE a \in AdaptersOf(p)
    <3>. DEFINE q == Purged(adapters[a])
    <3>1. adapters'[a] = Dropped(a, q) /\ ws'[a] = CloseConn(a)
      BY <1>1, <2>1 DEF DeleteSocket
    <3>2. q \in Adapter /\ Remains(adapters[a], q) /\ q.conn = 0 /\ q.silent
      BY CloseRecords
    <3>. HIDE DEF q
    <3>3. /\ Dropped(a, q) \in Adapter /\ Remains(adapters[a], Dropped(a, q))
          /\ Dropped(a, q).conn = 0 /\ Dropped(a, q).silent
      BY <3>2, DroppedRemains
    <3>4. QED
      BY <1>1, <3>1, <3>3, CloseConnType DEF HasItsConn
  <2>2. CASE a \notin AdaptersOf(p)
    <3>1. adapters'[a] = adapters[a] /\ ws'[a] = ws[a]
      BY <1>1, <2>2 DEF DeleteSocket
    <3>2. QED
      BY <1>1, <2>2, <3>1, AdapterIds DEF Remains
  <2>3. QED
    BY <2>1, <2>2
<1>3. /\ adapters' \in [DOMAIN adapters -> Adapter]
      /\ ws' \in [DOMAIN adapters -> [1..MaxConns -> ConnStates]]
  BY <1>1, <1>2 DEF DeleteSocket
<1>4. /\ listed' \in Seq(DOMAIN adapters)
      /\ Listed' = Listed \ AdaptersOf(p)
      /\ \A i, k \in 1..Len(listed') :
            adapters[listed'[i]].printer = adapters[listed'[k]].printer => i = k
  <2>1. CASE AdaptersOf(p) = {}
    <3>1. listed' = listed
      BY <2>1 DEF DeleteSocket, Unlisted
    <3>2. QED
      BY <1>1, <2>1, <3>1 DEF SocketTypeOK, Listed
  <2>2. CASE AdaptersOf(p) # {}
    <3>1. PICK a \in AdaptersOf(p) : AdaptersOf(p) = {a}
      BY <1>1, <2>2, OneIsListed
    <3>2. a \in Listed /\ listed' = Unlisted({a})
      BY <3>1 DEF DeleteSocket, AdaptersOf
    <3>3. QED
      BY <1>1, <3>1, <3>2, Unlists
  <2>3. QED
    BY <2>1, <2>2
<1>5. \A a \in Listed' : rows'[adapters[a].printer] # "deleted"
  BY <1>1, <1>4 DEF OctoPrintInv, DeletedAreUnlisted, AdaptersOf, Adapter
<1>6. \A o \in Printers : rows'[o] = "deleted" /\ o \in cached' => rows[o] = "deleted"
  OBVIOUS
<1>7. \A a \in Listed : a \in Listed' \/ adapters'[a].silent \/ adapters'[a].replaced
  BY <1>1, <1>2, <1>4
<1>8. QED
  BY <1>2, <1>3, <1>4, <1>5, <1>6, <1>7, MapShrinks

\* close and resetSocketState of an adapter of the Map
LEMMA ClosesAdapter ==
    ASSUME OctoPrintInv, NEW p \in Printers, NEW a \in AdaptersOf(p),
           Becomes(a, Dropped(a, Reset(Closed(adapters[a])))),
           ws' = [ws EXCEPT ![a] = CloseConn(a)],
           rows' = rows \/ rows' = [rows EXCEPT ![p] = "enabled"],
           UNCHANGED <<listed, session, taskVars, cached>>
    PROVE  OctoPrintInv'
<1>1. SocketTypeOK /\ a \in Listed
  BY DEF OctoPrintInv, AdaptersOf
<1>2. /\ adapters \in [DOMAIN adapters -> Adapter]
      /\ a \in DOMAIN adapters
      /\ ws \in [DOMAIN adapters -> [1..MaxConns -> ConnStates]]
      /\ \A b \in DOMAIN adapters : HasItsConn(adapters[b], ws[b])
      /\ \A b \in Listed : b \in DOMAIN adapters
  BY <1>1, AdapterIds
<1>. DEFINE q == Dropped(a, Reset(Closed(adapters[a])))
<1>3. q \in Adapter /\ Remains(adapters[a], q) /\ q.conn = 0
  <2>. DEFINE t == Reset(Closed(adapters[a]))
  <2>1. t \in Adapter /\ Remains(adapters[a], t) /\ t.conn = 0
    BY <1>2, CloseRecords, SameRemains
  <2>. HIDE DEF t
  <2>2. Dropped(a, t) \in Adapter /\ Remains(adapters[a], Dropped(a, t)) /\ Dropped(a, t).conn = 0
    BY <2>1, DroppedRemains
  <2>3. QED
    BY <2>2 DEF t
<1>4. adapters' = [adapters EXCEPT ![a] = q]
  BY DEF Becomes
<1>. HIDE DEF q
<1>5. /\ adapters' \in [DOMAIN adapters -> Adapter]
      /\ adapters'[a] = q
      /\ \A b \in DOMAIN adapters : b # a => adapters'[b] = adapters[b]
  BY <1>2, <1>3, <1>4
<1>6. /\ ws' \in [DOMAIN adapters -> [1..MaxConns -> ConnStates]]
      /\ \A b \in DOMAIN adapters : b # a => ws'[b] = ws[b]
  BY <1>1, <1>2, CloseConnType
<1>7. \A b \in DOMAIN adapters :
         Remains(adapters[b], adapters'[b]) /\ HasItsConn(adapters'[b], ws'[b])
  BY <1>2, <1>3, <1>5, <1>6 DEF Remains, HasItsConn
<1>8. /\ rows' \in [Printers -> {"enabled", "disabled", "other", "deleted"}]
      /\ \A o \in Printers : rows'[o] = "deleted" => rows[o] = "deleted"
  BY <1>1 DEF SocketTypeOK
<1>9. Listed' = Listed
  BY DEF Listed
<1>10. \A b \in Listed' : rows'[adapters[b].printer] # "deleted"
  BY <1>2, <1>8, <1>9 DEF OctoPrintInv, DeletedAreUnlisted, Adapter
<1>11. /\ listed' \in Seq(DOMAIN adapters)
       /\ \A i, k \in 1..Len(listed') :
             adapters[listed'[i]].printer = adapters[listed'[k]].printer => i = k
  BY <1>1 DEF SocketTypeOK
<1>12. QED
  BY <1>5, <1>6, <1>7, <1>8, <1>9, <1>10, <1>11, MapShrinks

IsAppended(m, S, f, n, e) ==
    m \in [1..(n + 1) -> S] /\ m[n + 1] = e /\ \A i \in 1..n : m[i] = f[i]

LEMMA Appended ==
    ASSUME NEW S, NEW n \in Nat, NEW f \in [1..n -> S], NEW e \in S
    PROVE  IsAppended(Append(f, e), S, f, n, e)
<1>1. f \in Seq(S) /\ Len(f) = n
  BY SeqOfFunction
<1>. DEFINE m == Append(f, e)
<1>2. /\ m \in Seq(S) /\ Len(m) = n + 1
      /\ \A i \in 1..n : m[i] = f[i]
      /\ m[n + 1] = e
  BY <1>1, AppendProperties
<1>. HIDE DEF m
<1>3. m \in [1..(n + 1) -> S]
  BY <1>2, LenProperties
<1>4. QED
  BY <1>2, <1>3 DEF IsAppended, m

LEMMA ReconnectInv == ASSUME OctoPrintInv, NEW p \in Printers, Reconnect(p) PROVE OctoPrintInv'
<1>1. PICK a \in AdaptersOf(p) :
         /\ Becomes(a, Dropped(a, Reset(Closed(adapters[a]))))
         /\ ws' = [ws EXCEPT ![a] = CloseConn(a)]
  BY DEF Reconnect
<1>2. UNCHANGED <<rows, listed, session, taskVars, cached>>
  BY DEF Reconnect
<1>3. QED
  BY <1>1, <1>2, ClosesAdapter

LEMMA DisableInv == ASSUME OctoPrintInv, NEW p \in Printers, Disable(p) PROVE OctoPrintInv'
<1>1. rows \in [Printers -> {"enabled", "disabled", "other", "deleted"}]
  BY DEF OctoPrintInv, SocketTypeOK
<1>2. rows' = [rows EXCEPT ![p] = "disabled"] /\ DeleteSocket(p)
      /\ UNCHANGED <<session, taskVars, cached>>
  BY DEF Disable
<1>3. QED
  BY <1>1, <1>2, DeletesSocket

LEMMA DeleteInv == ASSUME OctoPrintInv, NEW p \in Printers, Delete(p) PROVE OctoPrintInv'
<1>1. rows \in [Printers -> {"enabled", "disabled", "other", "deleted"}]
  BY DEF OctoPrintInv, SocketTypeOK
<1>2. rows' = [rows EXCEPT ![p] = "deleted"] /\ DeleteSocket(p) /\ cached' = cached \ {p}
      /\ UNCHANGED <<session, taskVars>>
  BY DEF Delete
<1>3. QED
  BY <1>1, <1>2, DeletesSocket

LEMMA ChangeTypeInv == ASSUME OctoPrintInv, NEW p \in Printers, ChangeType(p) PROVE OctoPrintInv'
<1>. DEFINE gone(a) == [Closed(adapters[a]) EXCEPT !.replaced = TRUE]
<1>1. PICK a \in AdaptersOf(p) :
         /\ Becomes(a, Dropped(a, gone(a)))
         /\ ws' = [ws EXCEPT ![a] = CloseConn(a)]
         /\ listed' = Unlisted({a})
  BY DEF ChangeType
<1>2. /\ rows' = [rows EXCEPT ![p] = "other"]
      /\ UNCHANGED <<session, taskVars, cached>>
  BY DEF ChangeType
<1>3. SocketTypeOK /\ a \in Listed /\ adapters[a].printer = p
  BY <1>1 DEF OctoPrintInv, AdaptersOf
<1>4. /\ adapters \in [DOMAIN adapters -> Adapter]
      /\ a \in DOMAIN adapters
      /\ ws \in [DOMAIN adapters -> [1..MaxConns -> ConnStates]]
      /\ \A b \in DOMAIN adapters : HasItsConn(adapters[b], ws[b])
      /\ \A b \in Listed : b \in DOMAIN adapters
  BY <1>3, AdapterIds
<1>. DEFINE q == Dropped(a, gone(a))
<1>5. q \in Adapter /\ Remains(adapters[a], q) /\ q.conn = 0 /\ q.replaced
  <2>. DEFINE t == gone(a)
  <2>1. t \in Adapter /\ Remains(adapters[a], t) /\ t.conn = 0 /\ t.replaced
    BY <1>4, CloseRecords
  <2>. HIDE DEF t
  <2>2. /\ Dropped(a, t) \in Adapter /\ Remains(adapters[a], Dropped(a, t))
        /\ Dropped(a, t).conn = 0 /\ Dropped(a, t).replaced
    BY <2>1, DroppedRemains
  <2>3. QED
    BY <2>2 DEF t
<1>6. adapters' = [adapters EXCEPT ![a] = q]
  BY <1>1 DEF Becomes
<1>. HIDE DEF q
<1>7. /\ adapters' \in [DOMAIN adapters -> Adapter]
      /\ adapters'[a] = q
      /\ \A b \in DOMAIN adapters : b # a => adapters'[b] = adapters[b]
  BY <1>4, <1>5, <1>6
<1>8. /\ ws' \in [DOMAIN adapters -> [1..MaxConns -> ConnStates]]
      /\ \A b \in DOMAIN adapters : b # a => ws'[b] = ws[b]
  BY <1>1, <1>3, <1>4, CloseConnType
<1>9. \A b \in DOMAIN adapters :
         Remains(adapters[b], adapters'[b]) /\ HasItsConn(adapters'[b], ws'[b])
  BY <1>4, <1>5, <1>7, <1>8 DEF Remains, HasItsConn
<1>10. /\ listed' \in Seq(DOMAIN adapters)
       /\ Listed' = Listed \ {a}
       /\ \A i, k \in 1..Len(listed') :
             adapters[listed'[i]].printer = adapters[listed'[k]].printer => i = k
  BY <1>1, <1>3, Unlists
<1>11. /\ rows' \in [Printers -> {"enabled", "disabled", "other", "deleted"}]
       /\ \A o \in Printers : rows'[o] = "deleted" => rows[o] = "deleted"
  BY <1>2, <1>3 DEF SocketTypeOK
<1>12. \A b \in Listed' : rows'[adapters[b].printer] # "deleted"
  BY <1>4, <1>10, <1>11 DEF OctoPrintInv, DeletedAreUnlisted, Adapter
<1>13. \A b \in Listed : b \in Listed' \/ adapters'[b].silent \/ adapters'[b].replaced
  BY <1>5, <1>7, <1>10
<1>14. QED
  BY <1>2, <1>7, <1>8, <1>9, <1>10, <1>11, <1>12, <1>13, MapShrinks

\* A new adapter, of a printer the Map has none of
LEMMA CreatesAdapter ==
    ASSUME OctoPrintInv, NEW p \in Printers, AdaptersOf(p) = {},
           Len(adapters) < MaxAdapters,
           rows' = [rows EXCEPT ![p] = "enabled"],
           adapters' = Append(adapters, NewAdapter(p)),
           ws' = Append(ws, NoConns),
           session' = Append(session, NoSessions),
           listed' = Append(listed, Len(adapters) + 1),
           UNCHANGED <<taskVars, cached>>
    PROVE  OctoPrintInv'
<1>. DEFINE n == Len(adapters)
            m == Len(listed)
<1>1. /\ SocketTypeOK
      /\ n \in Nat /\ DOMAIN adapters = 1..n /\ adapters \in [1..n -> Adapter]
      /\ m \in Nat /\ listed \in [1..m -> 1..n] /\ Listed \subseteq 1..n
      /\ ws \in [1..n -> [1..MaxConns -> ConnStates]]
      /\ session \in [1..n -> [1..MaxSessions -> Session]]
      /\ \A a \in 1..n : HasItsConn(adapters[a], ws[a])
  BY AdapterIds DEF OctoPrintInv, Sessions
<1>2. NewAdapter(p) \in Adapter /\ NewAdapter(p).conn = 0 /\ NewAdapter(p).printer = p
  <2>. 0 \in 0..MaxConns
    BY SocketAssumption
  <2>. QED
    BY DEF NewAdapter, Adapter, SocketStates, ApiStates
<1>3. /\ adapters' \in [1..(n + 1) -> Adapter]
      /\ adapters'[n + 1] = NewAdapter(p)
      /\ \A a \in 1..n : adapters'[a] = adapters[a]
  <2>1. IsAppended(adapters', Adapter, adapters, n, NewAdapter(p))
    BY <1>1, <1>2, Appended
  <2>2. QED
    BY <2>1 DEF IsAppended
<1>. n + 1 \in Nat /\ m + 1 \in Nat
  BY <1>1
<1>4. adapters' \in Seq(Adapter) /\ Len(adapters') = n + 1 /\ DOMAIN adapters' = 1..(n + 1)
  BY <1>1, <1>3, SeqOfFunction
<1>5. /\ ws' \in [1..(n + 1) -> [1..MaxConns -> ConnStates]]
      /\ \A a \in 1..n : ws'[a] = ws[a]
  <2>1. NoConns \in [1..MaxConns -> ConnStates]
    BY DEF NoConns, ConnStates
  <2>2. IsAppended(ws', [1..MaxConns -> ConnStates], ws, n, NoConns)
    BY <1>1, <2>1, Appended
  <2>3. QED
    BY <2>2 DEF IsAppended
<1>6. session' \in [1..(n + 1) -> [1..MaxSessions -> Session]]
  <2>1. NoSessions \in [1..MaxSessions -> Session]
    BY DEF NoSessions, NoSession, Session
  <2>2. IsAppended(session', [1..MaxSessions -> Session], session, n, NoSessions)
    BY <1>1, <2>1, Appended
  <2>3. QED
    BY <2>2 DEF IsAppended
<1>7. /\ listed' \in [1..(m + 1) -> 1..(n + 1)]
      /\ listed'[m + 1] = n + 1
      /\ \A i \in 1..m : listed'[i] = listed[i]
  <2>1. listed \in [1..m -> 1..(n + 1)] /\ n + 1 \in 1..(n + 1)
    BY <1>1
  <2>2. IsAppended(listed', 1..(n + 1), listed, m, n + 1)
    BY <1>1, <2>1, Appended
  <2>3. QED
    BY <2>2 DEF IsAppended
<1>8. listed' \in Seq(1..(n + 1)) /\ Len(listed') = m + 1
  <2>. DEFINE D == 1..(n + 1)
  <2>1. listed' \in [1..(m + 1) -> D]
    BY <1>7
  <2>. HIDE DEF D
  <2>2. listed' \in Seq(D) /\ Len(listed') = m + 1
    BY <2>1, SeqOfFunction
  <2>3. QED
    BY <2>2 DEF D
<1>9. Listed = {listed[i] : i \in 1..m} /\ Listed' = {listed'[i] : i \in 1..(m + 1)}
  BY <1>8 DEF Listed
<1>10. \A a, b \in 1..m : adapters[listed[a]].printer = adapters[listed[b]].printer => a = b
  BY <1>1 DEF SocketTypeOK
<1>11. rows' \in [Printers -> {"enabled", "disabled", "other", "deleted"}]
       /\ \A o \in Printers : rows'[o] = "deleted" => rows[o] = "deleted" /\ o # p
  BY <1>1 DEF SocketTypeOK
<1>12. \A i \in 1..m : adapters[listed[i]].printer # p
  BY <1>9 DEF AdaptersOf
<1>13. n + 1 <= MaxAdapters
  BY <1>1, SocketAssumption
<1>14. restore' \in Seq(1..(n + 1)) /\ reauthing' \in BOOLEAN /\ cached' \subseteq Printers
  <2>1. restore \in Seq(1..n) /\ 1..n \subseteq 1..(n + 1)
    BY <1>1 DEF SocketTypeOK
  <2>2. restore \in Seq(1..(n + 1))
    BY <2>1, SeqMonotonic
  <2>3. QED
    BY <1>1, <2>2 DEF SocketTypeOK, taskVars
<1>. HIDE DEF n, m
<1>15. Listed' = Listed \cup {n + 1}
  <2>1. ASSUME NEW b \in Listed' PROVE b \in Listed \cup {n + 1}
    <3>1. PICK i \in 1..(m + 1) : b = listed'[i]
      BY <1>9
    <3>2. CASE i = m + 1
      BY <1>7, <3>1, <3>2
    <3>3. CASE i \in 1..m
      BY <1>7, <1>9, <3>1, <3>3
    <3>4. QED
      BY <1>1, <3>2, <3>3
  <2>2. \A i \in 1..m : i \in 1..(m + 1)
    BY <1>1
  <2>3. m + 1 \in 1..(m + 1)
    BY <1>1
  <2>4. QED
    BY <1>7, <1>9, <2>1, <2>2, <2>3
<1>16. \A i, k \in 1..(m + 1) :
          adapters'[listed'[i]].printer = adapters'[listed'[k]].printer => i = k
  <2>1. \A i \in 1..m : adapters'[listed'[i]].printer = adapters[listed[i]].printer
    BY <1>1, <1>3, <1>7
  <2>2. adapters'[listed'[m + 1]].printer = p
    BY <1>2, <1>3, <1>7
  <2>3. \A i \in 1..(m + 1) : i = m + 1 \/ i \in 1..m
    BY <1>1
  <2>4. ASSUME NEW i \in 1..(m + 1), NEW k \in 1..(m + 1),
               adapters'[listed'[i]].printer = adapters'[listed'[k]].printer
        PROVE  i = k
    <3>1. CASE i \in 1..m /\ k \in 1..m
      BY <1>10, <2>1, <2>4, <3>1
    <3>2. CASE i = m + 1 /\ k = m + 1
      BY <3>2
    <3>3. CASE i \in 1..m /\ k = m + 1
      BY <1>12, <2>1, <2>2, <2>4, <3>3
    <3>4. CASE i = m + 1 /\ k \in 1..m
      BY <1>12, <2>1, <2>2, <2>4, <3>4
    <3>5. QED
      BY <2>3, <3>1, <3>2, <3>3, <3>4
  <2>5. QED
    BY <2>4
<1>17. \A a \in 1..(n + 1) : a = n + 1 \/ a \in 1..n
  BY <1>1
<1>18. \A a \in 1..(n + 1) : adapters'[a].conn # 0 => ws'[a][adapters'[a].conn] # "none"
  BY <1>1, <1>2, <1>3, <1>5, <1>17 DEF HasItsConn
<1>19. SocketTypeOK'
  BY <1>4, <1>5, <1>6, <1>8, <1>11, <1>13, <1>14, <1>16, <1>18 DEF SocketTypeOK, n
<1>20. LostAreSilent'
  BY <1>1, <1>3, <1>4, <1>15, <1>17 DEF OctoPrintInv, LostAreSilent
<1>21. DeletedAreUnlisted'
  BY <1>1, <1>2, <1>3, <1>11, <1>15 DEF OctoPrintInv, DeletedAreUnlisted, Adapter
<1>22. DeletedStaysOut'
  <2>1. ASSUME NEW o \in Printers, rows'[o] = "deleted", o \in cached'
        PROVE  \E a \in DOMAIN adapters' : adapters'[a].printer = o /\ adapters'[a].replaced
    <3>1. PICK a \in 1..n : adapters[a].printer = o /\ adapters[a].replaced
      BY <1>1, <1>11, <2>1 DEF OctoPrintInv, DeletedStaysOut
    <3>2. a \in 1..(n + 1)
      BY <1>1
    <3>3. QED
      BY <1>3, <1>4, <3>1, <3>2
  <2>2. QED
    BY <2>1 DEF DeletedStaysOut
<1>23. QED
  BY <1>19, <1>20, <1>21, <1>22 DEF OctoPrintInv

LEMMA UpdateInv == ASSUME OctoPrintInv, NEW p \in Printers, Update(p) PROVE OctoPrintInv'
<1>1. CASE AdaptersOf(p) # {}
  <2>1. PICK a \in AdaptersOf(p) :
           /\ Becomes(a, Dropped(a, Reset(Closed(adapters[a]))))
           /\ ws' = [ws EXCEPT ![a] = CloseConn(a)]
           /\ UNCHANGED <<listed, session>>
    BY <1>1 DEF Update
  <2>2. QED
    BY <2>1, ClosesAdapter DEF Update
<1>2. CASE AdaptersOf(p) = {}
  BY <1>2, CreatesAdapter DEF Update
<1>3. QED
  BY <1>1, <1>2

-----------------------------------------------------------------------------

LEMMA OctoPrintInvNext == OctoPrintInv /\ [SocketNext]_socketVars => OctoPrintInv'
<1>. SUFFICES ASSUME OctoPrintInv, [SocketNext]_socketVars PROVE OctoPrintInv'
  OBVIOUS
<1>1. CASE UNCHANGED socketVars
  BY <1>1
  DEF socketVars, taskVars, OctoPrintInv, SocketTypeOK, DeletedStaysOut, LostAreSilent,
      DeletedAreUnlisted, Listed
<1>2. CASE TaskStep
  BY <1>2, TaskInv
<1>3. ASSUME NEW a \in DOMAIN adapters, AdapterStep(a) PROVE OctoPrintInv'
  BY <1>3, SessionInv, ConnInv, IntervalInv DEF AdapterStep
<1>4. CASE OperatorStep
  BY <1>4, ReconnectInv, DisableInv, DeleteInv, UpdateInv, ChangeTypeInv DEF OperatorStep
<1>5. QED
  BY <1>1, <1>2, <1>3, <1>4 DEF SocketNext

\* The two kinds of adapters share nothing: a step of one is none of the other.
WebsocketInv == OctoPrintInv /\ MoonrakerInv

LEMMA WebsocketInvHolds == FairWebsocketSpec => []WebsocketInv
<1>1. WebsocketInit => WebsocketInv
  BY OctoPrintInvInit, MoonrakerInvInit DEF WebsocketInit, WebsocketInv
<1>2. WebsocketInv /\ [WebsocketNext]_websocketVars => WebsocketInv'
  <2>1. [WebsocketNext]_websocketVars =>
           [SocketNext]_socketVars /\ [Moonraker!MoonrakerNext]_moonrakerVars
    BY DEF WebsocketNext, websocketVars, OfOctoPrint, OfMoonraker
  <2>2. QED
    BY <2>1, OctoPrintInvNext, MoonrakerInvNext DEF WebsocketInv
<1>3. QED
  BY <1>1, <1>2, PTL DEF FairWebsocketSpec

\* The adapters, their WebSockets and setups are of their types, the Map has
\* at most one adapter of a printer, and an adapter's WebSocket has not closed
\* (PrinterSocketStore; the adapters' connection state).
THEOREM SocketsType == FairWebsocketSpec => [](SocketTypeOK /\ Moonraker!MoonrakerTypeOK)
<1>1. WebsocketInv => SocketTypeOK /\ Moonraker!MoonrakerTypeOK
  BY DEF WebsocketInv, OctoPrintInv, MoonrakerInv
<1>2. QED
  BY <1>1, WebsocketInvHolds, PTL

\* A deleted printer enters the events cache again through no setup, poll or
\* closing connection that was under way (deleteSocket, emitEvent,
\* PrinterEventsCache), whatever the number of printers and adapters.
THEOREM SocketsDeleted == FairWebsocketSpec => []DeletedStaysOut
<1>1. WebsocketInv => DeletedStaysOut
  BY DEF WebsocketInv, OctoPrintInv
<1>2. QED
  BY <1>1, WebsocketInvHolds, PTL

\* A request kept in requestMap has the timer that will remove it
\* (WebsocketRpcExtendedAdapter's sendRequest, clearRequest and
\* clearAllRequests), whatever the number of WebSockets.
THEOREM SocketsTimed == FairWebsocketSpec => []RequestsAreTimed
<1>1. WebsocketInv => RequestsAreTimed
  BY DEF WebsocketInv, MoonrakerInv, RequestsAreTimed
<1>2. QED
  BY <1>1, WebsocketInvHolds, PTL

=============================================================================
