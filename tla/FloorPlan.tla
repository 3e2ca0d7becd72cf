----------------------------- MODULE FloorPlan ------------------------------
(***************************************************************************)
(* FloorService, FloorPositionService and FloorStore: floors, the places   *)
(* of printers on them, and the copy of both that clients are shown.       *)
(*                                                                         *)
(* A place is the row of floor_position of its printer: the table has at   *)
(* most one per printer and one per cell of a floor.  The order of floors  *)
(* is left out.                                                            *)
(***************************************************************************)
EXTENDS PrinterTable

CONSTANTS
    FloorNames,
    Cells,           \* the x and y of places
    MaxFloors        \* bound: floors ever created

ASSUME FloorAssumption == MaxFloors \in Nat

VARIABLES
    floors,          \* names of floors, by id
    lastFloor,
    places,          \* floor and cell, by printer
    floorStore       \* KeyDiffCache of [name, shown], shown: cells by printer

floorVars == <<floors, lastFloor, places, floorStore>>

FloorIds == 1..MaxFloors

Place == [floor : FloorIds, cell : Cells]

FloorTypeOK ==
    /\ PrinterTypeOK
    /\ lastFloor \in 0..MaxFloors
    /\ DOMAIN floors \subseteq 1..lastFloor
    /\ floors \in [DOMAIN floors -> FloorNames]
    /\ DOMAIN places \subseteq DOMAIN printers
    /\ places \in [DOMAIN places -> Place]
    /\ \A p \in DOMAIN places : places[p].floor \in DOMAIN floors
    /\ DOMAIN floorStore.values \subseteq DOMAIN floors
    /\ DiffsOf(floorStore)

FloorInit ==
    /\ NoPrinters
    /\ floors = [f \in {} |-> ""]
    /\ lastFloor = 0
    /\ places = [p \in {} |-> ""]
    /\ floorStore = EmptyCache

-----------------------------------------------------------------------------
(* Places.  The operators take and return the table of places.             *)

Without(pl, ps) == WithoutValues(pl, ps)

With(fn, key, value) == [k \in DOMAIN fn \cup {key} |-> IF k = key THEN value ELSE fn[k]]

At(pl, f, c) == {p \in DOMAIN pl : pl[p] = [floor |-> f, cell |-> c]}

On(pl, f) == {p \in DOMAIN pl : pl[p].floor = f}

\* What addOrUpdatePrinter deletes before it inserts: the printer's own place,
\* and whoever is at the cell
Cleared(pl, f, p, c) == Without(pl, {p} \cup At(pl, f, c))

Moved(pl, f, p, c) == With(Cleared(pl, f, p, c), p, [floor |-> f, cell |-> c])

\* addOrUpdatePrinter for each of the wanted <<printer, cell>>, in the order
\* of the file's ids of the printers
MovedAll(pl, f, wanted) ==
    LET moved[i \in 0..MaxPrinters] ==
            IF i = 0 THEN pl
            ELSE IF i \in DOMAIN wanted THEN Moved(moved[i - 1], f, wanted[i][1], wanted[i][2])
            ELSE moved[i - 1]
    IN  moved[MaxPrinters]

\* The places of a floor that is updated to hold the wanted ones only; an
\* empty list of wanted ones leaves the floor as it is.
Updating(pl, f, wanted) ==
    IF DOMAIN wanted = {} THEN pl
    ELSE LET stay == {wanted[i][1] : i \in DOMAIN wanted}
         IN  Without(MovedAll(pl, f, wanted), On(pl, f) \ stay)

-----------------------------------------------------------------------------
(* The store.                                                              *)

\* toDto of a floor of the tables that are given
FloorDto(names, pl, f) == [name |-> names[f], shown |-> [p \in On(pl, f) |-> pl[p].cell]]

\* Fault: a floor that is in the store is not written again.
ShownOnce(store, names, pl, f) ==
    IF f \in DOMAIN store.values THEN store ELSE SetKey(store, f, FloorDto(names, pl, f))

\* What every request that returns a floor leaves in the store
Shown(store, names, pl, f) == SetKey(store, f, FloorDto(names, pl, f))

\* loadStore: floors that are gone from the table would stay.
Loaded(store, names, pl) == SetKeys(store, [f \in DOMAIN names |-> FloorDto(names, pl, f)])

-----------------------------------------------------------------------------
(* Requests about floors.                                                  *)

\* create of a floor without printers
CreateFloor(name) ==
    /\ lastFloor < MaxFloors
    /\ lastFloor' = lastFloor + 1
    /\ floors' = With(floors, lastFloor', name)
    /\ floorStore' = Shown(floorStore, floors', places, lastFloor')
    /\ UNCHANGED <<printerVars, places>>

\* create with a printer to place; each further one is AddPrinterToFloor.  A
\* printer that does not exist ends the request in the middle: the floor is in
\* the table and not in the store.
CreateFloorWith(name, p, c) ==
    /\ lastFloor < MaxFloors
    /\ lastFloor' = lastFloor + 1
    /\ floors' = With(floors, lastFloor', name)
    /\ IF p \in DOMAIN printers
       THEN /\ places' = Moved(places, lastFloor', p, c)
            /\ floorStore' = Shown(floorStore, floors', places', lastFloor')
       ELSE UNCHANGED <<places, floorStore>>
    /\ UNCHANGED printerVars

RenameFloor(f, name) ==
    /\ f \in DOMAIN floors
    /\ floors' = [floors EXCEPT ![f] = name]
    /\ floorStore' = Shown(floorStore, floors', places, f)
    /\ UNCHANGED <<printerVars, lastFloor, places>>

\* A printer that does not exist takes the place of whoever is at the cell,
\* and the insertion fails.
AddPrinterToFloor(f, p, c) ==
    /\ f \in DOMAIN floors
    /\ IF p \in DOMAIN printers
       THEN /\ places' = Moved(places, f, p, c)
            /\ floorStore' = Shown(floorStore, floors, places', f)
       ELSE /\ places' = Cleared(places, f, p, c)
            /\ UNCHANGED floorStore
    /\ UNCHANGED <<printerVars, floors, lastFloor>>

\* The second "get" finds the floor, as the place refers to it.
RemovePrinterFromFloor(f, p) ==
    /\ p \in On(places, f)
    /\ f \in DOMAIN floors
    /\ places' = Without(places, {p})
    /\ floorStore' = Shown(floorStore, floors, places', f)
    /\ UNCHANGED <<printerVars, floors, lastFloor>>

\* The deletion of a floor cascades to its places.
Emptied(pl, f) == Without(pl, On(pl, f))

DeleteFloor(f) ==
    /\ f \in DOMAIN floors
    /\ floors' = WithoutValues(floors, {f})
    /\ places' = Emptied(places, f)
    /\ floorStore' = DeleteKeys(floorStore, {f})
    /\ UNCHANGED <<printerVars, lastFloor>>

\* getFloor loads a floor the store lacks, listCache all if it has none.
GetFloor(f) ==
    /\ f \in DOMAIN floors \ DOMAIN floorStore.values
    /\ floorStore' = Shown(floorStore, floors, places, f)
    /\ UNCHANGED <<printerVars, floors, lastFloor, places>>

ListedStore ==
    IF floorStore.values = EmptyCache.values THEN Loaded(floorStore, floors, places) ELSE floorStore

-----------------------------------------------------------------------------
(* Requests about printers.                                                *)

AddPrinter(row) ==
    /\ CreatePrinter(row)
    /\ UNCHANGED floorVars

\* Deletions cascade to places; only that of one printer reloads
\* the store.
RemovePrinters(ps, reload) ==
    /\ ps # {}
    /\ BecomesState(Deleted(State, ps))
    /\ places' = Without(places, ps)
    /\ floorStore' = IF reload THEN Loaded(floorStore, floors, places') ELSE floorStore
    /\ UNCHANGED <<floors, lastFloor>>

-----------------------------------------------------------------------------

\* A floor that clients are shown shows each printer that is on it, at its
\* cell, whatever failed or was deleted before.  It may go on showing one that
\* has left.
PlacesAreShown ==
    \A p \in DOMAIN places :
        LET f == places[p].floor
        IN  f \in DOMAIN floorStore.values =>
                /\ p \in DOMAIN floorStore.values[f].shown
                /\ floorStore.values[f].shown[p] = places[p].cell

=============================================================================
