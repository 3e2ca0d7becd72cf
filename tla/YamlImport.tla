----------------------------- MODULE YamlImport -----------------------------
(***************************************************************************)
(* YamlService: the export of printers, floors and places to a file, and   *)
(* the import of such a file into whatever the server holds by then.       *)
(*                                                                         *)
(* A file is what exportYaml makes of a state, and is imported with the    *)
(* comparison strategies the client chose: by name, or by one that finds   *)
(* nothing ("id" is accepted and compared nowhere), when all is new.  Only *)
(* complete files can be imported: normalizeYamlData fails on one without  *)
(* printers, floors or places.  Tags, users and settings are left out.     *)
(***************************************************************************)
EXTENDS FloorPlan, FiniteSetsExt, TLC

VARIABLES
    file,            \* the file last exported
    answer           \* what the last request answered, if it was an import

yamlVars == <<printerVars, floorVars, file, answer>>

Empty == [x \in {} |-> ""]

\* printers: rows by id; floors: dtos by id
NoFile == [printers |-> Empty, floors |-> Empty]

\* from and to: printerIdMap and floorIdMap, and the file
NoAnswer == [printers |-> Empty, floors |-> Empty, file |-> NoFile]

YamlInit == FloorInit /\ file = NoFile /\ answer = NoAnswer

\* The floors are those of the store, the rest is read from the tables.
ExportYaml ==
    /\ floorStore' = ListedStore
    /\ file' = [printers |-> printers,
                floors   |-> floorStore'.values]
    /\ answer' = NoAnswer
    /\ UNCHANGED <<printerVars, floors, lastFloor, places>>

-----------------------------------------------------------------------------
(* The import.                                                             *)

\* The entries that match nothing are inserted.
New(matches) == {i \in DOMAIN matches : matches[i] = 0}

\* The how manieth of the entries S is i?
Rank(i, S) == Cardinality({j \in S : j <= i})

\* analysePrintersUpsert, analyseFloorsUpsert: the first of the ids that has
\* the name, of those there were before the import; 0 for none
Match(names, name, byName) ==
    LET same == {i \in DOMAIN names : byName /\ names[i] = name}
    IN  IF same = {} THEN 0 ELSE Min(same)

\* The entries to insert get the ids after "last", in order; the others the
\* id of what they match.
IdMap(entries, matches, last) ==
    [i \in DOMAIN entries |->
        IF i \in New(matches) THEN last + Rank(i, New(matches)) ELSE matches[i]]

\* Fault: the ids of the file are taken for those of the server.
SameIds(entries, matches, last) == [i \in DOMAIN entries |-> i]

PrinterIdMap(entries, matches, last) == IdMap(entries, matches, last)

\* Printers to insert are created in order, then those that match are updated
\* in order: of two for one printer the last stays.
ImportedPrinters(rows, matches) ==
    LET new     == New(matches)
        created == CreatedAll(State, [k \in 1..Cardinality(new) |->
                                         rows[CHOOSE i \in new : Rank(i, new) = k]])
        old     == DOMAIN rows \ new
        last(p) == Max({i \in old : matches[i] = p})
    IN  Updated(created, [p \in {matches[i] : i \in old} |-> rows[last(p)]])

\* The places of a floor of the file, with the printers' new ids; a place of
\* a printer the file lacks is discarded.
WantedOn(dto, map) == [i \in DOMAIN dto.shown \cap DOMAIN map |-> <<map[i], dto.shown[i]>>]

\* create or update, in order, of those of the file's floors that are in "some"
Placed(pl, dtos, some, floorMap, map) ==
    LET placed[i \in 0..MaxFloors] ==
            IF i = 0 THEN pl
            ELSE IF i \in some THEN Updating(placed[i - 1], floorMap[i], WantedOn(dtos[i], map))
            ELSE placed[i - 1]
    IN  placed[MaxFloors]

\* The floors to insert come first, on floors that have no places yet.
ImportedPlaces(dtos, matches, floorMap, map) ==
    LET new == New(matches)
    IN  Placed(Placed(places, dtos, new, floorMap, map), dtos, DOMAIN dtos \ new, floorMap, map)

ImportYaml(printersByName, floorsByName) ==
    LET rows     == file.printers
        pMatches == [i \in DOMAIN rows |->
                        Match([p \in DOMAIN printers |-> printers[p].name], rows[i].name, printersByName)]
        map      == PrinterIdMap(rows, pMatches, lastPrinter)
        dtos     == file.floors
        fMatches == [i \in DOMAIN dtos |-> Match(floors, dtos[i].name, floorsByName)]
        floorMap == IdMap(dtos, fMatches, lastFloor)
        added    == Cardinality(New(fMatches))
    IN  /\ file # NoFile
        /\ lastFloor + added <= MaxFloors
        /\ BecomesState(ImportedPrinters(rows, pMatches))
        /\ lastFloor' = lastFloor + added
        /\ floors' = [f \in DOMAIN floors \cup {floorMap[i] : i \in DOMAIN dtos} |->
                         IF f \in DOMAIN floors THEN floors[f]
                         ELSE dtos[CHOOSE i \in DOMAIN dtos : floorMap[i] = f].name]
        /\ places' = ImportedPlaces(dtos, fMatches, floorMap, map)
        /\ floorStore' = Loaded(floorStore, floors', places')
        /\ answer' = [printers |-> map, floors |-> floorMap, file |-> file]
        /\ UNCHANGED file

\* A new process loads the printers and the floors.
Reboot ==
    /\ printerCache' = ReloadedCache
    /\ floorStore' = Loaded(EmptyCache, floors, places)
    /\ answer' = NoAnswer
    /\ UNCHANGED <<printers, lastPrinter, floors, lastFloor, places, file>>

NewRows == {r \in PrinterRow : r.enabled /\ ~r.rested}

FloorRequest ==
    \/ \E n \in FloorNames : CreateFloor(n)
    \/ \E n \in FloorNames, p \in PrinterIds, c \in Cells : CreateFloorWith(n, p, c)
    \/ \E f \in FloorIds :
          \/ GetFloor(f) \/ DeleteFloor(f)
          \/ \E n \in FloorNames : RenameFloor(f, n)
          \/ \E p \in PrinterIds : RemovePrinterFromFloor(f, p) \/ \E c \in Cells : AddPrinterToFloor(f, p, c)

YamlNext ==
    \/ FloorRequest /\ UNCHANGED file /\ answer' = NoAnswer
    \/ (\E row \in NewRows : AddPrinter(row)) /\ UNCHANGED file /\ answer' = NoAnswer
    \/ (\E p \in Cached : RemovePrinters({p}, TRUE)) /\ UNCHANGED file /\ answer' = NoAnswer
    \/ RemovePrinters(Cached, FALSE) /\ UNCHANGED file /\ answer' = NoAnswer
    \/ ExportYaml
    \/ \E byName, floorsByName \in BOOLEAN : ImportYaml(byName, floorsByName)
    \/ Reboot

YamlSpec == YamlInit /\ [][YamlNext]_yamlVars

\* For TLC: names, cells and the names of floors are only compared.
Symmetry == Permutations(Names) \cup Permutations(Cells) \cup Permutations(FloorNames)

-----------------------------------------------------------------------------
(* Properties.                                                             *)

\* A file from which an import is unambiguous: no two printers or floors have
\* one name, and no printer is shown on two floors (a store that is behind
\* the table exports that).
Unambiguous(f) ==
    /\ \A p, q \in DOMAIN f.printers : f.printers[p].name = f.printers[q].name => p = q
    /\ \A i, j \in DOMAIN f.floors :
          \/ i = j
          \/ /\ f.floors[i].name # f.floors[j].name
             /\ DOMAIN f.floors[i].shown \cap DOMAIN f.floors[j].shown = {}

\* After an import, whatever the server held before and whichever ids it has
\* given since the export, each printer of the file is there under its name,
\* and stands where the file had it, on the floor that was made or found for
\* the file's.
ImportRestoresPlaces ==
    LET f == answer.file
    IN  Unambiguous(f) =>
           /\ \A p \in DOMAIN f.printers :
                 /\ answer.printers[p] \in DOMAIN printers
                 /\ printers[answer.printers[p]].name = f.printers[p].name
           /\ \A i \in DOMAIN f.floors :
                 \A p \in DOMAIN f.floors[i].shown \cap DOMAIN f.printers :
                     /\ answer.printers[p] \in DOMAIN places
                     /\ places[answer.printers[p]] =
                           [floor |-> answer.floors[i], cell |-> f.floors[i].shown[p]]

=============================================================================
