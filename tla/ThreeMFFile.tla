------------------------------ MODULE ThreeMFFile ------------------------------
(***************************************************************************)
(* ThreeMFParser: a 3MF file is a zip whose entries are the metadata of    *)
(* the whole file, in one of two notations, the G-code of each plate, and  *)
(* images.  What it gives is the metadata of the plates, and that of the   *)
(* file made from it; analyzeMultiPlate3MF gives one for each plate.       *)
(*                                                                         *)
(* Of the metadata, "time" stands for what is added up over the plates,    *)
(* "layers" for what is the largest of them, and "shared" for what is      *)
(* taken from the first.                                                   *)
(***************************************************************************)
EXTENDS Integers, Sequences, FiniteSetsExt, Functions

VARIABLES
    entries,       \* the zip's entries: [kind, plate, values]
    mfPhase,
    entry,         \* the entry of the plate to be read next
    plates,
    images,        \* the entries of the file's thumbnails
    top            \* the metadata of the file

threemfVars == <<entries, mfPhase, entry, plates, images, top>>

\* A value that is not there is None; a number that is 0 is not.
None == -1

NoValues == [time |-> None, layers |-> None, shared |-> None]

MetadataValue == Nat \cup {None}

ZipEntry == [kind : {"json", "model", "plate", "image"}, plate : Nat,
             values : [time : MetadataValue, layers : MetadataValue, shared : MetadataValue]]

\* No two plates of a file have the same number.
Archive == {a \in Seq(ZipEntry) :
              \A i, k \in DOMAIN a :
                 a[i].kind = "plate" /\ a[k].kind = "plate" /\ a[i].plate = a[k].plate => i = k}

OrElse(v, w) == IF v = None THEN w ELSE v

OrZero(v) == OrElse(v, 0)

ThreeMFInit(archives) ==
    /\ entries \in archives
    /\ mfPhase = "metadata"
    /\ entry = 1
    /\ plates = << >>
    /\ images = {}
    /\ top = NoValues

EntriesOf(kind) == {i \in DOMAIN entries : entries[i].kind = kind}

First(I) == CHOOSE i \in I : \A k \in I : i <= k

\* metadata.json, whose number of layers is not taken over, or else the model's
\* XML, whose keys are in lower case where parse looks for others ("printtime"
\* for printTime): nothing but the slicer's name is found.
ReadMetadata ==
    /\ mfPhase = "metadata"
    /\ top' = IF EntriesOf("json") = {} THEN NoValues
              ELSE [entries[First(EntriesOf("json"))].values EXCEPT !.layers = None]
    /\ mfPhase' = "plates"
    /\ UNCHANGED <<entries, entry, plates, images>>

\* The name of an image of plate n includes "plate_n": so does that of any
\* plate whose number begins with n.
ImagesOf(n) == {i \in EntriesOf("image") : entries[i].plate = n \/ entries[i].plate \div 10 = n}

Plate(i) == [number |-> entries[i].plate, values |-> entries[i].values,
             images |-> ImagesOf(entries[i].plate)]

\* One pass of the loop of extractPlates
ReadPlate ==
    /\ mfPhase = "plates"
    /\ entry <= Len(entries)
    /\ entry' = entry + 1
    /\ plates' = IF entries[entry].kind # "plate" THEN plates
                 ELSE Append(plates, Plate(entry))
    /\ UNCHANGED <<entries, mfPhase, images, top>>

\* order[i] is the i-th plate by number, and of equal ones by place.
IsSorted(order) ==
    \A i, k \in DOMAIN plates :
       i < k => \/ plates[order[i]].number < plates[order[k]].number
                \/ plates[order[i]].number = plates[order[k]].number /\ order[i] < order[k]

\* ... and their sort by number
SortPlates ==
    /\ mfPhase = "plates"
    /\ entry > Len(entries)
    /\ \E order \in Bijection(DOMAIN plates, DOMAIN plates) :
          /\ IsSorted(order)
          /\ plates' = [i \in DOMAIN plates |-> plates[order[i]]]
    /\ mfPhase' = "thumbnails"
    /\ UNCHANGED <<entries, entry, images, top>>

ExtractThumbnails ==
    /\ mfPhase = "thumbnails"
    /\ images' = EntriesOf("image")
    /\ mfPhase' = "normalize"
    /\ UNCHANGED <<entries, entry, plates, top>>

PlateValues(field) == [i \in DOMAIN plates |-> OrZero(plates[i].values[field])]

\* Fault: the largest is looked for among some of the plates only.
LargestButLast(seq) == Max({seq[i] : i \in 1..(Len(seq) - 1)})

\* The sum of the first k values
Total(seq, k) ==
    LET total[i \in 0..Len(seq)] == IF i = 0 THEN 0 ELSE total[i - 1] + seq[i]
    IN  total[k]

Largest(seq) == Max({seq[i] : i \in DOMAIN seq})

\* One plate gives the file what it has itself; several give it the sum or
\* the largest of what they have, and the first what they share.
Normalize ==
    /\ mfPhase = "normalize"
    /\ top' =
          IF plates = << >> THEN top
          ELSE LET first == plates[1].values
               IN  IF Len(plates) = 1
                   THEN [time   |-> OrElse(first.time, top.time),
                         layers |-> OrElse(first.layers, top.layers),
                         shared |-> OrElse(first.shared, top.shared)]
                   ELSE [time   |-> Total(PlateValues("time"), Len(plates)),
                         layers |-> Largest(PlateValues("layers")),
                         shared |-> OrElse(first.shared, top.shared)]
    /\ mfPhase' = "done"
    /\ UNCHANGED <<entries, entry, plates, images>>

\* analyzeMultiPlate3MF
PerPlate ==
    IF Len(plates) <= 1 THEN <<top>>
    ELSE [i \in DOMAIN plates |-> [plates[i].values EXCEPT !.shared = top.shared]]

ThreeMFNext == ReadMetadata \/ ReadPlate \/ SortPlates \/ ExtractThumbnails \/ Normalize

-----------------------------------------------------------------------------
(* Properties.                                                             *)

\* What each of the zip's entries adds to the time
PrintTimes ==
    [e \in DOMAIN entries |-> IF entries[e].kind = "plate" THEN OrZero(entries[e].values.time) ELSE 0]

\* When a file has been parsed its plates are in the order of their numbers,
\* each with its own images; the file's values are what the plates come to,
\* and those given for each plate come to the same.
PlatesAddUp ==
    mfPhase = "done" =>
        /\ Len(plates) = Cardinality(EntriesOf("plate"))
        /\ \A i, k \in DOMAIN plates : i < k => plates[i].number < plates[k].number
        /\ \A i \in DOMAIN plates :
              /\ {e \in EntriesOf("image") : entries[e].plate = plates[i].number} \subseteq plates[i].images
              /\ \E e \in EntriesOf("plate") : /\ entries[e].plate = plates[i].number
                                               /\ entries[e].values = plates[i].values
        /\ Len(plates) > 1 =>
              /\ top.time = Total(PrintTimes, Len(entries))
              /\ \A e \in EntriesOf("plate") : top.layers >= OrZero(entries[e].values.layers)
              /\ \E i \in DOMAIN PerPlate : top.layers = OrZero(PerPlate[i].layers)

=============================================================================
