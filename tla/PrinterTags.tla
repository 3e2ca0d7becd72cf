---------------------------- MODULE PrinterTags -----------------------------
(***************************************************************************)
(* PrinterTagService: tags, and the links between tags and printers, which *)
(* the deletion of either takes along.  Names and colours are left out.    *)
(***************************************************************************)
EXTENDS PrinterTable

CONSTANTS MaxTags    \* bound: tags ever created

ASSUME TagAssumption == MaxTags \in Nat

VARIABLES
    tags,            \* ids of the tags there are
    lastTag,
    links            \* printer_tag: pairs of a tag and a printer

tagVars == <<tags, lastTag, links>>

TagTypeOK ==
    /\ lastTag \in 0..MaxTags
    /\ tags \subseteq 1..lastTag
    /\ links \subseteq tags \X (DOMAIN printers)

TagInit == tags = {} /\ lastTag = 0 /\ links = {}

CreateTag ==
    /\ lastTag < MaxTags
    /\ lastTag' = lastTag + 1
    /\ tags' = tags \cup {lastTag'}
    /\ UNCHANGED links

\* What is left of the links when tags or printers are deleted
LinksOf(ts, table) == {l \in links : l[1] \in ts /\ l[2] \in DOMAIN table}

DeleteTag(t) ==
    /\ t \in tags
    /\ tags' = tags \ {t}
    /\ links' = LinksOf(tags', printers)
    /\ UNCHANGED lastTag

\* addPrinterToTag; a link that is there is kept, one to a printer or tag
\* that is not there is refused.
AddPrinterToTag(t, p) ==
    /\ t \in tags
    /\ p \in DOMAIN printers
    /\ links' = links \cup {<<t, p>>}
    /\ UNCHANGED <<tags, lastTag>>

RemovePrinterFromTag(t, p) ==
    /\ t \in tags
    /\ links' = links \ {<<t, p>>}
    /\ UNCHANGED <<tags, lastTag>>

TagNext ==
    \/ CreateTag
    \/ \E t \in tags :
          \/ DeleteTag(t)
          \/ \E p \in PrinterIds : AddPrinterToTag(t, p) \/ RemovePrinterFromTag(t, p)

=============================================================================
