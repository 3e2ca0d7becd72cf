------------------------------ MODULE FileParsers ------------------------------
(***************************************************************************)
(* FileAnalysisService.analyzeFile: by the end of its name a file is given *)
(* to one of the parsers, and an unknown name is refused.  The expansion   *)
(* of one block or image, which the parsers ask of HeatshrinkDecoder and   *)
(* QoiDecoder, are cases of their own ("block" and "image").               *)
(***************************************************************************)
EXTENDS BGCodeFile, HeatshrinkDecoder, QoiDecoder, GCodeFile, ThreeMFFile

CONSTANTS BGCodeFiles, Encodings, Images, GCodeFiles, Archives   \* what there is to parse

ASSUME ParserAssumption ==
    /\ MaxHeaderLines \in Nat \ {0}
    /\ BGCodeFiles \subseteq BGCode /\ BGCodeFiles # {}
    /\ Archives \subseteq Archive /\ Archives # {}
    /\ \A e \in Encodings : IsEncoding(e)
    /\ Encodings # {}
    /\ Images \subseteq Seq(Pixel) /\ Images # {}
    /\ GCodeFiles \subseteq Seq(Line) /\ GCodeFiles # {}

VARIABLES
    extension,     \* the end of the file's name
    analysis       \* analyzeFile: "begun", or how it has ended

parserVars == <<bgcodeVars, hsVars, qoiVars, gcodeVars, threemfVars, extension, analysis>>

Extensions == {".3mf", ".gcode.3mf", ".bgcode", ".gcode", ".g", ".gco", "", "block", "image"}

\* getFileFormat throws for another name.
FileFormat(ext) ==
    CASE ext \in {".3mf", ".gcode.3mf"}   -> "3mf"
      [] ext = ".bgcode"                  -> "bgcode"
      [] ext \in {".gcode", ".g", ".gco"} -> "gcode"
      [] OTHER                            -> ext

\* There is one file; of the other formats one is fixed and not looked at.
Only(format, files) ==
    IF FileFormat(extension) = format THEN files ELSE {CHOOSE f \in files : TRUE}

ParserInit ==
    /\ extension \in Extensions
    /\ analysis = "begun"
    /\ BGCodeInit(Only("bgcode", BGCodeFiles))
    /\ HeatshrinkInit(Only("block", Encodings))
    /\ QoiInit(Only("image", Images))
    /\ GCodeInit(Only("gcode", GCodeFiles))
    /\ ThreeMFInit(Only("3mf", Archives))

Ends(format, phase, how) ==
    /\ FileFormat(extension) = format
    /\ phase
    /\ analysis' = how
    /\ UNCHANGED <<bgcodeVars, hsVars, qoiVars, gcodeVars, threemfVars>>

Parses(format, A) == FileFormat(extension) = format /\ A /\ UNCHANGED analysis

ParserNext ==
    /\ analysis = "begun"
    /\ \/ Parses("bgcode", BGCodeNext /\ UNCHANGED <<hsVars, qoiVars, gcodeVars, threemfVars>>)
       \/ Parses("block", HeatshrinkNext /\ UNCHANGED <<bgcodeVars, qoiVars, gcodeVars, threemfVars>>)
       \/ Parses("image", DecodeChunk /\ UNCHANGED <<bgcodeVars, hsVars, gcodeVars, threemfVars>>)
       \/ Parses("gcode", GCodeNext /\ UNCHANGED <<bgcodeVars, hsVars, qoiVars, threemfVars>>)
       \/ Parses("3mf", ThreeMFNext /\ UNCHANGED <<bgcodeVars, hsVars, qoiVars, gcodeVars>>)
       \/ Ends("bgcode", bgPhase = "failed", "failed")
       \/ Ends("bgcode", bgPhase = "done", "done")
       \/ Ends("block", hsState = "stopped", "done")
       \/ Ends("image", pixels = image, "done")
       \/ Ends("gcode", gPhase = "done", "done")
       \/ Ends("3mf", mfPhase = "done", "done")
       \/ Ends("", TRUE, "failed")
    /\ UNCHANGED extension

ParserSpec == ParserInit /\ [][ParserNext]_parserVars

=============================================================================
