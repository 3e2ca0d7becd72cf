----------------------------- MODULE PrinterLinks -----------------------------
(***************************************************************************)
(* One printer, of any brand, to which files are uploaded: the uploadFile  *)
(* of each brand's API with the FileUploadTrackerCache that follows it by  *)
(* the events it emits, beside the adapter of a Bambu or PrusaLink printer *)
(* (those of the other brands are OctoPrintSockets and MoonrakerSockets).  *)
(*                                                                         *)
(* A request has an API object of its own, and a Bambu request an FTP      *)
(* client of its own, which is connected at the first use.  Only the start *)
(* of a print goes over the adapter's MQTT client.                         *)
(*                                                                         *)
(* The other requests to printers, BambuFiles and PrusaLinkRequests, and   *)
(* the tests of TestPrinterSocket share no state with the adapters and the *)
(* uploads, nor with each other: a behaviour is of one of the four, its    *)
(* scene.                                                                  *)
(***************************************************************************)
EXTENDS BambuSockets, PrusaLinkPolling, BambuFiles, PrusaLinkRequests, TestPrinterSocket

CONSTANT MaxUploads    \* bound: uploads

ASSUME LinkAssumption == MaxUploads \in Nat

VARIABLES
    scene,         \* the part of the server that acts
    brand,         \* the printer's type
    supported,     \* the setting that switches support for the type on
    uploads,       \* the requests: where each is, and whether it is to print
    tracker,       \* currentUploads, by token
    transfer,      \* what has become of each file on its way to the printer
    ftp            \* ftpClient of each request's API

uploadVars == <<uploads, tracker, transfer, ftp>>
besideVars == <<ftpVars, requestVars, testVars>>
linkVars   == <<bambuVars, prusaVars, brand, supported, uploadVars, besideVars, scene>>

Scenes == {"links", "files", "requests", "tests"}

Brands == {"octoprint", "moonraker", "prusalink", "bambu"}

\* The awaits of uploadFile: the length of the form or the FTP connection,
\* the transfer, the command to print
UploadStep == {"prepare", "transfer", "print", "succeeded", "failed"}

TrackedUpload == [progress : BOOLEAN, completed : BOOLEAN, success : {"null", "true", "false"}]

LinkTypeOK ==
    /\ BambuTypeOK
    /\ PrusaTypeOK
    /\ FtpTypeOK
    /\ RequestTypeOK
    /\ TestTypeOK
    /\ scene \in Scenes
    /\ brand \in Brands
    /\ supported \in BOOLEAN
    /\ DOMAIN uploads \in SUBSET (1..MaxUploads)
    /\ uploads \in [DOMAIN uploads -> [at : UploadStep, start : BOOLEAN]]
    /\ tracker \in [DOMAIN uploads -> TrackedUpload]
    /\ transfer \in [DOMAIN uploads -> {"none", "done", "failed"}]
    /\ ftp \in [DOMAIN uploads -> {"null", "open"}]
    /\ \A t \in DOMAIN uploads : tracker[t].completed <=> tracker[t].success # "null"

LinkInit ==
    /\ BambuInit
    /\ PrusaInit
    /\ FtpInit
    /\ RequestInit
    /\ TestInit
    /\ scene \in Scenes
    /\ brand \in Brands
    /\ supported \in BOOLEAN
    /\ brand = "octoprint" => supported
    \* What a scene does not look at is not varied.
    /\ scene # "links" => brand = "octoprint" /\ supported /\ bambu.registered
    /\ scene # "requests" => login = [needed |-> TRUE, right |-> TRUE]
    /\ uploads = << >>
    /\ tracker = << >>
    /\ transfer = << >>
    /\ ftp = << >>

-----------------------------------------------------------------------------
(* FileUploadTrackerCache                                                  *)

NewTracker == [progress |-> FALSE, completed |-> FALSE, success |-> "null"]

\* Fault: the event of one upload's end marks every upload.
MarkAllDone(t, success) ==
    [u \in DOMAIN tracker |->
        [tracker[u] EXCEPT !.completed = TRUE, !.success = IF success THEN "true" ELSE "false"]]

\* markUploadDone, on the events done and failed
MarkUploadDone(t, success) ==
    [tracker EXCEPT ![t].completed = TRUE, ![t].success = IF success THEN "true" ELSE "false"]

-----------------------------------------------------------------------------
(* uploadPrinterFile, from its token to the end of printerApi.uploadFile   *)

\* Without support for the type there is no API object, and calling it throws.
UploadBegins ==
    /\ Len(uploads) < MaxUploads
    /\ \E start \in BOOLEAN :
          uploads' = Append(uploads, [at    |-> IF ~supported THEN "failed"
                                                ELSE IF brand = "prusalink" THEN "transfer"
                                                ELSE "prepare",
                                      start |-> start])
    /\ tracker' = Append(tracker, NewTracker)
    /\ transfer' = Append(transfer, "none")
    /\ ftp' = Append(ftp, "null")

Goes(t, at) == uploads' = [uploads EXCEPT ![t].at = at]

\* getLength of the form, or ensureFtpConnected.  Its failure is before the
\* part that emits an event.
Prepared(t) ==
    /\ uploads[t].at = "prepare"
    /\ \/ Goes(t, "transfer") /\ ftp' = [ftp EXCEPT ![t] = IF brand = "bambu" THEN "open" ELSE @]
       \/ Goes(t, "failed") /\ UNCHANGED ftp
    /\ UNCHANGED <<tracker, transfer>>

Progressed(t) ==
    /\ uploads[t].at = "transfer"
    /\ tracker' = [tracker EXCEPT ![t].progress = TRUE]
    /\ UNCHANGED <<uploads, transfer, ftp>>

\* A Bambu request goes on to start the print; the others have it started by
\* the upload itself.
Transferred(t) ==
    /\ uploads[t].at = "transfer"
    /\ transfer' = [transfer EXCEPT ![t] = "done"]
    /\ tracker' = MarkUploadDone(t, TRUE)
    /\ Goes(t, IF brand = "bambu" /\ uploads[t].start THEN "print" ELSE "succeeded")
    /\ UNCHANGED ftp

TransferFails(t) ==
    /\ uploads[t].at = "transfer"
    /\ transfer' = [transfer EXCEPT ![t] = "failed"]
    /\ tracker' = MarkUploadDone(t, FALSE)
    /\ Goes(t, "failed")
    /\ UNCHANGED ftp

\* sendCommand, which throws when the client is not connected
PrintStarted(t) ==
    /\ uploads[t].at = "print"
    /\ \E at \in IF IsConnected(bambu.client) THEN {"succeeded", "failed"} ELSE {"failed"} : Goes(t, at)
    /\ UNCHANGED <<tracker, transfer, ftp>>

UploadNext ==
    \/ UploadBegins
    \/ \E t \in DOMAIN uploads :
          \/ Prepared(t) \/ Progressed(t) \/ Transferred(t) \/ TransferFails(t) \/ PrintStarted(t)

-----------------------------------------------------------------------------

\* The printer's adapter is that of its type, made if the type is supported.
OfBambu(A) ==
    /\ scene = "links" /\ brand = "bambu" /\ supported
    /\ A
    /\ UNCHANGED <<prusaVars, brand, supported, uploadVars, besideVars, scene>>

OfPrusaLink(A) ==
    /\ scene = "links" /\ brand = "prusalink" /\ supported
    /\ A
    /\ UNCHANGED <<bambuVars, brand, supported, uploadVars, besideVars, scene>>

LinkNext ==
    \/ OfBambu(BambuNext)
    \/ OfPrusaLink(PrusaNext)
    \/ /\ scene = "links"
       /\ UploadNext
       /\ UNCHANGED <<bambuVars, prusaVars, brand, supported, besideVars, scene>>
    \/ /\ UNCHANGED <<bambuVars, prusaVars, brand, supported, uploadVars, scene>>
       /\ \/ scene = "files" /\ FtpNext /\ UNCHANGED <<requestVars, testVars>>
          \/ scene = "requests" /\ RequestNext /\ UNCHANGED <<ftpVars, testVars>>
          \/ scene = "tests" /\ TestNext /\ UNCHANGED <<ftpVars, requestVars>>

\* Timers fire, and what an MQTT client attempts ends.
LinkFairness ==
    /\ WF_linkVars(OfBambu(BambuRunStarts))
    /\ WF_linkVars(OfPrusaLink(PrusaRunStarts))
    /\ \A c \in Clients :
          /\ WF_linkVars(OfBambu(ClientConnects(c)))
          /\ WF_linkVars(OfBambu(ClientRetries(c)))
          /\ WF_linkVars(OfBambu(clients[c].st = "ending" /\ ClientCloses(c)))
          /\ WF_linkVars(OfBambu(EndCallback(c)))
          /\ WF_linkVars(OfBambu(TimeoutFires(c)))

FairLinkSpec == LinkInit /\ [][LinkNext]_linkVars /\ LinkFairness

-----------------------------------------------------------------------------
(* Properties.                                                             *)

\* An upload's tracker says that it succeeded, or failed, exactly when its
\* file has come to the printer, or the transfer has failed, whatever became
\* of the other uploads and of the request (which may yet fail to print).
TrackerTellsTransfers ==
    \A t \in DOMAIN uploads :
        /\ tracker[t].success = "true"  <=> transfer[t] = "done"
        /\ tracker[t].success = "false" <=> transfer[t] = "failed"

=============================================================================
