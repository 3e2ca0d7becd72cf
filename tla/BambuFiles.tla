------------------------------ MODULE BambuFiles ------------------------------
(***************************************************************************)
(* BambuApi, BambuClient and BambuFtpAdapter over the files of a Bambu     *)
(* printer: a request has an API object and an FTP connection of its own.  *)
(* A download goes to a copy in the folder of uploads, which is streamed   *)
(* from there and removed when the stream closes.  The copy is named by    *)
(* the milliseconds of its beginning and the file's name, so that          *)
(* downloads of files of the same name in the same millisecond share it.   *)
(***************************************************************************)
EXTENDS Integers, Sequences

CONSTANTS
    MaxFtpRequests,    \* bound: requests
    MaxMillis          \* bound: the clock

ASSUME FtpAssumption == MaxFtpRequests \in Nat \ {0} /\ MaxMillis \in Nat

VARIABLES
    millis,        \* Date.now()
    stored,        \* whether the printer has the file
    ftpRequests,   \* the requests: the operation, where it is, its copy's name
    ftpClients,    \* ftpClient and connected of each request's objects
    copies         \* the copies in the folder, by their time

ftpVars == <<millis, stored, ftpRequests, ftpClients, copies>>

FtpRequests == DOMAIN ftpRequests

\* "access" awaits the connection, "command" the list, the removal or the
\* transfer to the copy, and "stream" is the copy being read.
FtpStep == {"access", "command", "stream", "done", "failed", "abandoned"}

FtpTypeOK ==
    /\ millis \in 0..MaxMillis
    /\ stored \in BOOLEAN
    /\ Len(ftpRequests) <= MaxFtpRequests
    /\ ftpRequests \in [1..Len(ftpRequests) ->
          [operation : {"list", "download", "delete"}, at : FtpStep, copy : 0..MaxMillis,
           written : BOOLEAN]]
    /\ ftpClients \in [FtpRequests -> [client : {"null", "made", "open"}, connected : BOOLEAN]]
    /\ copies \subseteq 0..MaxMillis

FtpInit ==
    /\ millis = 0
    /\ stored = TRUE
    /\ ftpRequests = << >>
    /\ ftpClients = << >>
    /\ copies = {}

At(r, at) == ftpRequests' = [ftpRequests EXCEPT ![r].at = at]

-----------------------------------------------------------------------------

Millisecond ==
    /\ millis < MaxMillis
    /\ millis' = millis + 1
    /\ UNCHANGED <<stored, ftpRequests, ftpClients, copies>>

\* sanitizeHost and sanitizeAccessCode, of whatever the printer's login is
Acceptable == BOOLEAN

\* ensureFtpConnected, to the await of access.  A login that is not
\* acceptable ends the request.
FtpRequestBegins ==
    /\ Len(ftpRequests) < MaxFtpRequests
    /\ \E operation \in {"list", "download", "delete"}, accepted \in Acceptable :
          /\ ftpRequests' = Append(ftpRequests,
                [operation |-> operation, at |-> IF accepted THEN "access" ELSE "failed",
                 copy |-> 0, written |-> FALSE])
          /\ ftpClients' = Append(ftpClients,
                [client |-> IF accepted THEN "made" ELSE "null", connected |-> FALSE])
    /\ UNCHANGED <<millis, stored, copies>>

\* The copy's name is made as soon as there is a connection.
Accessed(r) ==
    /\ ftpRequests[r].at = "access"
    /\ ftpRequests' = [ftpRequests EXCEPT ![r].at = "command", ![r].copy = millis]
    /\ ftpClients' = [ftpClients EXCEPT ![r] = [client |-> "open", connected |-> TRUE]]
    /\ UNCHANGED <<millis, stored, copies>>

\* connect's catch and disconnect
AccessFails(r) ==
    /\ ftpRequests[r].at = "access"
    /\ At(r, "failed")
    /\ ftpClients' = [ftpClients EXCEPT ![r] = [client |-> "null", connected |-> FALSE]]
    /\ UNCHANGED <<millis, stored, copies>>

\* listFiles, for getFiles, getFile and validateConnection
Listed(r) ==
    /\ ftpRequests[r].at = "command"
    /\ ftpRequests[r].operation = "list"
    /\ At(r, "done")
    /\ UNCHANGED <<millis, stored, ftpClients, copies>>

Deleted(r) ==
    /\ ftpRequests[r].at = "command"
    /\ ftpRequests[r].operation = "delete"
    /\ stored
    /\ stored' = FALSE
    /\ At(r, "done")
    /\ UNCHANGED <<millis, ftpClients, copies>>

\* downloadTo creates the copy, or empties one of the same name.
CopyBegins(r) ==
    /\ ftpRequests[r].at = "command"
    /\ ftpRequests[r].operation = "download"
    /\ ~ftpRequests[r].written
    /\ stored
    /\ copies' = copies \cup {ftpRequests[r].copy}
    /\ ftpRequests' = [ftpRequests EXCEPT ![r].written = TRUE]
    /\ UNCHANGED <<millis, stored, ftpClients>>

\* The copy is complete: statSync, and its stream.  Another download that has
\* removed the copy makes it throw.
Copied(r) ==
    /\ ftpRequests[r].at = "command"
    /\ ftpRequests[r].written
    /\ At(r, IF ftpRequests[r].copy \in copies THEN "stream" ELSE "failed")
    /\ UNCHANGED <<millis, stored, ftpClients, copies>>

\* Fault: a transfer that fails leaves what it has written.
PartLeft(r) == copies

\* unlinkSync(tempPath), whose failure is caught
PartRemoved(r) == copies \ {ftpRequests[r].copy}

CommandFails(r) ==
    /\ ftpRequests[r].at = "command"
    /\ At(r, "failed")
    /\ copies' = IF ftpRequests[r].operation = "download" THEN PartRemoved(r) ELSE copies
    /\ UNCHANGED <<millis, stored, ftpClients>>

\* The stream has been read to its end, or could not be opened: close, error
StreamCloses(r) ==
    /\ ftpRequests[r].at = "stream"
    /\ At(r, "done")
    /\ copies' = copies \ {ftpRequests[r].copy}
    /\ UNCHANGED <<millis, stored, ftpClients>>

\* A browser that goes away does not close the stream that was piped to it.
ReaderLeaves(r) ==
    /\ ftpRequests[r].at = "stream"
    /\ At(r, "abandoned")
    /\ UNCHANGED <<millis, stored, ftpClients, copies>>

FtpNext ==
    \/ Millisecond \/ FtpRequestBegins
    \/ \E r \in FtpRequests :
          \/ Accessed(r) \/ AccessFails(r)
          \/ Listed(r) \/ Deleted(r) \/ CommandFails(r)
          \/ CopyBegins(r) \/ Copied(r)
          \/ StreamCloses(r) \/ ReaderLeaves(r)

-----------------------------------------------------------------------------
(* Properties.                                                             *)

\* A copy in the folder is that of a download which is still being made or
\* read, or whose reader has left it: whichever of its steps fails, and with
\* others of the same name, a download that has ended leaves none behind.
CopiesAreInHand ==
    \A c \in copies : \E r \in FtpRequests :
        /\ ftpRequests[r].copy = c /\ ftpRequests[r].written
        /\ ftpRequests[r].at \in {"command", "stream", "abandoned"}

\* A copy is "Cleaned up" (bambu-ftp.adapter.ts:186) when its stream closes or
\* fails, which is to be always.  It is not: the copy of a download whose
\* reader has left stays in the folder.
CopiesGo == \A c \in copies : \E r \in FtpRequests :
    ftpRequests[r].copy = c /\ ftpRequests[r].at \in {"command", "stream"}

=============================================================================
