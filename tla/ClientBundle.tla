----------------------------- MODULE ClientBundle -----------------------------
(***************************************************************************)
(* ClientBundleService: the web client in the media folder, replaced by    *)
(* the task of the boot and by requests of administrators.  An update asks *)
(* GitHub for a release, empties the folder item by item, and extracts the *)
(* archive into it in one step, without overwriting what it finds there.   *)
(***************************************************************************)
EXTENDS Integers

CONSTANTS
    Newest,       \* releases are 1..Newest
    Minimum       \* defaultClientMinimum

ASSUME BundleAssumption == Newest \in Nat /\ Minimum \in 1..Newest

VARIABLES
    disk,         \* the release that each file in the folder is of, 0 if absent
    updaters,     \* the updates under way
    spoiled,      \* history: whether the last update could not replace every file
    overlapped    \* history: whether an update began during another

bundleVars == <<disk, updaters, spoiled, overlapped>>

\* package.json, and dist/index.html for what is in dist
Files == {"package", "index"}

\* An update by the task of the boot and one by a request
UpdaterIds == {"task", "request"}

Updater == [at : {"idle", "fetch", "clear"}, version : 0..Newest,
            doomed : SUBSET Files, kept : BOOLEAN]

Idle == [at |-> "idle", version |-> 0, doomed |-> {}, kept |-> FALSE]

BundleTypeOK ==
    /\ disk \in [Files -> 0..Newest]
    /\ updaters \in [UpdaterIds -> Updater]
    /\ {spoiled, overlapped} \subseteq BOOLEAN

\* The folder as a former server has left it: empty, or with some release
BundleInit ==
    /\ \E v \in 0..Newest : disk = [f \in Files |-> v]
    /\ updaters = [u \in UpdaterIds |-> Idle]
    /\ spoiled = FALSE
    /\ overlapped = FALSE

NobodyUpdates == \A u \in UpdaterIds : updaters[u].at = "idle"

-----------------------------------------------------------------------------
(* shouldUpdateWithReason                                                  *)

Greater(v, w) == IF v > w THEN v ELSE w

\* evaluateRequestedVersion
Evaluated(requested, allowDowngrade) ==
    /\ requested >= Minimum
    /\ requested # disk["package"]
    /\ requested < disk["package"] => allowDowngrade

\* Fault: the index of the client is not looked for.
PackageIsThere == disk["package"] # 0

ClientIsThere == disk["package"] # 0 /\ disk["index"] # 0

\* targetVersion if the bundle should be updated, and 0 if not.  There is a
\* requested version, or 0.
Target(requested, allowDowngrade) ==
    IF ~ClientIsThere \/ disk["package"] < Minimum THEN Greater(Minimum, requested)
    ELSE IF requested # 0 /\ Evaluated(requested, allowDowngrade) THEN requested
    ELSE 0

-----------------------------------------------------------------------------
(* downloadClientUpdate                                                    *)

UpdateBegins(u, version) ==
    /\ updaters[u].at = "idle"
    /\ overlapped' = (overlapped \/ ~NobodyUpdates)
    /\ updaters' = [updaters EXCEPT ![u] = [Idle EXCEPT !.at = "fetch", !.version = version]]
    /\ UNCHANGED <<disk, spoiled>>

\* getReleaseByTag and requestAsset are answered, the archive is written, and
\* readdir names what is to go.
FolderListed(u) ==
    /\ updaters[u].at = "fetch"
    /\ updaters' = [updaters EXCEPT ![u].at = "clear", ![u].doomed = {f \in Files : disk[f] # 0}]
    /\ UNCHANGED <<disk, spoiled, overlapped>>

\* A file that cannot be removed is logged and stays.
FileRemoved(u, f) ==
    /\ updaters[u].at = "clear"
    /\ f \in updaters[u].doomed
    /\ \E ok \in BOOLEAN :
          /\ disk' = IF ok THEN [disk EXCEPT ![f] = 0] ELSE disk
          /\ updaters' = [updaters EXCEPT ![u].doomed = @ \ {f}, ![u].kept = @ \/ ~ok]
          /\ spoiled' = (spoiled \/ ~ok)
    /\ UNCHANGED overlapped

Extracted(v) == [f \in Files |-> IF disk[f] = 0 THEN v ELSE disk[f]]

ReadyToExtract(u) == updaters[u].at = "clear" /\ updaters[u].doomed = {}

UpdateEnds(u) ==
    /\ ReadyToExtract(u)
    /\ disk' = Extracted(updaters[u].version)
    /\ spoiled' = updaters[u].kept
    /\ updaters' = [updaters EXCEPT ![u] = Idle]
    /\ UNCHANGED overlapped

\* GitHub does not answer, or lacks the release or its asset; or the archive
\* cannot be read.
UpdateFails(u) ==
    /\ updaters[u].at = "fetch" \/ ReadyToExtract(u)
    /\ spoiled' = (spoiled \/ updaters[u].at # "fetch")
    /\ updaters' = [updaters EXCEPT ![u] = Idle]
    /\ UNCHANGED <<disk, overlapped>>

UpdateGoesOn(u) ==
    FolderListed(u) \/ \E f \in Files : FileRemoved(u, f)

\* updateClientBundleGithub; the answer to a request that is not executed
\* changes nothing.
UpdateRequested ==
    \E requested \in 1..Newest, allowDowngrade \in BOOLEAN :
        /\ Target(requested, allowDowngrade) # 0
        /\ UpdateBegins("request", Target(requested, allowDowngrade))

\* The process ends, and with it the updates; the folder is as it is.
BundleCrashes ==
    /\ updaters' = [u \in UpdaterIds |-> Idle]
    /\ UNCHANGED <<disk, spoiled, overlapped>>

=============================================================================
