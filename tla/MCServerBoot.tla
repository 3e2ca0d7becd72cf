----------------------------- MODULE MCServerBoot -----------------------------
(* Instances of ServerBoot for TLC: the tasks that differ in kind.           *)
EXTENDS ServerBoot

MCTasks == {"bootTask", "clientDistDownloadTask", "softwareUpdateTask", "socketIoTask"}

MCPreset ==
    [t \in MCTasks |->
        CASE t = "bootTask"               -> "disabled"
          [] t = "clientDistDownloadTask" -> "once"
          [] t = "softwareUpdateTask"     -> "delayed"
          [] OTHER                        -> "periodic"]
=============================================================================
