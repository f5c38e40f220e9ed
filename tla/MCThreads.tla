----------------------------- MODULE MCThreads ------------------------------
(***************************************************************************)
(* The pools of worker threads (kind is the pool) and the command socket   *)
(* with its threads (kind is "cli"), each for itself.                      *)
(***************************************************************************)
EXTENDS Workers, CommandLine

MCKinds == {"command", "udp", "rtpp", "log", "cli"}
MCPool == [k \in MCKinds |->
              CASE k = "log" -> {"t1"} [] k = "cli" -> {} [] OTHER -> {"t1", "t2"}]

ThreadsInit == Init /\ CliInit /\ (kind # "cli" => call = "none")

ThreadsNext ==
    \/ kind # "cli" /\ Next /\ UNCHANGED cliVars
    \/ kind = "cli" /\ CliNext /\ UNCHANGED vars

ThreadsSpec ==
    /\ ThreadsInit /\ [][ThreadsNext]_<<vars, cliVars>>
    /\ Fairness /\ CliFairness
=============================================================================
