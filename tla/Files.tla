--------------------------------- MODULE Files ---------------------------------
(***************************************************************************)
(* What supd keeps in files: the directories of services and extensions,   *)
(* replaced as a whole; single files with their history; the logs. They    *)
(* have no state in common but the file manager's writes, which Imports    *)
(* has as well: a behaviour is one of either.                              *)
(***************************************************************************)
EXTENDS Imports, FileHistory, Logs

VARIABLE part   \* which of them

vars == <<part, importsVars, fileVars, logsVars>>

TypeOK ==
    /\ part \in {"directory", "file", "log"}
    /\ ImportsTypeOK /\ FileHistoryTypeOK /\ LogsTypeOK

\* Where they play no part there is no directory, there are no files, and no
\* line is written.
Init ==
    /\ part \in {"directory", "file", "log"}
    /\ ImportsInit /\ (part # "directory" => target = NoDir /\ kind = "service")
    /\ FileHistoryInit /\ (part # "file" => \A p \in Paths : file[p] = None)
    /\ LogsInit /\ (part # "log" => place = "service")

Next ==
    \/ part = "directory" /\ ImportsNext /\ UNCHANGED <<part, fileVars, logsVars>>
    \/ part = "file" /\ FileHistoryNext /\ UNCHANGED <<part, importsVars, logsVars>>
    \/ part = "log" /\ LogsNext /\ UNCHANGED <<part, importsVars, fileVars>>

Spec == Init /\ [][Next]_vars
=============================================================================
