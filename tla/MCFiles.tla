-------------------------------- MODULE MCFiles --------------------------------
(* What the daemon keeps on disk through its own death: the PID file with the lock
   that guards it, the event log, and an agent's session with the record of the
   claude that writes it.  They share no state, so one moves in each behaviour
   while the others rest. *)
EXTENDS PidLock, EventLog, SessionManager

VARIABLE part

filesVars == <<part, pidVars, logVars, sessionVars>>

MCPid     == part = "pid"     /\ PidNext     /\ UNCHANGED <<part, logVars, sessionVars>>
MCLog     == part = "log"     /\ LogNext     /\ UNCHANGED <<part, pidVars, sessionVars>>
MCSession == part = "session" /\ SessionNext /\ UNCHANGED <<part, pidVars, logVars>>

FilesInit == part \in {"pid", "log", "session"} /\ PidInit /\ LogInit /\ SessionInit

FilesSpec == FilesInit /\ [][MCPid \/ MCLog \/ MCSession]_filesVars /\ FairPid /\ FairSession

FilesTypeOK == PidTypeOK /\ LogTypeOK /\ SessionTypeOK
================================================================================
