---------------------------- MODULE MCAuditLog ----------------------------
(* Small instances of AuditLog: who writes the ledger.                     *)
EXTENDS AuditLog, TLC

CONSTANTS server, cli, t1, t2

(* Two worker threads of the API server share one AuditLogger.             *)
OneProcess == [t \in {t1, t2} |-> server]

(* The API server and a command-line invocation, one thread each.          *)
TwoProcesses == (t1 :> server) @@ (t2 :> cli)

=============================================================================
