----------------------------- MODULE TcpSession -----------------------------
(***************************************************************************)
(* What a TcpClient promises those above it (HttpConnection, MqttClient):  *)
(* a connection that is made goes through its phases once, its end is      *)
(* reported once and at that moment, and a finished connection may be made *)
(* anew.  TcpClient implements it; HttpConnection relies on it.            *)
(***************************************************************************)
EXTENDS Naturals

VARIABLES
    phase,      \* the state of the connection, or "deleted"
    reports     \* calls of `completed` since the last connect

sessionVars == <<phase, reports>>

Ended == {"Successful", "Failed"}
Underway == {"Ready", "Connecting", "Connected"}

SessionInit == phase = "Ready" /\ reports = 0

Open == phase \in {"Ready"} \cup Ended /\ phase' = "Connecting" /\ reports' = 0

Establish == phase = "Connecting" /\ phase' = "Connected" /\ UNCHANGED reports

\* The end, whoever brings it about.  An object that deletes itself is gone with it.
End ==
    /\ phase \in Underway
    /\ phase' \in Ended \cup {"deleted"}
    /\ reports' = reports + 1

\* An object that is deleted before its connection ended does not report.
Delete == phase # "deleted" /\ phase' = "deleted" /\ UNCHANGED reports

SessionNext == Open \/ Establish \/ End \/ Delete

SessionSpec == SessionInit /\ [][SessionNext]_sessionVars
=============================================================================
