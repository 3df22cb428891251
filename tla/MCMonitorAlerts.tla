--------------------------- MODULE MCMonitorAlerts ---------------------------
(***************************************************************************)
(* Instances of MonitorAlertsProps for TLC.                                *)
(***************************************************************************)
EXTENDS MonitorAlertsProps

\* Another session resolves the first alert of the list.
Resolve == {<<1, "resolved">>}

\* It acknowledges the alert.
Acknowledge == {<<1, "ack">>}

\* The analyst acknowledges the first alert by itself, or reopens or resolves it.
AckFirst        == {<<1, "ack">>}
ReopenOrResolve == {<<1, "open">>, <<1, "resolved">>}

\* Writes to the rows: one and two, or three to the only one.
OneAndTwo == <<1, 2>>
Three     == <<3>>
=============================================================================
