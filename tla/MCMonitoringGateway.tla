------------------------ MODULE MCMonitoringGateway ------------------------
(* TLC instance of MonitoringGateway: employees and Jetsons contend for    *)
(* each other's sessions.  It extends the proofs' module for GatewayInv.   *)
EXTENDS MonitoringGatewayProofs

=============================================================================
