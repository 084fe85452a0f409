------------------------------- MODULE MCBusLog -------------------------------
EXTENDS BusLog
MCRecords == {"scan", "ack"}
MCTables == {"before", "after"}
=============================================================================
