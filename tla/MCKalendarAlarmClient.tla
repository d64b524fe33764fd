------------------------ MODULE MCKalendarAlarmClient ------------------------
EXTENDS KalendarAlarmClient
=============================================================================
