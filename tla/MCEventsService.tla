--------------------------- MODULE MCEventsService ----------------------------
(* Instances of EventsService for TLC. *)
EXTENDS EventsService

MCTopics == <<"VideoSource/MotionAlarm", "CellMotionDetector/Motion">>
=============================================================================
