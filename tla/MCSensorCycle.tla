---------------------------- MODULE MCSensorCycle ----------------------------
(* Two sensors and two retry windows, a threshold that moves between one and *)
(* two misses, an allow-list that comes and goes.  MCCloud makes one of the  *)
(* sensors a cloud device.                                                  *)
EXTENDS SensorCycle, TLC

CONSTANTS thermometer, hygrometer, cold, warm

MCSensors == {thermometer, hygrometer}
MCCloud == {hygrometer}
MCSelections == {{}, {thermometer}}
=============================================================================
