----------------------------- MODULE MCElection -----------------------------
EXTENDS Election

MCUid == [b \in Boards |-> b]
MCCapsOf ==
  [b \in Boards |-> CASE b = N -> {{"COORD", "DISPLAY", "CONFIG"}}
                      [] b = 1 -> {{"HID_OUT", "HID_IN"}}
                      [] OTHER -> {{"HID_OUT"}}]
=============================================================================
