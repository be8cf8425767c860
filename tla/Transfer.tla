------------------------------ MODULE Transfer ------------------------------
(***************************************************************************)
(* What bulk transfer (core/include/dhp/data.h) promises the application   *)
(* that calls dhp_data_send: one report per transfer (on_sent), a report   *)
(* of success only for what the far side has been handed whole, and at     *)
(* most one whole copy handed over.                                        *)
(***************************************************************************)
CONSTANT Transfers

VARIABLES
  begun,      \* dhp_data_send returned a stream for them
  delivered,  \* handed over whole: on_received with DHP_DATA_OK
  reported    \* reported[x]: on_sent's result, OK or FAILED, or NONE yet

vars == <<begun, delivered, reported>>

Init ==
  /\ begun = {}
  /\ delivered = {}
  /\ reported = [x \in Transfers |-> "NONE"]

Begin(x) ==
  /\ x \notin begun
  /\ begun' = begun \cup {x}
  /\ UNCHANGED <<delivered, reported>>

\* a sender that gave up may still have had its last chunk on the way
Deliver(x) ==
  /\ x \in begun \ delivered
  /\ delivered' = delivered \cup {x}
  /\ UNCHANGED <<begun, reported>>

Report(x) ==
  /\ x \in begun /\ reported[x] = "NONE"
  /\ \/ x \in delivered /\ reported' = [reported EXCEPT ![x] = "OK"]
     \/ reported' = [reported EXCEPT ![x] = "FAILED"]
  /\ UNCHANGED <<begun, delivered>>

\* a program that ends takes its open transfers with it
Crash ==
  /\ \E S \in SUBSET begun :
       reported' = [x \in Transfers |->
                      IF x \in S /\ reported[x] = "NONE" THEN "FAILED"
                      ELSE reported[x]]
  /\ UNCHANGED <<begun, delivered>>

Next == (\E x \in Transfers : Begin(x) \/ Deliver(x) \/ Report(x)) \/ Crash

Spec == Init /\ [][Next]_vars
=============================================================================
