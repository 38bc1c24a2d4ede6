---------------------------- MODULE MCMessaging ----------------------------
(* Instances of Messaging for TLC: ana writes to ben.                      *)
EXTENDS Messaging, TLC
CONSTANTS ana, ben, a1

MCSender == [m \in Messages |-> ana]
MCOwner == [k \in Sockets |-> IF k = a1 THEN ana ELSE ben]
============================================================================
