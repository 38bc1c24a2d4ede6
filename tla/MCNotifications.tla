-------------------------- MODULE MCNotifications --------------------------
(* Instances of Notifications for TLC: both jobs notify ben.               *)
EXTENDS Notifications, TLC
CONSTANT ben
MCRecipient == [j \in Jobs |-> ben]
============================================================================
