--------------------------- MODULE MCNotifications ---------------------------
(* Instances of Notifications for TLC.                                      *)
EXTENDS Notifications, TLC

Interchangeable == Permutations(Events) \cup Permutations(Reqs)
==============================================================================
