--------------------------- MODULE MCSubscription ---------------------------
(* Instances of Subscription for TLC.                                      *)
EXTENDS Subscription, TLC

AllOps == {"create", "upgrade", "extend", "cancel", "reactivate", "status", "suspend",
           "activate", "extend_trial", "destroy", "confirm", "refund"}
============================================================================
