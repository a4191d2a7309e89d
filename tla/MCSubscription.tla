--------------------------- MODULE MCSubscription ---------------------------
(* Instances of Subscription for TLC: the configurations give every        *)
(* constant.  SubscribedInTheEnd is a liveness property, so the            *)
(* instruments are not taken to be interchangeable.                        *)
EXTENDS Subscription
=============================================================================
