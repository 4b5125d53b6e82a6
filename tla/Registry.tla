------------------------------ MODULE Registry ------------------------------
(***************************************************************************)
(* What the logger's table of subscribers promises: each function is       *)
(* subscribed at most once, with the threshold it asked for last, and a    *)
(* subscription is refused only when the registry is full.                 *)
(***************************************************************************)
EXTENDS Naturals, FiniteSets

CONSTANTS Functions, Levels, Capacity

VARIABLES
    threshold,  \* a function whose domain is the set of subscribed functions
    result      \* what the last Subscribe or Unsubscribe answered

RInit == threshold = << >> /\ result = "NONE"

Subscribed == DOMAIN threshold

Subscribe(fn, level) ==
    /\ fn \in Subscribed \/ Cardinality(Subscribed) < Capacity
    /\ threshold' = [f \in Subscribed \cup {fn} |->
                        IF f = fn THEN level ELSE threshold[f]]
    /\ result' = "NONE"

Refuse(fn) ==
    /\ fn \notin Subscribed
    /\ Cardinality(Subscribed) >= Capacity
    /\ result' = "SUBSCRIBERS_EXCEEDED"
    /\ UNCHANGED threshold

Unsubscribe(fn) ==
    /\ fn \in Subscribed
    /\ threshold' = [f \in Subscribed \ {fn} |-> threshold[f]]
    /\ result' = "NONE"

NothingToUnsubscribe(fn) ==
    /\ fn \notin Subscribed
    /\ result' = "NOT_SUBSCRIBED"
    /\ UNCHANGED threshold

Clear == threshold' = << >> /\ UNCHANGED result

RNext ==
    \/ \E fn \in Functions :
          \/ \E level \in Levels : Subscribe(fn, level)
          \/ Refuse(fn)
          \/ Unsubscribe(fn)
          \/ NothingToUnsubscribe(fn)
    \/ Clear

RSpec == RInit /\ [][RNext]_<<threshold, result>>
=============================================================================
