--------------------------- MODULE OrderLifecycle ---------------------------
(***************************************************************************)
(* What the order service promises about the life of an order, without     *)
(* tables, indexes or requests: an order is unborn, then live, then gone   *)
(* for good, and it gains statuses one at a time, by a workflow rule from  *)
(* a status it has had or because somebody set the status directly.        *)
(***************************************************************************)
CONSTANTS OrderIds, Statuses, First, Rules  \* Rules: pairs <<from, to>>

VARIABLES life, had, set   \* set: the statuses set directly

lifeVars == <<life, had, set>>

LifeInit ==
    /\ life = [o \in OrderIds |-> "unborn"]
    /\ had = [o \in OrderIds |-> {}]
    /\ set = [o \in OrderIds |-> {}]

Born(o) ==
    /\ life[o] = "unborn"
    /\ life' = [life EXCEPT ![o] = "live"]
    /\ had' = [had EXCEPT ![o] = {First}]
    /\ UNCHANGED set

Moved(o, s) ==
    /\ life[o] = "live"
    /\ \E from \in had[o] : <<from, s>> \in Rules
    /\ had' = [had EXCEPT ![o] = @ \cup {s}]
    /\ UNCHANGED <<life, set>>

SetDirectly(o, s) ==
    /\ life[o] = "live"
    /\ had' = [had EXCEPT ![o] = @ \cup {s}]
    /\ set' = [set EXCEPT ![o] = @ \cup {s}]
    /\ UNCHANGED life

Ended(o) ==
    /\ life[o] = "live"
    /\ life' = [life EXCEPT ![o] = "gone"]
    /\ UNCHANGED <<had, set>>

LifeNext ==
    \E o \in OrderIds :
        \/ Born(o)
        \/ Ended(o)
        \/ \E s \in Statuses : Moved(o, s) \/ SetDirectly(o, s)

LifeSpec == LifeInit /\ [][LifeNext]_lifeVars
=============================================================================
