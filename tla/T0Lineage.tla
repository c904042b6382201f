----------------------------- MODULE T0Lineage ------------------------------
(***************************************************************************)
(* What the decision pipeline promises, without its stores, retries and    *)
(* faults: a T0 is observed once, its row enters the authority once, it is *)
(* bound to that row for good, and only the T0 being worked on is treated, *)
(* once bound, and only if its candle has not been treated before.         *)
(***************************************************************************)
EXTENDS Naturals, Sequences

CONSTANTS
    T0,         \* decisions
    Lanes,      \* PAPER lanes
    Obs,        \* observations (symbol and candle)
    NoObs,      \* the observation of a T0 that does not exist yet
    Unknown,    \* observations with no candle identity: never compared
    None        \* no current T0

\* What a user of this module chooses them to be.
LineageAssumption == NoObs \notin Obs /\ Unknown \subseteq Obs /\ None \notin T0

VARIABLES
    obs,        \* observation of each T0
    current,    \* the T0 a treatment is still allowed for
    authority,  \* rows in the order the authority accepted them
    bound,      \* row each T0 is bound to, 0 if none
    treated     \* lanes each T0 was given to

vars == <<obs, current, authority, bound, treated>>

Init ==
    /\ obs = [t \in T0 |-> NoObs] /\ current = None
    /\ authority = <<>> /\ bound = [t \in T0 |-> 0]
    /\ treated = [t \in T0 |-> {}]

\* Binding or treating a T0 may be the last thing done with it.
MayClose == current' \in {current, None}

Observe(t, o) ==
    /\ obs[t] = NoObs /\ obs' = [obs EXCEPT ![t] = o] /\ current' = t
    /\ UNCHANGED <<authority, bound, treated>>

Accept(t) ==
    /\ obs[t] # NoObs /\ \A i \in 1..Len(authority) : authority[i] # t
    /\ authority' = Append(authority, t)
    /\ UNCHANGED <<obs, current, bound, treated>>

Bind(t, i) ==
    /\ bound[t] = 0 /\ authority[i] = t /\ bound' = [bound EXCEPT ![t] = i]
    /\ MayClose /\ UNCHANGED <<obs, authority, treated>>

Treat(t, lane) ==
    /\ t = current /\ bound[t] # 0
    /\ \A u \in T0 \ {t} : treated[u] # {} /\ obs[u] = obs[t] => obs[t] \in Unknown
    /\ treated' = [treated EXCEPT ![t] = @ \cup {lane}]
    /\ MayClose /\ UNCHANGED <<obs, authority, bound>>

Close ==
    /\ current' = None /\ UNCHANGED <<obs, authority, bound, treated>>

Next ==
    \/ \E t \in T0 :
        \/ \E o \in Obs : Observe(t, o)
        \/ Accept(t)
        \/ \E i \in 1..Len(authority) : Bind(t, i)
        \/ \E lane \in Lanes : Treat(t, lane)
    \/ Close

Spec == Init /\ [][Next]_vars

-----------------------------------------------------------------------------
\* Types of the abstract lineage.
TypeOK ==
    /\ obs \in [T0 -> Obs \cup {NoObs}] /\ current \in T0 \cup {None}
    /\ authority \in Seq(T0) /\ bound \in [T0 -> Nat]
    /\ treated \in [T0 -> SUBSET Lanes]

\* A treated T0 is bound, a bound T0 has exactly the row it is bound to, and
\* every row is of an observed T0.
LineageSound ==
    /\ \A t \in T0 : treated[t] # {} => bound[t] # 0
    /\ \A t \in T0 : bound[t] # 0 => bound[t] \in 1..Len(authority) /\ authority[bound[t]] = t
    /\ \A i, j \in 1..Len(authority) : authority[i] = authority[j] => i = j

\* No two T0s of one known candle are treated.
TreatedOnce ==
    \A t, u \in T0 :
        treated[t] # {} /\ treated[u] # {} /\ obs[t] = obs[u] => t = u \/ obs[t] \in Unknown

=============================================================================
