--------------------------- MODULE ReservationSpec ---------------------------
(***************************************************************************)
(* What the access control of a logical unit promises its initiators, with *)
(* no registration list, no holder pointer and no unit attentions: a key   *)
(* per registered nexus, at most one persistent reservation with its type  *)
(* and its owner, at most one classic reservation, and for every medium    *)
(* access, of which all but a READ change the medium, the answer these     *)
(* call for.                                                               *)
(***************************************************************************)
EXTENDS FiniteSets

CONSTANTS Nexuses, Keys, NoKey, Types, Accesses, None

VARIABLES reserver,   \* owner of the classic reservation
          regKey,     \* key of each nexus, NoKey when it is not registered
          resv,       \* the persistent reservation
          reply       \* the last command answered: nexus, kind and status

vars == <<reserver, regKey, resv, reply>>

AllRegistrants == {"WE_ALLREG", "EA_ALLREG"}
SharedTypes == {"WE_REGONLY", "EA_REGONLY"} \cup AllRegistrants
WriteExclusive == {"WE", "WE_REGONLY", "WE_ALLREG"}

Unreserved == [type |-> "none", owner |-> None]

\* A reservation of all registrants has no owner of its own.
Reservation(i, type) ==
    [type |-> type, owner |-> IF type \in AllRegistrants THEN None ELSE i]

Registered(i) == regKey[i] # NoKey

Owns(i) ==
    /\ resv # Unreserved
    /\ \/ resv.owner = i
       \/ resv.type \in AllRegistrants /\ Registered(i)

Permitted(i, op) ==
    /\ reserver \in {None, i}
    /\ \/ resv = Unreserved
       \/ Owns(i)
       \/ resv.type \in WriteExclusive /\ op = "data_read"
       \/ resv.type \in SharedTypes /\ Registered(i)

Replied(i, op, status) == reply' = [itn |-> i, op |-> op, status |-> status]
Granted(i) == Replied(i, "other", "GOOD")

Init ==
    /\ reserver = None
    /\ regKey = [i \in Nexuses |-> NoKey]
    /\ resv = Unreserved
    /\ reply = [itn |-> None, op |-> "none", status |-> "GOOD"]

\* A permitted access may still fail on the medium.
Access(i, op) ==
    /\ \E status \in IF Permitted(i, op) THEN {"GOOD", "CHECK"} ELSE {"CONFLICT"} :
          Replied(i, op, status)
    /\ UNCHANGED <<reserver, regKey, resv>>

\* Any other command may be answered without effect.
NoEffect(i) ==
    /\ \E status \in {"GOOD", "CONFLICT", "CHECK"} : Replied(i, "other", status)
    /\ UNCHANGED <<reserver, regKey, resv>>

\* RESERVE and RELEASE by the owner or while there is none.
Classic(i) ==
    /\ Granted(i)
    /\ reserver \in {None, i}
    /\ reserver' \in {None, i}
    /\ UNCHANGED <<regKey, resv>>

\* The owner's session ends.
ClassicLost ==
    /\ reserver' = None
    /\ UNCHANGED <<regKey, resv, reply>>

\* A task management function leaves the classic reservation or drops it.
TaskManagement(i) ==
    /\ reserver' \in {None, reserver}
    /\ Replied(i, "tmf", "GOOD")
    /\ UNCHANGED <<regKey, resv>>

Register(i, k) ==
    /\ Granted(i)
    /\ regKey' = [regKey EXCEPT ![i] = k]
    /\ UNCHANGED <<reserver, resv>>

\* The reservation goes with its owner, or with the last registrant.
Unregister(i) ==
    /\ Granted(i)
    /\ Registered(i)
    /\ regKey' = [regKey EXCEPT ![i] = NoKey]
    /\ resv' = IF Owns(i) /\ (resv.owner = i \/ \A j \in Nexuses \ {i} : ~Registered(j))
               THEN Unreserved ELSE resv
    /\ UNCHANGED reserver

Reserve(i, type) ==
    /\ Granted(i)
    /\ Registered(i)
    /\ resv = Unreserved
    /\ resv' = Reservation(i, type)
    /\ UNCHANGED <<reserver, regKey>>

Release(i) ==
    /\ Granted(i)
    /\ Owns(i)
    /\ resv' = Unreserved
    /\ UNCHANGED <<reserver, regKey>>

Clear(i) ==
    /\ Granted(i)
    /\ Registered(i)
    /\ regKey' = [j \in Nexuses |-> NoKey]
    /\ resv' = Unreserved
    /\ UNCHANGED reserver

\* The registrations with key k go; their reservation passes to i.  Key 0
\* preempts a reservation of all registrants.
Preempt(i, k, type) ==
    LET all == k = NoKey /\ resv.type \in AllRegistrants
        one == resv.owner # None /\ regKey[resv.owner] = k
    IN /\ Granted(i)
       /\ Registered(i)
       /\ regKey' = [j \in Nexuses |-> IF j # i /\ (all \/ regKey[j] = k)
                                       THEN NoKey ELSE regKey[j]]
       /\ resv' = IF all \/ one THEN Reservation(i, type) ELSE resv
       /\ UNCHANGED reserver

Next ==
    \/ ClassicLost
    \/ \E i \in Nexuses :
        \/ \E op \in Accesses : Access(i, op)
        \/ NoEffect(i) \/ Classic(i) \/ TaskManagement(i)
        \/ Unregister(i) \/ Release(i) \/ Clear(i)
        \/ \E k \in Keys : Register(i, k)
        \/ \E type \in Types : Reserve(i, type)
        \/ \E k \in Keys \cup {NoKey}, type \in Types : Preempt(i, k, type)

Spec == Init /\ [][Next]_vars
=============================================================================
