----------------------------- MODULE MCLuAccess -----------------------------
(* Small instances of LuAccess for TLC.  A behaviour has one of five menus: *)
(* how many initiators log in, which service actions, types and scopes     *)
(* they use, whether they use RESERVE, RELEASE and task management too and *)
(* other medium accesses than READ and WRITE, and how many unit attentions *)
(* a nexus may have while others go on.                                    *)
EXTENDS LuAccess, TLC

VARIABLE menu

AllButMove == ServiceActions \ {"MOVE"}

Plain == {"data_read", "data_write"}

Menus ==
    [any    |-> [n |-> 2, ua |-> 1, classic |-> TRUE, actions |-> ServiceActions,
                 types |-> {"WE", "EA_ALLREG", "other"}, scopes |-> {"LU"}, accesses |-> Plain],
     scoped |-> [n |-> 2, ua |-> 0, classic |-> FALSE, actions |-> AllButMove \ {"REGISTER_IGNORE"},
                 types |-> {"WE", "EA_REGONLY", "WE_ALLREG"}, scopes |-> Scopes, accesses |-> MediumOps],
     pair   |-> [n |-> 2, ua |-> 0, classic |-> TRUE, actions |-> AllButMove,
                 types |-> ValidTypes \ AllReg, scopes |-> {"LU"}, accesses |-> Plain],
     trio   |-> [n |-> 3, ua |-> 0, classic |-> FALSE, actions |-> AllButMove,
                 types |-> {"WE", "EA_REGONLY"}, scopes |-> {"LU"}, accesses |-> Plain],
     shared |-> [n |-> 3, ua |-> 0, classic |-> FALSE, actions |-> AllButMove \ {"PREEMPT", "REGISTER_IGNORE"},
                 types |-> {"WE_ALLREG"}, scopes |-> {"LU"}, accesses |-> Plain]]

Types_ == Menus[menu].types
Scopes_ == Menus[menu].scopes
Uses(action) == action \in Menus[menu].actions
Admits == Cardinality({j \in Nexuses : session[j] # "new"}) < Menus[menu].n
Room == \A j \in Nexuses : Len(ua[j]) <= Menus[menu].ua

\* res_key is only compared with the key of the sender: one wrong key stands
\* for all.
Offered(i) == {key[i], CHOOSE k \in AnyKey : k # key[i]}

\* A nexus that is not registered, or sends a wrong key, is refused whatever the
\* other parameters are.
Heard(i, k) == i \in regs /\ k = key[i]
KeysOf(i, k)  == IF Heard(i, k) THEN AnyKey ELSE {NoKey}
TypesOf(i, k) == IF Heard(i, k) THEN Types_ ELSE {CHOOSE t \in Types_ : TRUE}
FlagsOf(i, k) == IF Heard(i, k) THEN BOOLEAN ELSE {TRUE}

Chosen(i) ==
    \/ Admits /\ ItNexusCreate(i)
    \/ ItNexusDestroy(i)
    \/ ReportUa(i)
    \/ /\ Room /\ Menus[menu].classic
       /\ ClearTaskSet(i) \/ LogicalUnitReset(i)
    \/ /\ Room /\ Performs(i)
       /\ \/ \E op \in Menus[menu].accesses : DataAccess(i, op)
          \/ Menus[menu].classic /\ (Reserve6(i) \/ Release6(i))
          \/ \E force \in BOOLEAN, k \in Offered(i) : \E sa \in IF k = key[i] THEN AnyKey ELSE {NoKey} :
                /\ force => k = key[i]
                /\ Uses(IF force THEN "REGISTER_IGNORE" ELSE "REGISTER")
                /\ spc_pr_register(i, force, k, sa)
          \/ \E t \in Types_, s \in Scopes_ : spc_pr_reserve(i, t, s)
          \/ \E k \in Offered(i) : \E t \in TypesOf(i, k), s \in Scopes_ : spc_pr_release(i, k, t, s)
          \/ \E k \in Offered(i) : spc_pr_clear(i, k)
          \/ /\ Uses("PREEMPT")
             /\ \E k \in Offered(i) : \E sa \in KeysOf(i, k), t \in TypesOf(i, k), s \in Scopes_ :
                   spc_pr_preempt(i, k, sa, t, s)
          \/ /\ Uses("MOVE")
             /\ \E k \in Offered(i) : \E sa \in KeysOf(i, k), id_ok, unreg \in FlagsOf(i, k) :
                   spc_pr_register_and_move(i, k, sa, id_ok, unreg)

MCInit == Init /\ menu \in DOMAIN Menus

MCSpec == MCInit /\ [][UNCHANGED menu /\ \E i \in Nexuses : Chosen(i)]_<<vars, menu>>

\* No action names a particular nexus or key.
Symmetry == Permutations(Nexuses) \cup Permutations(Keys)
=============================================================================
