------------------------------ MODULE LuAccess ------------------------------
(***************************************************************************)
(* Who may use one logical unit (LU): the classic RESERVE/RELEASE owner,   *)
(* the persistent reservation with its registrations, and the unit         *)
(* attention (UA) conditions by which tgtd tells the other initiators that *)
(* what they held is gone.  Models usr/spc.c (PERSISTENT RESERVE OUT and   *)
(* the access check), the reservation and UA parts of usr/target.c and the *)
(* command filter scsi_cmd_perform of usr/scsi.c.                          *)
(*                                                                         *)
(* Commands run to completion in the event loop, so each is one step.  A   *)
(* nexus is an initiator session; a session that ends does not come back   *)
(* under the same identity (itn_id and ctime), so each logs in once.  The  *)
(* registration list is the set of the nexuses that registered: its order  *)
(* only picks which registrant is found first.                             *)
(***************************************************************************)
EXTENDS Integers, FiniteSets, Sequences

CONSTANTS Nexuses,     \* I_T nexuses
          Keys,        \* reservation keys other than 0
          NoKey,       \* key 0
          Types,       \* reservation types that initiators ask for
          Actions,     \* PERSISTENT RESERVE OUT service actions they use
          Accesses,    \* classes of medium access they use
          None,        \* the NULL pr_holder, the zero reserve_id
          MaxUa,       \* bound: nothing adds a UA while a nexus has more pending
          GenMod       \* prgeneration is counted modulo GenMod (2^32 in C)

AllReg == {"WE_ALLREG", "EA_ALLREG"}
ValidTypes == {"WE", "EA", "WE_REGONLY", "EA_REGONLY"} \cup AllReg
Scopes == {"LU", "other"}
ServiceActions == {"REGISTER", "REGISTER_IGNORE", "RESERVE", "RELEASE",
                   "CLEAR", "PREEMPT", "MOVE"}
MediumOps == {"data_read", "data_write", "write_verify", "write_same", "unmap"}
Asc == {"POWERON", "CLEARED", "PREEMPTED", "RELEASED"}
Statuses == {"GOOD", "CONFLICT", "CHECK"}

ASSUME AccessConstants ==
    /\ IsFiniteSet(Nexuses)
    /\ None \notin Nexuses
    /\ NoKey \notin Keys
    /\ Types \subseteq ValidTypes \cup {"other"}
    /\ Actions \subseteq ServiceActions
    /\ Accesses \subseteq MediumOps
    /\ MaxUa \in Nat
    /\ GenMod \in Nat /\ GenMod > 2

VARIABLES
    session,        \* per nexus: not yet logged in, logged in, logged out
    ua,             \* itn_lu->pending_ua_sense_list of each nexus
    reserve_id,     \* lu->reserve_id
    regs,           \* the nexuses in lu->registration_list
    key,            \* reg->key
    pr_type,        \* reg->pr_type; "none" is 0
    pr_scope,       \* reg->pr_scope; "LU" is 0
    pr_holder,      \* lu->pr_holder, the nexus of the registration
    prgeneration,   \* lu->prgeneration
    reply,          \* the last command answered: nexus, kind and status
    daemon          \* "up", or "crashed" by a NULL pointer

pr == <<regs, key, pr_type, pr_scope, pr_holder, prgeneration>>
vars == <<session, ua, reserve_id, pr, reply, daemon>>

Replies == [itn : Nexuses \cup {None},
            op : MediumOps \cup {"none", "tmf", "other"},
            status : Statuses]

TypeOK ==
    /\ session \in [Nexuses -> {"new", "in", "gone"}]
    /\ ua \in [Nexuses -> Seq(Asc)]
    /\ reserve_id \in Nexuses \cup {None}
    /\ regs \subseteq Nexuses
    /\ key \in [Nexuses -> Keys \cup {NoKey}]
    /\ pr_type \in [Nexuses -> ValidTypes \cup {"none", "other"}]
    /\ pr_scope \in [Nexuses -> Scopes]
    /\ pr_holder \in Nexuses \cup {None}
    /\ prgeneration \in 0..(GenMod - 1)
    /\ reply \in Replies
    /\ daemon \in {"up", "crashed"}

Init ==
    /\ session = [i \in Nexuses |-> "new"]
    /\ ua = [i \in Nexuses |-> <<>>]
    /\ reserve_id = None
    /\ regs = {}
    /\ key = [i \in Nexuses |-> NoKey]
    /\ pr_type = [i \in Nexuses |-> "none"]
    /\ pr_scope = [i \in Nexuses |-> "LU"]
    /\ pr_holder = None
    /\ prgeneration = 0
    /\ reply = [itn |-> None, op |-> "none", status |-> "GOOD"]
    /\ daemon = "up"

-----------------------------------------------------------------------------
(* Unit attentions.                                                        *)

\* ua_sense_add for the nexuses of S that are logged in.
UaAdd(S, asc) ==
    [j \in Nexuses |-> IF j \in S /\ session[j] = "in"
                       THEN Append(ua[j], asc)
                       ELSE ua[j]]

\* ua_sense_add_other_it_nexus called once for each registration of R: every
\* nexus logged in gets one UA for each member of R other than itself.
UaAddOtherForEach(R, asc) ==
    [j \in Nexuses |->
        IF session[j] = "in"
        THEN ua[j] \o [n \in 1..Cardinality(R \ {j}) |-> asc]
        ELSE ua[j]]

\* A new session: it_nexus_create leaves POWER ON pending.
ItNexusCreate(i) ==
    /\ daemon = "up"
    /\ session[i] = "new"
    /\ session' = [session EXCEPT ![i] = "in"]
    /\ ua' = [ua EXCEPT ![i] = <<"POWERON">>]
    /\ UNCHANGED <<reserve_id, pr, reply, daemon>>

\* The end of a session without commands: it_nexus_destroy releases the
\* classic reservation; the registrations stay.
ItNexusDestroy(i) ==
    /\ daemon = "up"
    /\ session[i] = "in"
    /\ session' = [session EXCEPT ![i] = "gone"]
    /\ ua' = [ua EXCEPT ![i] = <<>>]
    /\ reserve_id' = IF reserve_id = i THEN None ELSE reserve_id
    /\ UNCHANGED <<pr, reply, daemon>>

-----------------------------------------------------------------------------
(* The command filter.                                                     *)

(* The persistent reservation never outlives its owner: pr_holder points to *)
(* a registration in the list, never to one that has been freed             *)
(* (__unregister_and_clean, spc_pr_preempt, spc_pr_clear).                  *)
HolderRegistered == pr_holder # None => pr_holder \in regs

\* A command of nexus i reaches the LU.  What a command does through a freed
\* pr_holder is undefined: the model stops there.
Arrives(i) ==
    /\ daemon = "up"
    /\ session[i] = "in"
    /\ HolderRegistered

UaRoom == \A j \in Nexuses : Len(ua[j]) <= MaxUa

\* The command gets past the unit attention check of scsi_cmd_perform.
Performs(i) == Arrives(i) /\ UaRoom /\ ua[i] = <<>>

Answer(i, op, status) ==
    /\ reply' = [itn |-> i, op |-> op, status |-> status]
    /\ UNCHANGED <<session, daemon>>

\* Any command but INQUIRY, REPORT LUNS and REQUEST SENSE: the oldest UA is
\* reported in its place and forgotten.
ReportUa(i) ==
    /\ Arrives(i)
    /\ ua[i] # <<>>
    /\ ua' = [ua EXCEPT ![i] = Tail(@)]
    /\ Answer(i, "other", "CHECK")
    /\ UNCHANGED <<reserve_id, pr>>

is_pr_holder(i) == pr_type[pr_holder] \in AllReg \/ pr_holder = i

\* is_pr_holder asked where the code has seen a reservation.
Holds(i) == pr_holder # None /\ is_pr_holder(i)

\* pr_conflict_bits of the medium accesses in the sbc table: READ; WRITE;
\* WRITE AND VERIFY and ORWRITE, which have the bits of a READ; WRITE SAME and
\* FORMAT UNIT, and UNMAP, which have none.
ConflictBits(op) ==
    CASE op \in {"data_read", "write_verify"} -> {"EA_FA", "EA_FN"}
      [] op = "data_write" -> {"WE_FA", "EA_FA", "WE_FN", "EA_FN"}
      [] op \in {"write_same", "unmap"} -> {}

\* Mutant: registrants are treated like everyone else.
spc_access_check_ignores_registrants(i, op) ==
    /\ pr_holder # None
    /\ ~(i \in regs /\ is_pr_holder(i))
    /\ \/ pr_type[pr_holder] \in {"WE", "WE_REGONLY", "WE_ALLREG"}
          /\ "WE_FN" \in ConflictBits(op)
       \/ pr_type[pr_holder] \notin {"WE", "WE_REGONLY", "WE_ALLREG"}
          /\ "EA_FN" \in ConflictBits(op)

\* TRUE when the persistent reservation refuses op to nexus i.
spc_access_check(i, op) ==
    /\ pr_holder # None
    /\ ~(i \in regs /\ is_pr_holder(i))
    /\ LET bits == ConflictBits(op)
           type == pr_type[pr_holder]
       IN \/ type = "EA" /\ "EA_FA" \in bits
          \/ type = "WE" /\ "WE_FA" \in bits
          \/ /\ type \notin {"EA", "WE"}
             /\ IF i \in regs THEN "RR_FR" \in bits
                ELSE IF type \in {"WE_REGONLY", "WE_ALLREG"}
                     THEN "WE_FN" \in bits
                     ELSE "EA_FN" \in bits

device_reserved(i) == reserve_id \notin {None, i}

\* sbc_rw, sbc_format_unit and sbc_unmap after the access check.  An UNMAP that
\* is carried out falls through to the sense data of one that is not.
DataAccess(i, op) ==
    /\ Performs(i)
    /\ Answer(i, op, IF spc_access_check(i, op) \/ device_reserved(i) THEN "CONFLICT"
                     ELSE IF op = "unmap" THEN "CHECK" ELSE "GOOD")
    /\ UNCHANGED <<ua, reserve_id, pr>>

-----------------------------------------------------------------------------
(* RESERVE, RELEASE and task management.                                   *)

Reserve6(i) ==
    /\ Performs(i)
    /\ IF device_reserved(i)
       THEN reserve_id' = reserve_id /\ Answer(i, "other", "CONFLICT")
       ELSE reserve_id' = i /\ Answer(i, "other", "GOOD")
    /\ UNCHANGED <<ua, pr>>

Release6(i) ==
    /\ Performs(i)
    /\ reserve_id' = IF reserve_id = i THEN None ELSE reserve_id
    /\ Answer(i, "other", "GOOD")
    /\ UNCHANGED <<ua, pr>>

\* CLEAR TASK SET, what it does outside the command queue.
ClearTaskSet(i) ==
    /\ Arrives(i) /\ UaRoom
    /\ ua' = [j \in Nexuses |->
                 IF session[j] # "in" THEN ua[j]
                 ELSE Append(ua[j], IF j = i THEN "POWERON" ELSE "CLEARED")]
    /\ Answer(i, "tmf", "GOOD")
    /\ UNCHANGED <<reserve_id, pr>>

\* Mutant: only the nexus that asked for the reset is told of it.
LogicalUnitReset_tells_caller_only(i) ==
    /\ Arrives(i) /\ UaRoom
    /\ reserve_id' = None
    /\ ua' = UaAdd({i}, "POWERON")
    /\ Answer(i, "tmf", "GOOD")
    /\ UNCHANGED pr

\* LOGICAL UNIT RESET, what it does outside the command queue.
LogicalUnitReset(i) ==
    /\ Arrives(i) /\ UaRoom
    /\ reserve_id' = None
    /\ ua' = UaAdd(Nexuses, "POWERON")
    /\ Answer(i, "tmf", "GOOD")
    /\ UNCHANGED pr

-----------------------------------------------------------------------------
(* PERSISTENT RESERVE OUT.                                                 *)

PrOut(i, action) == Performs(i) /\ action \in Actions

Refuse(i, status) ==
    /\ Answer(i, "other", status)
    /\ UNCHANGED <<ua, reserve_id, pr>>

\* prgeneration++, n times.
Bump(n) == prgeneration' = (prgeneration + n) % GenMod

\* Freeing the registrations of S.
Forget(S) ==
    /\ regs' = regs \ S
    /\ key' = [j \in Nexuses |-> IF j \in S THEN NoKey ELSE key[j]]

\* The registration of i goes away and nothing else.
unregister_plain(i) ==
    /\ Forget({i})
    /\ pr_type' = [pr_type EXCEPT ![i] = "none"]
    /\ pr_scope' = [pr_scope EXCEPT ![i] = "LU"]
    /\ Bump(1)
    /\ UNCHANGED <<ua, pr_holder>>

\* __unregister_and_clean and the generation count of its caller: the owner
\* of a reservation takes it along, unless all registrants own it and one is
\* left to point to.
unregister_and_clean(i) ==
    LET rest == regs \ {i}
    IN IF ~Holds(i)
       THEN unregister_plain(i)
       ELSE /\ Forget({i})
            /\ IF pr_type[pr_holder] \notin AllReg \/ rest = {}
               THEN /\ pr_holder' = None
                    /\ pr_type' = [pr_type EXCEPT ![pr_holder] = "none",
                                                  ![i] = "none"]
                    /\ pr_scope' = [pr_scope EXCEPT ![pr_holder] = "LU",
                                                    ![i] = "LU"]
                    /\ ua' = UaAddOtherForEach(rest, "RELEASED")
                    /\ Bump(2)
               ELSE /\ \E r \in rest :
                          /\ pr_holder' = r
                          /\ pr_type' = [pr_type EXCEPT ![r] = pr_type[pr_holder],
                                                        ![i] = "none"]
                          /\ pr_scope' = [pr_scope EXCEPT ![r] = pr_scope[pr_holder],
                                                          ![i] = "LU"]
                    /\ Bump(1)
                    /\ UNCHANGED ua

\* REGISTER, and REGISTER AND IGNORE EXISTING KEY (force).
spc_pr_register(i, force, res_key, sa_res_key) ==
    /\ PrOut(i, IF force THEN "REGISTER_IGNORE" ELSE "REGISTER")
    /\ \/ /\ ~force
          /\ res_key # key[i]
          /\ Refuse(i, "CONFLICT")
       \/ /\ force \/ res_key = key[i]
          /\ Answer(i, "other", "GOOD")
          /\ UNCHANGED reserve_id
          /\ IF sa_res_key # NoKey
             THEN /\ regs' = regs \cup {i}
                  /\ key' = [key EXCEPT ![i] = sa_res_key]
                  /\ Bump(1)
                  /\ UNCHANGED <<ua, pr_type, pr_scope, pr_holder>>
             ELSE IF i \in regs THEN unregister_and_clean(i)
                  ELSE /\ Bump(1)
                       /\ UNCHANGED <<ua, regs, key, pr_type, pr_scope, pr_holder>>

spc_pr_reserve(i, type, scope) ==
    LET valid == type \in ValidTypes /\ scope = "LU"
    IN /\ PrOut(i, "RESERVE")
       /\ \/ /\ ~valid
             /\ Refuse(i, "CHECK")
          \/ /\ valid
             /\ i \notin regs
             /\ Refuse(i, "CONFLICT")
          \/ /\ valid
             /\ i \in regs
             /\ pr_holder # None
             /\ Refuse(i, IF /\ is_pr_holder(i)
                             /\ pr_type[pr_holder] = type /\ pr_scope[pr_holder] = scope
                          THEN "GOOD" ELSE "CONFLICT")
          \/ /\ valid
             /\ i \in regs
             /\ pr_holder = None
             /\ pr_type' = [pr_type EXCEPT ![i] = type]
             /\ pr_scope' = [pr_scope EXCEPT ![i] = scope]
             /\ pr_holder' = i
             /\ Answer(i, "other", "GOOD")
             /\ UNCHANGED <<ua, reserve_id, regs, key, prgeneration>>

\* The types whose owners are not told of a RELEASE.
Shared == {"WE_REGONLY", "EA_REGONLY"} \cup AllReg

spc_pr_release(i, res_key, type, scope) ==
    LET same == pr_type[pr_holder] = type /\ pr_scope[pr_holder] = scope
    IN /\ PrOut(i, "RELEASE")
       /\ \/ /\ i \notin regs
             /\ Refuse(i, "CONFLICT")
          \/ /\ i \in regs
             /\ ~Holds(i)
             /\ Refuse(i, "GOOD")
          \/ /\ i \in regs
             /\ Holds(i)
             /\ res_key # key[i] \/ ~same
             /\ Refuse(i, IF res_key # key[i] THEN "CONFLICT" ELSE "CHECK")
          \/ /\ i \in regs
             /\ Holds(i)
             /\ res_key = key[i] /\ same
             /\ pr_holder' = None
             /\ pr_type' = [pr_type EXCEPT ![i] = "none"]
             /\ pr_scope' = [pr_scope EXCEPT ![i] = "LU"]
             /\ ua' = IF type \in Shared THEN ua
                      ELSE UaAddOtherForEach(regs \ {i}, "RELEASED")
             /\ Answer(i, "other", "GOOD")
             /\ UNCHANGED <<reserve_id, regs, key, prgeneration>>

spc_pr_clear(i, res_key) ==
    /\ PrOut(i, "CLEAR")
    /\ \/ /\ i \notin regs \/ key[i] # res_key
          /\ Refuse(i, "CONFLICT")
       \/ /\ i \in regs /\ key[i] = res_key
          /\ pr_holder' = None
          /\ pr_type' = [j \in Nexuses |-> "none"]
          /\ pr_scope' = [j \in Nexuses |-> "LU"]
          /\ ua' = UaAdd(regs \ {i}, "PREEMPTED")
          /\ Forget(regs)
          /\ Bump(1)
          /\ Answer(i, "other", "GOOD")
          /\ UNCHANGED reserve_id

\* The reservation a PREEMPT finds is of no interest to it, is taken over
\* for its key, or, when all registrants own it and the key is 0, is taken
\* over from all of them.
takes_all(sa_res_key) ==
    /\ pr_holder # None
    /\ pr_type[pr_holder] \in AllReg
    /\ sa_res_key = NoKey

takes_one(sa_res_key) ==
    /\ pr_holder # None
    /\ pr_type[pr_holder] \notin AllReg
    /\ key[pr_holder] = sa_res_key

takes_nothing(sa_res_key) ==
    /\ pr_holder # None
    /\ pr_type[pr_holder] \notin AllReg
    /\ key[pr_holder] # sa_res_key
    /\ sa_res_key = NoKey

\* Mutant: the reservation of a preempted holder is left where it was.
preempt_leaves_holder(i, sa_res_key, type, scope) ==
    LET takes == takes_all(sa_res_key) \/ takes_one(sa_res_key)
        victims == {j \in regs \ {i} :
                       key[j] = sa_res_key \/ takes_all(sa_res_key)}
    IN /\ ua' = UaAdd(victims, "PREEMPTED")
       /\ pr_type' = [j \in Nexuses |-> IF j \in victims THEN "none"
                                        ELSE IF takes /\ j = i THEN type
                                        ELSE pr_type[j]]
       /\ pr_scope' = [j \in Nexuses |-> IF j \in victims THEN "LU"
                                         ELSE IF takes /\ j = i THEN scope
                                         ELSE pr_scope[j]]
       /\ Forget(victims)
       /\ Bump(1)
       /\ UNCHANGED pr_holder

\* The effect of a PREEMPT that is not refused: i removes the registrations
\* with the key and tells each; the others hear when type or scope changes.
preempt(i, sa_res_key, type, scope) ==
    LET takes == takes_all(sa_res_key) \/ takes_one(sa_res_key)
        res_released == takes /\ \/ type # pr_type[pr_holder]
                                 \/ scope # pr_scope[pr_holder]
        victims == {j \in regs \ {i} :
                       key[j] = sa_res_key \/ takes_all(sa_res_key)}
    IN /\ pr_holder' = IF takes THEN i ELSE pr_holder
       /\ pr_type' = [j \in Nexuses |-> IF j \in victims THEN "none"
                                        ELSE IF takes /\ j = i THEN type
                                        ELSE pr_type[j]]
       /\ pr_scope' = [j \in Nexuses |-> IF j \in victims THEN "LU"
                                         ELSE IF takes /\ j = i THEN scope
                                         ELSE pr_scope[j]]
       /\ ua' = [j \in Nexuses |->
                    IF j \in victims /\ session[j] = "in"
                    THEN Append(ua[j], "PREEMPTED")
                    ELSE IF /\ res_released
                            /\ j \in regs \ {i}
                            /\ session[j] = "in"
                         THEN Append(ua[j], "RELEASED")
                         ELSE ua[j]]
       /\ Forget(victims)
       /\ Bump(1)

spc_pr_preempt(i, res_key, sa_res_key, type, scope) ==
    /\ PrOut(i, "PREEMPT")
    /\ LET unknown == sa_res_key # NoKey /\ \A j \in regs : key[j] # sa_res_key
       IN \/ /\ i \notin regs \/ key[i] # res_key \/ unknown
             /\ Refuse(i, "CONFLICT")
          \/ /\ i \in regs /\ key[i] = res_key /\ ~unknown
             /\ takes_nothing(sa_res_key)
             /\ Refuse(i, "CHECK")
          \/ /\ i \in regs /\ key[i] = res_key /\ ~unknown
             /\ ~takes_nothing(sa_res_key)
             /\ preempt(i, sa_res_key, type, scope)
             /\ Answer(i, "other", "GOOD")
             /\ UNCHANGED reserve_id

\* REGISTER AND MOVE with well-formed parameters; id_ok says whether the
\* TransportID is the one of the destination.  With no reservation the holder
\* test of a registered nexus reads through the NULL pr_holder.
spc_pr_register_and_move(i, res_key, sa_res_key, id_ok, unreg) ==
    /\ PrOut(i, "MOVE")
    /\ \/ /\ i \notin regs
          /\ Refuse(i, IF pr_holder # None THEN "CONFLICT" ELSE "CHECK")
       \/ /\ i \in regs
          /\ pr_holder = None
          /\ daemon' = "crashed"
          /\ UNCHANGED <<session, ua, reserve_id, pr, reply>>
       \/ /\ i \in regs
          /\ pr_holder # None /\ ~is_pr_holder(i)
          /\ Refuse(i, "GOOD")
       \/ /\ i \in regs
          /\ Holds(i)
          /\ res_key # key[i] \/ sa_res_key = NoKey
          /\ Refuse(i, "CONFLICT")
       \/ /\ i \in regs
          /\ Holds(i)
          /\ res_key = key[i] /\ sa_res_key # NoKey
          /\ (\A j \in regs : key[j] # sa_res_key) \/ ~id_ok
          /\ Refuse(i, "CHECK")
       \/ /\ i \in regs
          /\ Holds(i)
          /\ res_key = key[i] /\ sa_res_key # NoKey /\ id_ok
          /\ \E dst \in regs : key[dst] = sa_res_key /\ pr_holder' = dst
          /\ IF unreg
             THEN /\ Forget({i})
                  /\ pr_type' = [pr_type EXCEPT ![i] = "none"]
                  /\ pr_scope' = [pr_scope EXCEPT ![i] = "LU"]
             ELSE UNCHANGED <<regs, key, pr_type, pr_scope>>
          /\ Bump(1)
          /\ Answer(i, "other", "GOOD")
          /\ UNCHANGED <<ua, reserve_id>>

-----------------------------------------------------------------------------
AnyKey == Keys \cup {NoKey}

PersistentReserveOut(i) ==
    \/ \E force \in BOOLEAN, k, sa \in AnyKey : spc_pr_register(i, force, k, sa)
    \/ \E t \in Types, s \in Scopes : spc_pr_reserve(i, t, s)
    \/ \E k \in AnyKey, t \in Types, s \in Scopes : spc_pr_release(i, k, t, s)
    \/ \E k \in AnyKey : spc_pr_clear(i, k)
    \/ \E k, sa \in AnyKey, t \in Types, s \in Scopes : spc_pr_preempt(i, k, sa, t, s)
    \/ \E k, sa \in AnyKey, id_ok, unreg \in BOOLEAN :
          spc_pr_register_and_move(i, k, sa, id_ok, unreg)

Next ==
    \E i \in Nexuses :
        \/ ItNexusCreate(i)
        \/ ItNexusDestroy(i)
        \/ ReportUa(i)
        \/ \E op \in Accesses : DataAccess(i, op)
        \/ Reserve6(i)
        \/ Release6(i)
        \/ ClearTaskSet(i)
        \/ LogicalUnitReset(i)
        \/ PersistentReserveOut(i)

Spec == Init /\ [][Next]_vars

-----------------------------------------------------------------------------
(* Properties.                                                             *)

(* The classic reservation belongs to a session that is logged in: ending   *)
(* a session (it_nexus_destroy) and LOGICAL UNIT RESET release it, so no    *)
(* dead initiator keeps the LU from the others.                             *)
ReserverLoggedIn == reserve_id # None => session[reserve_id] = "in"

(* A nexus that loses its registration or its classic reservation through   *)
(* another's command or a reset, and is still logged in, has a unit         *)
(* attention pending that says so (CLEAR, PREEMPT, LOGICAL UNIT RESET).     *)
(* Whatever adds, removes or re-keys a registration also changes            *)
(* prgeneration, by which those who read the keys notice it.                *)
TellsLoss ==
    /\ <<regs, key>>' # <<regs, key>> => prgeneration' # prgeneration
    /\ \A i \in Nexuses :
          \/ session'[i] # "in"
          \/ reply'.itn = i /\ reply'.op # "tmf"
          \/ /\ i \in regs \ regs' =>
                   \E n \in 1..Len(ua'[i]) : ua'[i][n] = "PREEMPTED"
             /\ reserve_id = i /\ reserve_id' # i =>
                   \E n \in 1..Len(ua'[i]) : ua'[i][n] = "POWERON"

LossIsTold == [][TellsLoss]_vars

\* The reservation that pr_holder points to: the registration is in the list
\* and has one of the types there are.
ReservationSound ==
    pr_holder # None => pr_holder \in regs /\ pr_type[pr_holder] \in ValidTypes

\* The commands that may leave another reservation behind: REGISTER AND MOVE,
\* which moves the pointer without the type, and a PREEMPT with a type that
\* does not exist or with the key of the registration that stands for all.
Unsettles(i) ==
    \/ \E k, sa \in AnyKey, id_ok, unreg \in BOOLEAN :
          spc_pr_register_and_move(i, k, sa, id_ok, unreg)
    \/ \E k, sa \in AnyKey, t \in Types, s \in Scopes :
          /\ \/ t \notin ValidTypes
             \/ /\ pr_holder \notin {None, i}
                /\ pr_type[pr_holder] \in AllReg
                /\ key[pr_holder] = sa
          /\ spc_pr_preempt(i, k, sa, t, s)

(* No reservation outlives its owner.  The classic one goes with the        *)
(* session (it_nexus_destroy), the persistent one with the registration     *)
(* (__unregister_and_clean, spc_pr_preempt, spc_pr_clear): a sound          *)
(* reservation stays sound, or is gone, after every command but those of    *)
(* Unsettles.                                                               *)
HolderKept ==
    /\ []ReserverLoggedIn
    /\ [][ReservationSound => ReservationSound' \/ \E i \in Nexuses : Unsettles(i)]_vars

\* The reservation as the initiators see it: its type, and its owner unless
\* all registrants own it.
Resv ==
    IF pr_holder = None
    THEN [type |-> "none", owner |-> None]
    ELSE [type |-> pr_type[pr_holder],
          owner |-> IF pr_type[pr_holder] \in AllReg THEN None ELSE pr_holder]

\* The promise of ReservationSpec, read off the list and the pointer.
Promise == INSTANCE ReservationSpec WITH
    reserver <- reserve_id, regKey <- key, resv <- Resv

\* The writes that the conflict bits let through although a persistent
\* reservation may forbid them: WRITE AND VERIFY and ORWRITE under a Write
\* Exclusive one, WRITE SAME, FORMAT UNIT and UNMAP under any.
Slips(i) ==
    \E op \in Accesses :
        /\ pr_holder # None
        /\ \/ op \in {"write_same", "unmap"}
           \/ op = "write_verify" /\ pr_type[pr_holder] \in Promise!WriteExclusive
        /\ DataAccess(i, op)

(* The list, the pointer, the types and the conflict bits implement         *)
(* ReservationSpec, as long as the reservation is sound: every command but  *)
(* those of Unsettles has the effect it gives it, and every medium access   *)
(* but those of Slips the answer it calls for.                              *)
PromiseKept ==
    /\ Promise!Init
    /\ [][ReservationSound => \/ [Promise!Next]_(Promise!vars)
                              \/ \E i \in Nexuses : Unsettles(i) \/ Slips(i)]_vars

=============================================================================
