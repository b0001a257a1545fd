--------------------------- MODULE LuAccessProofs ---------------------------
(***************************************************************************)
(* Proofs about LuAccess for every set of nexuses, keys and types: type    *)
(* correctness, no classic reservation without a live owner, and, where    *)
(* the code promises it, no dangling pr_holder.                            *)
(***************************************************************************)
EXTENDS LuAccess, FiniteSetTheorems, TLAPS

-----------------------------------------------------------------------------
(* Types.                                                                  *)

\* A UA for some nexuses.
LEMMA UaAddType ==
    ASSUME TypeOK, NEW S, NEW asc \in Asc
    PROVE  UaAdd(S, asc) \in [Nexuses -> Seq(Asc)]
  <1> SUFFICES ASSUME NEW j \in Nexuses PROVE Append(ua[j], asc) \in Seq(Asc) /\ ua[j] \in Seq(Asc)
    BY Zenon DEF UaAdd
  <1> QED BY DEF TypeOK

\* One UA for each of a set of registrations.
LEMMA UaAddOtherType ==
    ASSUME TypeOK, NEW R \in SUBSET Nexuses, NEW asc \in Asc
    PROVE  UaAddOtherForEach(R, asc) \in [Nexuses -> Seq(Asc)]
  <1> SUFFICES ASSUME NEW j \in Nexuses
               PROVE  /\ ua[j] \in Seq(Asc)
                      /\ ua[j] \o [n \in 1..Cardinality(R \ {j}) |-> asc] \in Seq(Asc)
    BY Zenon DEF UaAddOtherForEach
  <1> DEFINE k == Cardinality(R \ {j})
             new == [n \in 1..k |-> asc]
  <1>1. IsFiniteSet(R \ {j})
    BY Zenon, AccessConstants, FS_Subset
  <1>2. k \in Nat
    BY Zenon, <1>1, FS_CardinalityType
  <1> HIDE DEF k
  <1>3. new \in Seq(Asc)
    BY <1>2
  <1> HIDE DEF new
  <1>4. ua[j] \in Seq(Asc)
    BY Zenon DEF TypeOK
  <1>5. ua[j] \o new \in Seq(Asc)
    BY <1>3, <1>4
  <1> QED BY Zenon, <1>4, <1>5 DEF new, k

\* Counting the generation.
LEMMA BumpType ==
    ASSUME TypeOK, NEW n \in Nat, Bump(n)
    PROVE  prgeneration' \in 0..(GenMod - 1)
  BY AccessConstants DEF TypeOK, Bump

\* An answer.
LEMMA AnswerType ==
    ASSUME TypeOK, NEW i \in Nexuses,
           NEW op \in MediumOps \cup {"none", "tmf", "other"},
           NEW status \in Statuses, Answer(i, op, status)
    PROVE  reply' \in Replies /\ UNCHANGED <<session, daemon>>
  BY Zenon DEF Answer, Replies

\* A command that is refused or has no effect.
LEMMA RefuseType ==
    ASSUME TypeOK, NEW i \in Nexuses, NEW status \in Statuses, Refuse(i, status)
    PROVE  TypeOK'
  <1>1. Answer(i, "other", status) /\ UNCHANGED <<ua, reserve_id, pr>>
    BY Zenon DEF Refuse
  <1>2. reply' \in Replies /\ UNCHANGED <<session, daemon>>
    BY Zenon, <1>1, AnswerType
  <1> QED BY Zenon, <1>1, <1>2 DEF TypeOK, pr

\* Freeing registrations.
LEMMA ForgetType ==
    ASSUME TypeOK, NEW S, Forget(S)
    PROVE  regs' \subseteq Nexuses /\ key' \in [Nexuses -> Keys \cup {NoKey}]
  BY Zenon DEF TypeOK, Forget

\* What unregister_and_clean does to the registrations, the UAs and the rest.
LEMMA UnregisterType ==
    ASSUME TypeOK, NEW i \in Nexuses, unregister_and_clean(i)
    PROVE  /\ regs' \subseteq Nexuses /\ key' \in [Nexuses -> Keys \cup {NoKey}]
           /\ pr_type' \in [Nexuses -> ValidTypes \cup {"none", "other"}]
           /\ pr_scope' \in [Nexuses -> Scopes]
           /\ pr_holder' \in Nexuses \cup {None}
           /\ prgeneration' \in 0..(GenMod - 1)
           /\ ua' \in [Nexuses -> Seq(Asc)]
  <1> DEFINE rest == regs \ {i}
  <1>1. Forget({i})
    BY Zenon DEF unregister_and_clean, unregister_plain
  <1>2. regs' \subseteq Nexuses /\ key' \in [Nexuses -> Keys \cup {NoKey}]
    BY Zenon, <1>1, ForgetType
  <1>3. CASE unregister_plain(i)
    <2>1. pr_scope' \in [Nexuses -> Scopes]
      BY Zenon, <1>3 DEF unregister_plain, TypeOK, Scopes
    <2> QED BY Zenon, <1>2, <1>3, <2>1, BumpType DEF unregister_plain, TypeOK
  <1>4. CASE /\ pr_holder' = None
             /\ pr_type' = [pr_type EXCEPT ![pr_holder] = "none", ![i] = "none"]
             /\ pr_scope' = [pr_scope EXCEPT ![pr_holder] = "LU", ![i] = "LU"]
             /\ ua' = UaAddOtherForEach(rest, "RELEASED")
             /\ Bump(2)
    <2>1. ua' \in [Nexuses -> Seq(Asc)]
      BY ZenonT(40), <1>4, UaAddOtherType DEF TypeOK, Asc
    <2>2. pr_type' \in [Nexuses -> ValidTypes \cup {"none", "other"}]
      BY Zenon, <1>4 DEF TypeOK
    <2>3. pr_scope' \in [Nexuses -> Scopes]
      BY Zenon, <1>4 DEF TypeOK, Scopes
    <2> QED BY ZenonT(40), <1>2, <1>4, <2>1, <2>2, <2>3, BumpType
  <1>5. CASE Holds(i) /\ Bump(1) /\ UNCHANGED ua
             /\ \E r \in rest :
                   /\ pr_holder' = r
                   /\ pr_type' = [pr_type EXCEPT ![r] = pr_type[pr_holder], ![i] = "none"]
                   /\ pr_scope' = [pr_scope EXCEPT ![r] = pr_scope[pr_holder], ![i] = "LU"]
    <2>1. PICK r \in rest :
                   /\ pr_holder' = r
                   /\ pr_type' = [pr_type EXCEPT ![r] = pr_type[pr_holder], ![i] = "none"]
                   /\ pr_scope' = [pr_scope EXCEPT ![r] = pr_scope[pr_holder], ![i] = "LU"]
      BY ZenonT(40), <1>5
    <2>2. r \in Nexuses /\ pr_holder \in Nexuses
      BY Zenon, <1>5 DEF TypeOK, Holds
    <2>3. pr_type' \in [Nexuses -> ValidTypes \cup {"none", "other"}]
      BY ZenonT(40), <2>1, <2>2 DEF TypeOK
    <2>4. pr_scope' \in [Nexuses -> Scopes]
      BY ZenonT(40), <2>1, <2>2 DEF TypeOK, Scopes
    <2> QED BY ZenonT(40), <1>2, <1>5, <2>1, <2>2, <2>3, <2>4, BumpType DEF TypeOK
  <1> QED BY Zenon, <1>3, <1>4, <1>5 DEF unregister_and_clean

\* What preempt does to the registrations, the UAs and the rest.
LEMMA PreemptType ==
    ASSUME TypeOK, NEW i \in Nexuses, NEW sa, NEW type \in ValidTypes \cup {"other"},
           NEW scope \in Scopes, preempt(i, sa, type, scope)
    PROVE  /\ regs' \subseteq Nexuses /\ key' \in [Nexuses -> Keys \cup {NoKey}]
           /\ pr_type' \in [Nexuses -> ValidTypes \cup {"none", "other"}]
           /\ pr_scope' \in [Nexuses -> Scopes]
           /\ pr_holder' \in Nexuses \cup {None}
           /\ prgeneration' \in 0..(GenMod - 1)
           /\ ua' \in [Nexuses -> Seq(Asc)]
  <1>1. regs' \subseteq Nexuses /\ key' \in [Nexuses -> Keys \cup {NoKey}]
    BY Zenon, ForgetType DEF preempt
  <1>2. prgeneration' \in 0..(GenMod - 1)
    BY Zenon, BumpType DEF preempt
  <1>3. pr_holder' \in Nexuses \cup {None}
    BY Zenon DEF preempt, TypeOK
  <1>4. pr_type' \in [Nexuses -> ValidTypes \cup {"none", "other"}]
    BY Zenon DEF preempt, TypeOK
  <1>5. \A j \in Nexuses : /\ ua[j] \in Seq(Asc)
                           /\ Append(ua[j], "PREEMPTED") \in Seq(Asc)
                           /\ Append(ua[j], "RELEASED") \in Seq(Asc)
    BY DEF TypeOK, Asc
  <1>6. ua' \in [Nexuses -> Seq(Asc)]
    BY Zenon, <1>5 DEF preempt
  <1>7. pr_scope' \in [Nexuses -> Scopes]
    BY Zenon DEF preempt, TypeOK, Scopes
  <1> QED BY Zenon, <1>1, <1>2, <1>3, <1>4, <1>6, <1>7

\* REGISTER keeps the types.
LEMMA RegisterType ==
    ASSUME TypeOK, NEW i \in Nexuses, NEW force \in BOOLEAN, NEW k \in AnyKey,
           NEW sa \in AnyKey, spc_pr_register(i, force, k, sa)
    PROVE  TypeOK'
  <1>1. CASE Refuse(i, "CONFLICT")
    BY Zenon, <1>1, RefuseType DEF Statuses
  <1>2. CASE /\ Answer(i, "other", "GOOD") /\ UNCHANGED reserve_id
             /\ sa # NoKey /\ regs' = regs \cup {i}
             /\ key' = [key EXCEPT ![i] = sa] /\ Bump(1)
             /\ UNCHANGED <<ua, pr_type, pr_scope, pr_holder>>
    <2>1. reply' \in Replies /\ UNCHANGED <<session, daemon>>
      BY Zenon, <1>2, AnswerType DEF Statuses
    <2>2. key' \in [Nexuses -> Keys \cup {NoKey}] /\ regs' \subseteq Nexuses
      BY Zenon, <1>2 DEF TypeOK, AnyKey
    <2> QED BY Zenon, <1>2, <2>1, <2>2, BumpType DEF TypeOK
  <1>3. CASE /\ Answer(i, "other", "GOOD") /\ UNCHANGED reserve_id
             /\ unregister_and_clean(i)
    <2>1. reply' \in Replies /\ UNCHANGED <<session, daemon>>
      BY Zenon, <1>3, AnswerType DEF Statuses
    <2> QED BY Zenon, <1>3, <2>1, UnregisterType DEF TypeOK
  <1>4. CASE /\ Answer(i, "other", "GOOD") /\ UNCHANGED reserve_id /\ Bump(1)
             /\ UNCHANGED <<ua, regs, key, pr_type, pr_scope, pr_holder>>
    <2>1. reply' \in Replies /\ UNCHANGED <<session, daemon>>
      BY Zenon, <1>4, AnswerType DEF Statuses
    <2> QED BY Zenon, <1>4, <2>1, BumpType DEF TypeOK
  <1> QED BY Zenon, <1>1, <1>2, <1>3, <1>4 DEF spc_pr_register

\* RESERVE keeps the types.
LEMMA ReserveType ==
    ASSUME TypeOK, NEW i \in Nexuses, NEW type \in Types, NEW scope \in Scopes,
           spc_pr_reserve(i, type, scope)
    PROVE  TypeOK'
  <1>1. ASSUME NEW status \in Statuses, Refuse(i, status) PROVE TypeOK'
    BY Zenon, <1>1, RefuseType
  <1>2. CASE /\ type \in ValidTypes /\ pr_type' = [pr_type EXCEPT ![i] = type]
             /\ pr_scope' = [pr_scope EXCEPT ![i] = scope]
             /\ pr_holder' = i /\ Answer(i, "other", "GOOD")
             /\ UNCHANGED <<ua, reserve_id, regs, key, prgeneration>>
    <2>1. reply' \in Replies /\ UNCHANGED <<session, daemon>>
      BY Zenon, <1>2, AnswerType DEF Statuses
    <2>2. pr_type' \in [Nexuses -> ValidTypes \cup {"none", "other"}]
      BY Zenon, <1>2 DEF TypeOK
    <2>3. pr_scope' \in [Nexuses -> Scopes]
      BY Zenon, <1>2 DEF TypeOK, Scopes
    <2> QED BY Zenon, <1>2, <2>1, <2>2, <2>3 DEF TypeOK
  <1> QED BY Zenon, <1>1, <1>2 DEF spc_pr_reserve, Statuses

\* RELEASE keeps the types.
LEMMA ReleaseType ==
    ASSUME TypeOK, NEW i \in Nexuses, NEW k, NEW type, NEW scope,
           spc_pr_release(i, k, type, scope)
    PROVE  TypeOK'
  <1>1. ASSUME NEW status \in Statuses, Refuse(i, status) PROVE TypeOK'
    BY Zenon, <1>1, RefuseType
  <1>2. CASE /\ pr_holder' = None /\ pr_type' = [pr_type EXCEPT ![i] = "none"]
             /\ pr_scope' = [pr_scope EXCEPT ![i] = "LU"]
             /\ ua' = IF type \in Shared THEN ua
                      ELSE UaAddOtherForEach(regs \ {i}, "RELEASED")
             /\ Answer(i, "other", "GOOD")
             /\ UNCHANGED <<reserve_id, regs, key, prgeneration>>
    <2>1. reply' \in Replies /\ UNCHANGED <<session, daemon>>
      BY Zenon, <1>2, AnswerType DEF Statuses
    <2>2. pr_type' \in [Nexuses -> ValidTypes \cup {"none", "other"}]
      BY Zenon, <1>2 DEF TypeOK
    <2>3. UaAddOtherForEach(regs \ {i}, "RELEASED") \in [Nexuses -> Seq(Asc)]
      BY ZenonT(40), UaAddOtherType DEF TypeOK, Asc
    <2>4. ua' \in [Nexuses -> Seq(Asc)]
      BY ZenonT(40), <1>2, <2>3 DEF TypeOK
    <2>5. pr_scope' \in [Nexuses -> Scopes]
      BY Zenon, <1>2 DEF TypeOK, Scopes
    <2> QED BY ZenonT(40), <1>2, <2>1, <2>2, <2>4, <2>5 DEF TypeOK
  <1> QED BY Zenon, <1>1, <1>2 DEF spc_pr_release, Statuses

\* CLEAR keeps the types.
LEMMA ClearType ==
    ASSUME TypeOK, NEW i \in Nexuses, NEW k, spc_pr_clear(i, k)
    PROVE  TypeOK'
  <1>1. CASE Refuse(i, "CONFLICT")
    BY Zenon, <1>1, RefuseType DEF Statuses
  <1>2. CASE /\ pr_holder' = None /\ pr_type' = [j \in Nexuses |-> "none"]
             /\ pr_scope' = [j \in Nexuses |-> "LU"]
             /\ ua' = UaAdd(regs \ {i}, "PREEMPTED") /\ Forget(regs) /\ Bump(1)
             /\ Answer(i, "other", "GOOD") /\ UNCHANGED reserve_id
    <2>1. reply' \in Replies /\ UNCHANGED <<session, daemon>>
      BY Zenon, <1>2, AnswerType DEF Statuses
    <2>2. ua' \in [Nexuses -> Seq(Asc)]
      BY Zenon, <1>2, UaAddType DEF Asc
    <2>3. pr_type' \in [Nexuses -> ValidTypes \cup {"none", "other"}]
      BY Zenon, <1>2
    <2>4. pr_scope' \in [Nexuses -> Scopes]
      BY Zenon, <1>2 DEF Scopes
    <2> QED BY ZenonT(40), <1>2, <2>1, <2>2, <2>3, <2>4, ForgetType, BumpType DEF TypeOK
  <1> QED BY Zenon, <1>1, <1>2 DEF spc_pr_clear

\* PREEMPT keeps the types.
LEMMA PreemptStepType ==
    ASSUME TypeOK, NEW i \in Nexuses, NEW k, NEW sa, NEW type \in Types,
           NEW scope \in Scopes, spc_pr_preempt(i, k, sa, type, scope)
    PROVE  TypeOK'
  <1>1. ASSUME NEW status \in Statuses, Refuse(i, status) PROVE TypeOK'
    BY Zenon, <1>1, RefuseType
  <1>2. CASE preempt(i, sa, type, scope) /\ Answer(i, "other", "GOOD") /\ UNCHANGED reserve_id
    <2>1. reply' \in Replies /\ UNCHANGED <<session, daemon>>
      BY Zenon, <1>2, AnswerType DEF Statuses
    <2> QED BY Zenon, <1>2, <2>1, PreemptType, AccessConstants DEF TypeOK
  <1> QED BY Zenon, <1>1, <1>2 DEF spc_pr_preempt, Statuses

\* REGISTER AND MOVE keeps the types.
LEMMA MoveType ==
    ASSUME TypeOK, NEW i \in Nexuses, NEW k, NEW sa, NEW id_ok \in BOOLEAN,
           NEW unreg \in BOOLEAN, spc_pr_register_and_move(i, k, sa, id_ok, unreg)
    PROVE  TypeOK'
  <1>1. ASSUME NEW status \in Statuses, Refuse(i, status) PROVE TypeOK'
    BY Zenon, <1>1, RefuseType
  <1>2. CASE daemon' = "crashed" /\ UNCHANGED <<session, ua, reserve_id, pr, reply>>
    BY Zenon, <1>2 DEF TypeOK, pr
  <1>3. CASE /\ \E dst \in regs : pr_holder' = dst
             /\ IF unreg
                THEN /\ Forget({i}) /\ pr_type' = [pr_type EXCEPT ![i] = "none"]
                     /\ pr_scope' = [pr_scope EXCEPT ![i] = "LU"]
                ELSE UNCHANGED <<regs, key, pr_type, pr_scope>>
             /\ Bump(1) /\ Answer(i, "other", "GOOD") /\ UNCHANGED <<ua, reserve_id>>
    <2>1. reply' \in Replies /\ UNCHANGED <<session, daemon>>
      BY Zenon, <1>3, AnswerType DEF Statuses
    <2>2. /\ regs' \subseteq Nexuses /\ key' \in [Nexuses -> Keys \cup {NoKey}]
          /\ pr_type' \in [Nexuses -> ValidTypes \cup {"none", "other"}]
      BY ZenonT(40), <1>3, ForgetType DEF TypeOK
    <2>3. pr_scope' \in [Nexuses -> Scopes]
      BY ZenonT(40), <1>3 DEF TypeOK, Scopes
    <2> QED BY Zenon, <1>3, <2>1, <2>2, <2>3, BumpType DEF TypeOK
  <1> QED BY Zenon, <1>1, <1>2, <1>3 DEF spc_pr_register_and_move, Statuses

\* Sessions, task management, RESERVE, RELEASE and data access keep the types.
LEMMA CommandType ==
    ASSUME TypeOK, NEW i \in Nexuses,
           \/ ItNexusCreate(i) \/ ItNexusDestroy(i) \/ ReportUa(i)
           \/ (\E op \in Accesses : DataAccess(i, op))
           \/ Reserve6(i) \/ Release6(i) \/ ClearTaskSet(i) \/ LogicalUnitReset(i)
    PROVE  TypeOK'
  <1>1. CASE ItNexusCreate(i)
    <2>1. ua' \in [Nexuses -> Seq(Asc)]
      <3>1. <<"POWERON">> \in Seq(Asc)
        BY DEF Asc
      <3> QED BY Zenon, <1>1, <3>1 DEF ItNexusCreate, TypeOK
    <2> QED BY Zenon, <1>1, <2>1 DEF ItNexusCreate, TypeOK, pr
  <1>2. CASE ItNexusDestroy(i)
    <2>1. ua' \in [Nexuses -> Seq(Asc)]
      <3>1. <<>> \in Seq(Asc)
        OBVIOUS
      <3> QED BY Zenon, <1>2, <3>1 DEF ItNexusDestroy, TypeOK
    <2> QED BY Zenon, <1>2, <2>1 DEF ItNexusDestroy, TypeOK, pr
  <1>3. CASE ReportUa(i)
    <2>1. Tail(ua[i]) \in Seq(Asc)
      BY <1>3 DEF ReportUa, TypeOK
    <2>2. ua' \in [Nexuses -> Seq(Asc)]
      BY Zenon, <1>3, <2>1 DEF ReportUa, TypeOK
    <2>3. reply' \in Replies /\ UNCHANGED <<session, daemon>>
      BY Zenon, <1>3, AnswerType DEF ReportUa, Statuses
    <2> QED BY Zenon, <1>3, <2>2, <2>3 DEF ReportUa, TypeOK, pr
  <1>4. ASSUME NEW op \in Accesses, DataAccess(i, op) PROVE TypeOK'
    <2>1. op \in MediumOps
      BY Zenon, AccessConstants
    <2>2. reply' \in Replies /\ UNCHANGED <<session, daemon>>
      BY Zenon, <1>4, <2>1, AnswerType DEF DataAccess, Statuses
    <2> QED BY Zenon, <1>4, <2>2 DEF DataAccess, TypeOK, pr
  <1>5. CASE Reserve6(i) \/ Release6(i)
    <2>1. reply' \in Replies /\ UNCHANGED <<session, daemon>>
      BY Zenon, <1>5, AnswerType DEF Reserve6, Release6, Statuses
    <2> QED BY Zenon, <1>5, <2>1 DEF Reserve6, Release6, TypeOK, pr
  <1>6. CASE ClearTaskSet(i)
    <2>1. reply' \in Replies /\ UNCHANGED <<session, daemon>>
      BY Zenon, <1>6, AnswerType DEF ClearTaskSet, Statuses
    <2>2. \A j \in Nexuses : /\ ua[j] \in Seq(Asc)
                             /\ Append(ua[j], "POWERON") \in Seq(Asc)
                             /\ Append(ua[j], "CLEARED") \in Seq(Asc)
      BY DEF TypeOK, Asc
    <2>3. ua' \in [Nexuses -> Seq(Asc)]
      BY Zenon, <1>6, <2>2 DEF ClearTaskSet
    <2> QED BY ZenonT(30), <1>6, <2>1, <2>3 DEF ClearTaskSet, TypeOK, pr
  <1>7. CASE LogicalUnitReset(i)
    <2>1. reply' \in Replies /\ UNCHANGED <<session, daemon>>
      BY Zenon, <1>7, AnswerType DEF LogicalUnitReset, Statuses
    <2>2. ua' \in [Nexuses -> Seq(Asc)]
      BY Zenon, <1>7, UaAddType DEF LogicalUnitReset, Asc
    <2> QED BY Zenon, <1>7, <2>1, <2>2 DEF LogicalUnitReset, TypeOK, pr
  <1> QED BY Zenon, <1>1, <1>2, <1>3, <1>4, <1>5, <1>6, <1>7

\* Reservations, registrations and unit attentions stay well typed: in particular
\* pr_holder and reserve_id only ever name nexuses.
THEOREM TypeCorrect == Spec => []TypeOK
  <1>1. Init => TypeOK
    BY AccessConstants DEF Init, TypeOK, Replies, Statuses, Scopes
  <1>2. TypeOK /\ [Next]_vars => TypeOK'
    <2> SUFFICES ASSUME TypeOK, [Next]_vars PROVE TypeOK'
      BY Zenon
    <2>1. CASE UNCHANGED vars
      BY Zenon, <2>1 DEF TypeOK, vars, pr
    <2>2. ASSUME NEW i \in Nexuses, PersistentReserveOut(i) PROVE TypeOK'
      BY Zenon, <2>2, RegisterType, ReserveType, ReleaseType, ClearType, PreemptStepType, MoveType
      DEF PersistentReserveOut
    <2> QED BY Zenon, <2>1, <2>2, CommandType DEF Next
  <1> QED BY <1>1, <1>2, PTL DEF Spec

-----------------------------------------------------------------------------
(* The classic reservation.                                                *)

\* PERSISTENT RESERVE OUT touches neither the sessions nor reserve_id.
LEMMA PrOutFrame ==
    ASSUME NEW i \in Nexuses, PersistentReserveOut(i)
    PROVE  UNCHANGED <<session, reserve_id>>
  <1>1. ASSUME NEW status, Refuse(i, status) PROVE UNCHANGED <<session, reserve_id>>
    BY Zenon, <1>1 DEF Refuse, Answer
  <1>2. ASSUME NEW status, Answer(i, "other", status), UNCHANGED reserve_id
        PROVE  UNCHANGED <<session, reserve_id>>
    BY Zenon, <1>2 DEF Answer
  <1>3. ASSUME NEW force, NEW k, NEW sa, spc_pr_register(i, force, k, sa)
        PROVE  UNCHANGED <<session, reserve_id>>
    BY Zenon, <1>1, <1>2, <1>3 DEF spc_pr_register
  <1>4. ASSUME NEW type, NEW scope, spc_pr_reserve(i, type, scope)
        PROVE  UNCHANGED <<session, reserve_id>>
    BY Zenon, <1>1, <1>2, <1>4 DEF spc_pr_reserve
  <1>5. ASSUME NEW k, NEW type, NEW scope, spc_pr_release(i, k, type, scope)
        PROVE  UNCHANGED <<session, reserve_id>>
    BY Zenon, <1>1, <1>2, <1>5 DEF spc_pr_release
  <1>6. ASSUME NEW k, spc_pr_clear(i, k)
        PROVE  UNCHANGED <<session, reserve_id>>
    BY Zenon, <1>1, <1>2, <1>6 DEF spc_pr_clear
  <1>7. ASSUME NEW k, NEW sa, NEW type, NEW scope, spc_pr_preempt(i, k, sa, type, scope)
        PROVE  UNCHANGED <<session, reserve_id>>
    BY Zenon, <1>1, <1>2, <1>7 DEF spc_pr_preempt
  <1>8. ASSUME NEW k, NEW sa, NEW id_ok, NEW unreg,
               spc_pr_register_and_move(i, k, sa, id_ok, unreg)
        PROVE  UNCHANGED <<session, reserve_id>>
    BY Zenon, <1>1, <1>2, <1>8 DEF spc_pr_register_and_move
  <1> QED BY ZenonT(30), <1>3, <1>4, <1>5, <1>6, <1>7, <1>8 DEF PersistentReserveOut

\* No dead session keeps the classic reservation, whatever the others do:
\* it_nexus_destroy and the reset release it, and only a live session takes it.
THEOREM ReserverCorrect == Spec => []ReserverLoggedIn
  <1>1. Init => ReserverLoggedIn
    BY Zenon DEF Init, ReserverLoggedIn
  <1>2. TypeOK /\ ReserverLoggedIn /\ [Next]_vars => ReserverLoggedIn'
    <2> SUFFICES ASSUME TypeOK, ReserverLoggedIn, [Next]_vars PROVE ReserverLoggedIn'
      BY Zenon
    <2>1. CASE UNCHANGED vars
      BY Zenon, <2>1 DEF ReserverLoggedIn, vars
    <2>2. ASSUME NEW i \in Nexuses, ItNexusCreate(i) \/ ItNexusDestroy(i)
          PROVE  ReserverLoggedIn'
      BY <2>2 DEF ItNexusCreate, ItNexusDestroy, ReserverLoggedIn, TypeOK
    <2>3. ASSUME NEW i \in Nexuses,
                 \/ ReportUa(i) \/ (\E op \in Accesses : DataAccess(i, op))
                 \/ Reserve6(i) \/ Release6(i) \/ ClearTaskSet(i) \/ LogicalUnitReset(i)
          PROVE  ReserverLoggedIn'
      BY Zenon, <2>3, AccessConstants
      DEF ReportUa, DataAccess, Reserve6, Release6, ClearTaskSet, LogicalUnitReset,
          Performs, Arrives, Answer, ReserverLoggedIn
    <2>4. ASSUME NEW i \in Nexuses, PersistentReserveOut(i) PROVE ReserverLoggedIn'
      BY Zenon, <2>4, PrOutFrame DEF ReserverLoggedIn
    <2> QED BY Zenon, <2>1, <2>2, <2>3, <2>4 DEF Next
  <1> QED BY <1>1, <1>2, TypeCorrect, PTL DEF Spec

-----------------------------------------------------------------------------
(* Who loses something is told.                                            *)

\* One more registration or one less: the generation is another.
LEMMA BumpChanges ==
    ASSUME TypeOK, NEW n \in {1, 2}, Bump(n)
    PROVE  prgeneration' # prgeneration
  <1> DEFINE g == prgeneration
             m == GenMod
  <1>1. g \in 0..(m - 1) /\ m \in Nat /\ m > 2
    BY Zenon, AccessConstants DEF TypeOK
  <1>2. prgeneration' = (g + n) % m
    BY Zenon DEF Bump
  <1> HIDE DEF g, m
  <1>3. (g + n) % m # g
    BY <1>1
  <1> QED BY Zenon, <1>2, <1>3 DEF g

\* A unit attention that is added is pending.
LEMMA AppendPending ==
    ASSUME NEW s \in Seq(Asc), NEW asc \in Asc
    PROVE  \E n \in 1..Len(Append(s, asc)) : Append(s, asc)[n] = asc
  <1>1. Len(s) + 1 \in 1..Len(Append(s, asc)) /\ Append(s, asc)[Len(s) + 1] = asc
    OBVIOUS
  <1> QED BY Zenon, <1>1

\* Nothing is lost where nothing changes.
LEMMA KeptTold ==
    ASSUME UNCHANGED <<regs, key, reserve_id>>
    PROVE  TellsLoss
  BY Zenon DEF TellsLoss

\* A command of PERSISTENT RESERVE OUT: what i does to itself it knows.
LEMMA OthersTold ==
    ASSUME NEW i \in Nexuses, NEW status, prgeneration' # prgeneration, UNCHANGED reserve_id,
           Answer(i, "other", status),
           \A j \in Nexuses \ {i} : j \in regs \ regs' /\ session[j] = "in" =>
               \E n \in 1..Len(ua'[j]) : ua'[j][n] = "PREEMPTED"
    PROVE  TellsLoss
  <1>1. reply'.itn = i /\ reply'.op # "tmf" /\ session' = session
    BY Zenon DEF Answer
  <1> QED BY Zenon, <1>1 DEF TellsLoss

\* REGISTER takes no one's registration but that of the nexus that sends it.
LEMMA RegisterTold ==
    ASSUME TypeOK, NEW i \in Nexuses, NEW force, NEW k, NEW sa,
           spc_pr_register(i, force, k, sa)
    PROVE  TellsLoss
  <1>1. CASE Refuse(i, "CONFLICT")
    BY Zenon, <1>1, KeptTold DEF Refuse, pr
  <1>2. CASE Answer(i, "other", "GOOD") /\ UNCHANGED reserve_id
             /\ \E n \in {1, 2} : Bump(n)
             /\ regs \ {i} \subseteq regs'
    <2>1. prgeneration' # prgeneration
      BY Zenon, <1>2, BumpChanges
    <2> QED BY Zenon, <1>2, <2>1, OthersTold
  <1>3. unregister_and_clean(i) => /\ \E n \in {1, 2} : Bump(n)
                                   /\ regs \ {i} \subseteq regs'
    BY Zenon DEF unregister_and_clean, unregister_plain, Forget
  <1> QED BY Zenon, <1>1, <1>2, <1>3 DEF spc_pr_register

\* CLEAR tells every other registrant.
LEMMA ClearTold ==
    ASSUME TypeOK, NEW i \in Nexuses, NEW k, spc_pr_clear(i, k)
    PROVE  TellsLoss
  <1>1. CASE Refuse(i, "CONFLICT")
    BY Zenon, <1>1, KeptTold DEF Refuse, pr
  <1>2. CASE /\ ua' = UaAdd(regs \ {i}, "PREEMPTED")
             /\ Bump(1) /\ Answer(i, "other", "GOOD") /\ UNCHANGED reserve_id
    <2>1. prgeneration' # prgeneration
      BY Zenon, <1>2, BumpChanges
    <2>2. ASSUME NEW j \in Nexuses \ {i}, j \in regs, session[j] = "in"
          PROVE  \E n \in 1..Len(ua'[j]) : ua'[j][n] = "PREEMPTED"
      <3>1. ua'[j] = Append(ua[j], "PREEMPTED")
        BY Zenon, <1>2, <2>2 DEF UaAdd
      <3>2. ua[j] \in Seq(Asc) /\ "PREEMPTED" \in Asc
        BY Zenon DEF TypeOK, Asc
      <3> QED BY ZenonT(30), <3>1, <3>2, AppendPending
    <2> QED BY ZenonT(30), <1>2, <2>1, <2>2, OthersTold
  <1> QED BY Zenon, <1>1, <1>2 DEF spc_pr_clear

\* PREEMPT tells every nexus whose registration it frees.
LEMMA PreemptTold ==
    ASSUME TypeOK, NEW i \in Nexuses, NEW k, NEW sa, NEW type, NEW scope,
           spc_pr_preempt(i, k, sa, type, scope)
    PROVE  TellsLoss
  <1>1. ASSUME NEW status, Refuse(i, status) PROVE TellsLoss
    BY Zenon, <1>1, KeptTold DEF Refuse, pr
  <1>2. CASE preempt(i, sa, type, scope) /\ Answer(i, "other", "GOOD") /\ UNCHANGED reserve_id
    <2>1. prgeneration' # prgeneration
      BY Zenon, <1>2, BumpChanges DEF preempt
    <2>2. ASSUME NEW j \in Nexuses \ {i}, j \in regs \ regs', session[j] = "in"
          PROVE  \E n \in 1..Len(ua'[j]) : ua'[j][n] = "PREEMPTED"
      <3>1. ua'[j] = Append(ua[j], "PREEMPTED")
        BY Zenon, <1>2, <2>2 DEF preempt, Forget
      <3>2. ua[j] \in Seq(Asc) /\ "PREEMPTED" \in Asc
        BY Zenon DEF TypeOK, Asc
      <3> QED BY ZenonT(30), <3>1, <3>2, AppendPending
    <2> QED BY Zenon, <1>2, <2>1, <2>2, OthersTold
  <1> QED BY Zenon, <1>1, <1>2 DEF spc_pr_preempt

\* REGISTER AND MOVE frees at most the registration of its sender.
LEMMA MoveTold ==
    ASSUME TypeOK, NEW i \in Nexuses, NEW k, NEW sa, NEW id_ok, NEW unreg,
           spc_pr_register_and_move(i, k, sa, id_ok, unreg)
    PROVE  TellsLoss
  <1>1. ASSUME NEW status, Refuse(i, status) PROVE TellsLoss
    BY Zenon, <1>1, KeptTold DEF Refuse, pr
  <1>2. CASE UNCHANGED <<session, ua, reserve_id, pr, reply>>
    BY Zenon, <1>2, KeptTold DEF pr
  <1>3. CASE /\ IF unreg
                THEN /\ Forget({i}) /\ pr_type' = [pr_type EXCEPT ![i] = "none"]
                     /\ pr_scope' = [pr_scope EXCEPT ![i] = "LU"]
                ELSE UNCHANGED <<regs, key, pr_type, pr_scope>>
             /\ Bump(1) /\ Answer(i, "other", "GOOD") /\ UNCHANGED <<ua, reserve_id>>
    <2>1. prgeneration' # prgeneration
      BY Zenon, <1>3, BumpChanges
    <2>2. regs \ {i} \subseteq regs'
      BY Zenon, <1>3 DEF Forget
    <2> QED BY Zenon, <1>3, <2>1, <2>2, OthersTold
  <1> QED BY Zenon, <1>1, <1>2, <1>3 DEF spc_pr_register_and_move

\* PERSISTENT RESERVE OUT.
LEMMA PrOutTold ==
    ASSUME TypeOK, NEW i \in Nexuses, PersistentReserveOut(i)
    PROVE  TellsLoss
  <1>1. ASSUME NEW status, Refuse(i, status) PROVE TellsLoss
    BY Zenon, <1>1, KeptTold DEF Refuse, pr
  <1>2. ASSUME NEW type, NEW scope, spc_pr_reserve(i, type, scope) PROVE TellsLoss
    BY Zenon, <1>1, <1>2, KeptTold DEF spc_pr_reserve
  <1>3. ASSUME NEW k, NEW type, NEW scope, spc_pr_release(i, k, type, scope)
        PROVE  TellsLoss
    BY Zenon, <1>1, <1>3, KeptTold DEF spc_pr_release
  <1> QED BY Zenon, <1>2, <1>3, RegisterTold, ClearTold, PreemptTold, MoveTold
          DEF PersistentReserveOut

\* Sessions, task management, RESERVE, RELEASE and data access: the reset
\* tells everyone, the rest takes nothing from others.
LEMMA CommandTold ==
    ASSUME TypeOK, NEW i \in Nexuses,
           \/ ItNexusCreate(i) \/ ItNexusDestroy(i) \/ ReportUa(i)
           \/ (\E op \in Accesses : DataAccess(i, op))
           \/ Reserve6(i) \/ Release6(i) \/ ClearTaskSet(i) \/ LogicalUnitReset(i)
    PROVE  TellsLoss
  <1>1. CASE \/ ItNexusCreate(i) \/ ReportUa(i) \/ ClearTaskSet(i)
             \/ (\E op \in Accesses : DataAccess(i, op))
    BY Zenon, <1>1, KeptTold DEF ItNexusCreate, ReportUa, DataAccess, ClearTaskSet, pr
  <1>2. CASE ItNexusDestroy(i)
    <2>1. UNCHANGED <<regs, key>> /\ session'[i] # "in"
      BY Zenon, <1>2 DEF ItNexusDestroy, pr, TypeOK
    <2>2. \A j \in Nexuses \ {i} : reserve_id = j => reserve_id' = j
      BY Zenon, <1>2 DEF ItNexusDestroy
    <2> QED BY Zenon, <2>1, <2>2 DEF TellsLoss
  <1>3. CASE Reserve6(i) \/ Release6(i)
    <2>1. UNCHANGED <<regs, key>> /\ reply'.itn = i /\ reply'.op # "tmf"
      BY <1>3 DEF Reserve6, Release6, Answer, pr
    <2>2. \A j \in Nexuses \ {i} : reserve_id = j => reserve_id' = j
      BY Zenon, <1>3, AccessConstants DEF Reserve6, Release6, device_reserved
    <2> QED BY Zenon, <2>1, <2>2 DEF TellsLoss
  <1>4. CASE LogicalUnitReset(i)
    <2>1. UNCHANGED <<regs, key, session>>
      BY Zenon, <1>4 DEF LogicalUnitReset, Answer, pr
    <2>2. ASSUME NEW j \in Nexuses, session[j] = "in"
          PROVE  \E n \in 1..Len(ua'[j]) : ua'[j][n] = "POWERON"
      <3>1. ua'[j] = Append(ua[j], "POWERON")
        BY Zenon, <1>4, <2>2 DEF LogicalUnitReset, UaAdd
      <3>2. ua[j] \in Seq(Asc) /\ "POWERON" \in Asc
        BY Zenon DEF TypeOK, Asc
      <3> QED BY ZenonT(30), <3>1, <3>2, AppendPending
    <2> QED BY Zenon, <2>1, <2>2 DEF TellsLoss
  <1> QED BY Zenon, <1>1, <1>2, <1>3, <1>4

\* Who loses a registration or the classic reservation through another's
\* command has a unit attention that says so, and no change of the registrations
\* leaves prgeneration as it was.
THEOREM LossCorrect == Spec => LossIsTold
  <1>1. TypeOK /\ [Next]_vars => [TellsLoss]_vars
    BY Zenon, PrOutTold, CommandTold DEF Next
  <1> QED BY <1>1, TypeCorrect, PTL DEF Spec, LossIsTold

-----------------------------------------------------------------------------
(* A sound reservation stays sound.                                        *)

\* The reservation is sound and of one of the types T.
SoundOf(T) == pr_holder # None => pr_holder \in regs /\ pr_type[pr_holder] \in T

\* A command that is refused leaves it alone.
LEMMA RefuseSound ==
    ASSUME NEW T, SoundOf(T), NEW i, NEW status, Refuse(i, status)
    PROVE  SoundOf(T)'
  BY Zenon DEF SoundOf, Refuse, pr

\* The nexus that unregisters takes its reservation along, or hands it to
\* another of those that own it too.
LEMMA UnregisterSound ==
    ASSUME NEW T, TypeOK, SoundOf(T), NEW i \in Nexuses, unregister_and_clean(i)
    PROVE  SoundOf(T)'
  <1> DEFINE rest == regs \ {i}
  <1>0. regs' = rest
    BY Zenon DEF unregister_and_clean, unregister_plain, Forget
  <1>1. CASE ~Holds(i)
    <2>1. unregister_plain(i) /\ (pr_holder # None => pr_holder # i)
      BY Zenon, <1>1 DEF unregister_and_clean, Holds, is_pr_holder
    <2>2. /\ pr_holder' = pr_holder
          /\ pr_type' = [pr_type EXCEPT ![i] = "none"]
      BY Zenon, <2>1 DEF unregister_plain
    <2> QED BY Zenon, <1>0, <2>1, <2>2 DEF SoundOf, TypeOK
  <1>2. CASE pr_holder' = None
    BY Zenon, <1>2 DEF SoundOf
  <1>3. CASE Holds(i) /\ pr_holder' # None
    <2>1. PICK r \in rest :
             /\ pr_holder' = r
             /\ pr_type' = [pr_type EXCEPT ![r] = pr_type[pr_holder], ![i] = "none"]
      BY Zenon, <1>3 DEF unregister_and_clean
    <2>2. pr_holder # None
      BY Zenon, <1>3 DEF Holds
    <2>3. pr_type[pr_holder] \in T /\ r \in Nexuses /\ r # i
      BY Zenon, <2>2 DEF SoundOf, TypeOK
    <2>4. pr_type'[r] = pr_type[pr_holder]
      BY Zenon, <2>1, <2>3 DEF TypeOK
    <2> QED BY Zenon, <1>0, <2>1, <2>3, <2>4 DEF SoundOf
  <1> QED BY Zenon, <1>1, <1>2, <1>3

\* REGISTER.
LEMMA RegisterSound ==
    ASSUME NEW T, TypeOK, SoundOf(T), NEW i \in Nexuses, NEW force, NEW k, NEW sa,
           spc_pr_register(i, force, k, sa)
    PROVE  SoundOf(T)'
  <1>1. CASE Refuse(i, "CONFLICT")
    BY Zenon, <1>1, RefuseSound
  <1>2. CASE regs' = regs \cup {i} /\ UNCHANGED <<pr_type, pr_holder>>
    BY Zenon, <1>2 DEF SoundOf
  <1>3. CASE UNCHANGED <<regs, pr_type, pr_holder>>
    BY Zenon, <1>3 DEF SoundOf
  <1> QED BY Zenon, <1>1, <1>2, <1>3, UnregisterSound DEF spc_pr_register

\* What PREEMPT takes over it replaces, and what it leaves keeps its
\* registration, unless the key is that of the one that stands for all.
LEMMA PreemptSound ==
    ASSUME NEW T, TypeOK, SoundOf(T), NEW i \in Nexuses, NEW k, NEW sa,
           NEW type \in T, NEW scope, spc_pr_preempt(i, k, sa, type, scope),
           \/ pr_holder \in {None, i}
           \/ pr_type[pr_holder] \notin AllReg
           \/ key[pr_holder] # sa
    PROVE  SoundOf(T)'
  <1>1. ASSUME NEW status, Refuse(i, status) PROVE SoundOf(T)'
    BY Zenon, <1>1, RefuseSound
  <1>2. CASE i \in regs /\ preempt(i, sa, type, scope)
    <2> DEFINE takes == takes_all(sa) \/ takes_one(sa)
               victims == {j \in regs \ {i} : key[j] = sa \/ takes_all(sa)}
    <2>1. /\ regs' = regs \ victims
          /\ pr_holder' = IF takes THEN i ELSE pr_holder
          /\ pr_type' = [j \in Nexuses |-> IF j \in victims THEN "none"
                                           ELSE IF takes /\ j = i THEN type
                                           ELSE pr_type[j]]
      BY Zenon, <1>2 DEF preempt, Forget
    <2>2. i \notin victims /\ i \in regs
      BY Zenon, <1>2
    <2>3. CASE takes
      <3>1. pr_holder' = i /\ pr_type'[i] = type /\ i \in regs'
        BY Zenon, <2>1, <2>2, <2>3
      <3> QED BY Zenon, <3>1 DEF SoundOf
    <2>4. CASE ~takes
      <3>1. pr_holder' = pr_holder
        BY Zenon, <2>1, <2>4
      <3>2. ASSUME pr_holder # None
            PROVE  pr_holder \notin victims /\ pr_holder \in regs /\ pr_holder \in Nexuses
        BY Zenon, <2>4, <3>2 DEF takes_one, takes_all, SoundOf, TypeOK
      <3>3. ASSUME pr_holder # None
            PROVE  pr_type'[pr_holder] = pr_type[pr_holder] /\ pr_holder \in regs'
        BY Zenon, <2>1, <2>4, <3>2, <3>3
      <3> QED BY Zenon, <3>1, <3>3 DEF SoundOf
    <2> QED BY Zenon, <2>3, <2>4
  <1> QED BY Zenon, <1>1, <1>2 DEF spc_pr_preempt

\* PERSISTENT RESERVE OUT.
LEMMA PrOutSound ==
    ASSUME NEW T, TypeOK, SoundOf(T), NEW i \in Nexuses, PersistentReserveOut(i),
           ~Unsettles(i), Types \cap ValidTypes \subseteq T
    PROVE  SoundOf(T)'
  <1>1. ASSUME NEW status, Refuse(i, status) PROVE SoundOf(T)'
    BY Zenon, <1>1, RefuseSound
  <1>2. ASSUME NEW type \in Types, NEW scope, spc_pr_reserve(i, type, scope)
        PROVE  SoundOf(T)'
    <2>1. CASE /\ type \in T /\ i \in regs
               /\ pr_type' = [pr_type EXCEPT ![i] = type]
               /\ pr_holder' = i /\ regs' = regs
      BY Zenon, <2>1 DEF SoundOf, TypeOK
    <2> QED BY Zenon, <1>1, <1>2, <2>1 DEF spc_pr_reserve
  <1>3. ASSUME pr_holder' = None PROVE SoundOf(T)'
    BY Zenon, <1>3 DEF SoundOf
  <1>4. ASSUME NEW k, NEW type, NEW scope, spc_pr_release(i, k, type, scope)
        PROVE  SoundOf(T)'
    BY Zenon, <1>1, <1>3, <1>4 DEF spc_pr_release
  <1>5. ASSUME NEW k, spc_pr_clear(i, k) PROVE SoundOf(T)'
    BY Zenon, <1>1, <1>3, <1>5 DEF spc_pr_clear
  <1>6. ASSUME NEW k \in AnyKey, NEW sa \in AnyKey, NEW t \in Types,
               NEW scope \in Scopes, spc_pr_preempt(i, k, sa, t, scope)
        PROVE  SoundOf(T)'
    <2>1. /\ t \in T
          /\ \/ pr_holder \in {None, i}
             \/ pr_type[pr_holder] \notin AllReg
             \/ key[pr_holder] # sa
      BY Zenon, <1>6 DEF Unsettles
    <2> QED BY Zenon, <1>6, <2>1, PreemptSound
  <1>7. ASSUME NEW k \in AnyKey, NEW sa \in AnyKey, NEW id_ok \in BOOLEAN,
               NEW unreg \in BOOLEAN, spc_pr_register_and_move(i, k, sa, id_ok, unreg)
        PROVE  FALSE
    BY Zenon, <1>7 DEF Unsettles
  <1> QED BY ZenonT(30), <1>2, <1>4, <1>5, <1>6, <1>7, RegisterSound DEF PersistentReserveOut

\* The other commands leave the persistent reservation alone.
LEMMA CommandPr ==
    ASSUME NEW i \in Nexuses,
           \/ ItNexusCreate(i) \/ ItNexusDestroy(i) \/ ReportUa(i)
           \/ (\E op \in Accesses : DataAccess(i, op))
           \/ Reserve6(i) \/ Release6(i) \/ ClearTaskSet(i) \/ LogicalUnitReset(i)
    PROVE  UNCHANGED pr
  BY Zenon DEF ItNexusCreate, ItNexusDestroy, ReportUa, DataAccess, Reserve6, Release6,
         ClearTaskSet, LogicalUnitReset

\* One step.
LEMMA SoundStep ==
    ASSUME NEW T, TypeOK, SoundOf(T), [Next]_vars, Types \cap ValidTypes \subseteq T
    PROVE  SoundOf(T)' \/ \E i \in Nexuses : Unsettles(i)
  <1>1. CASE UNCHANGED pr
    BY Zenon, <1>1 DEF SoundOf, pr
  <1>2. ASSUME NEW i \in Nexuses, PersistentReserveOut(i)
        PROVE  SoundOf(T)' \/ Unsettles(i)
    BY Zenon, <1>2, PrOutSound
  <1> QED BY Zenon, <1>1, <1>2, CommandPr DEF Next, vars

\* No classic reservation outlives its session, and no command but those of
\* Unsettles makes a sound persistent reservation dangle or lose its type.
THEOREM HolderKeptCorrect == Spec => HolderKept
  <1>1. TypeOK /\ [Next]_vars =>
           [ReservationSound => ReservationSound' \/ \E i \in Nexuses : Unsettles(i)]_vars
    <2> SUFFICES ASSUME TypeOK, [Next]_vars, ReservationSound
                 PROVE  ReservationSound' \/ \E i \in Nexuses : Unsettles(i)
      BY Zenon
    <2>1. SoundOf(ValidTypes)
      BY Zenon DEF SoundOf, ReservationSound
    <2>2. SoundOf(ValidTypes)' \/ \E i \in Nexuses : Unsettles(i)
      BY Zenon, <2>1, SoundStep
    <2> QED BY Zenon, <2>2 DEF SoundOf, ReservationSound
  <1> QED BY <1>1, TypeCorrect, ReserverCorrect, PTL DEF Spec, HolderKept

\* Where no reservation is moved, and PREEMPT is not used together with types
\* that all registrants own or that do not exist, nothing unsettles.
LEMMA Settled ==
    ASSUME "MOVE" \notin Actions,
           "PREEMPT" \notin Actions \/ Types \subseteq ValidTypes \ AllReg,
           SoundOf(Types \cap ValidTypes), NEW i \in Nexuses
    PROVE  ~Unsettles(i)
  <1>1. \A k, sa, id_ok, unreg : ~spc_pr_register_and_move(i, k, sa, id_ok, unreg)
    BY Zenon DEF spc_pr_register_and_move, PrOut
  <1>2. ASSUME NEW k, NEW sa, NEW t \in Types, NEW scope, spc_pr_preempt(i, k, sa, t, scope)
        PROVE  t \in ValidTypes /\ (pr_holder # None => pr_type[pr_holder] \notin AllReg)
    <2>1. Types \subseteq ValidTypes \ AllReg
      BY Zenon, <1>2 DEF spc_pr_preempt, PrOut
    <2> QED BY Zenon, <2>1 DEF SoundOf
  <1> QED BY Zenon, <1>1, <1>2 DEF Unsettles

\* There, pr_holder always points to a registration in the list: every way a
\* registration is freed takes the reservation along or hands it over.
THEOREM HolderCorrect ==
    ASSUME "MOVE" \notin Actions,
           "PREEMPT" \notin Actions \/ Types \subseteq ValidTypes \ AllReg
    PROVE  Spec => []HolderRegistered
  <1> DEFINE T == Types \cap ValidTypes
  <1>1. Init => SoundOf(T)
    BY Zenon DEF Init, SoundOf
  <1>2. TypeOK /\ SoundOf(T) /\ [Next]_vars => SoundOf(T)'
    BY Zenon, Settled, SoundStep
  <1>3. SoundOf(T) => HolderRegistered
    BY Zenon DEF SoundOf, HolderRegistered
  <1> QED BY <1>1, <1>2, <1>3, TypeCorrect, PTL DEF Spec

-----------------------------------------------------------------------------
(* The list and the pointer implement ReservationSpec.                     *)

\* The nexuses in the list are those with a key.
RegsKeyed == \A j \in Nexuses : j \in regs <=> key[j] # NoKey

\* Freeing registrations and their keys goes together.
LEMMA ForgetKeyed ==
    ASSUME RegsKeyed, NEW S, Forget(S)
    PROVE  RegsKeyed'
  BY Zenon DEF RegsKeyed, Forget

\* PERSISTENT RESERVE OUT keeps the list and the keys together.
LEMMA PrOutKeyed ==
    ASSUME TypeOK, RegsKeyed, NEW i \in Nexuses, PersistentReserveOut(i)
    PROVE  RegsKeyed'
  <1>1. ASSUME UNCHANGED <<regs, key>> PROVE RegsKeyed'
    BY Zenon, <1>1 DEF RegsKeyed
  <1>2. ASSUME NEW status, Refuse(i, status) PROVE RegsKeyed'
    BY Zenon, <1>1, <1>2 DEF Refuse, pr
  <1>3. ASSUME NEW force, NEW k, NEW sa, spc_pr_register(i, force, k, sa) PROVE RegsKeyed'
    <2>1. CASE sa # NoKey /\ regs' = regs \cup {i} /\ key' = [key EXCEPT ![i] = sa]
      BY Zenon, <2>1 DEF RegsKeyed, TypeOK
    <2>2. CASE unregister_and_clean(i)
      BY Zenon, <2>2, ForgetKeyed DEF unregister_and_clean, unregister_plain
    <2> QED BY Zenon, <1>1, <1>2, <1>3, <2>1, <2>2 DEF spc_pr_register
  <1>4. ASSUME NEW type, NEW scope, spc_pr_reserve(i, type, scope) PROVE RegsKeyed'
    BY Zenon, <1>1, <1>2, <1>4 DEF spc_pr_reserve
  <1>5. ASSUME NEW k, NEW type, NEW scope, spc_pr_release(i, k, type, scope)
        PROVE  RegsKeyed'
    BY Zenon, <1>1, <1>2, <1>5 DEF spc_pr_release
  <1>6. ASSUME NEW k, spc_pr_clear(i, k) PROVE RegsKeyed'
    BY Zenon, <1>2, <1>6, ForgetKeyed DEF spc_pr_clear
  <1>7. ASSUME NEW k, NEW sa, NEW type, NEW scope, spc_pr_preempt(i, k, sa, type, scope)
        PROVE  RegsKeyed'
    BY Zenon, <1>2, <1>7, ForgetKeyed DEF spc_pr_preempt, preempt
  <1>8. ASSUME NEW k, NEW sa, NEW id_ok, NEW unreg,
               spc_pr_register_and_move(i, k, sa, id_ok, unreg)
        PROVE  RegsKeyed'
    BY Zenon, <1>1, <1>2, <1>8, ForgetKeyed DEF spc_pr_register_and_move, pr
  <1> QED BY ZenonT(30), <1>3, <1>4, <1>5, <1>6, <1>7, <1>8 DEF PersistentReserveOut

\* A registration has a key other than 0, and no key is left without one.
LEMMA KeyedCorrect == Spec => []RegsKeyed
  <1>1. Init => RegsKeyed
    BY Zenon DEF Init, RegsKeyed
  <1>2. TypeOK /\ RegsKeyed /\ [Next]_vars => RegsKeyed'
    <2> SUFFICES ASSUME TypeOK, RegsKeyed, [Next]_vars PROVE RegsKeyed'
      BY Zenon
    <2>1. CASE UNCHANGED pr
      BY Zenon, <2>1 DEF RegsKeyed, pr
    <2> QED BY Zenon, <2>1, PrOutKeyed, CommandPr DEF Next, vars
  <1> QED BY <1>1, <1>2, TypeCorrect, PTL DEF Spec

\* There is a reservation when the pointer is not NULL.
LEMMA ResvNone ==
    ASSUME ReservationSound
    PROVE  Resv = Promise!Unreserved <=> pr_holder = None
  <1>1. CASE pr_holder = None
    BY Zenon, <1>1 DEF Resv, Promise!Unreserved
  <1>2. CASE pr_holder # None
    <2>1. Resv.type = pr_type[pr_holder] /\ Promise!Unreserved.type = "none"
      BY Zenon, <1>2 DEF Resv, Promise!Unreserved
    <2>2. pr_type[pr_holder] # "none"
      BY Zenon, <1>2 DEF ReservationSound, ValidTypes, AllReg
    <2> QED BY Zenon, <1>2, <2>1, <2>2
  <1> QED BY Zenon, <1>1, <1>2

\* What the reservation of a pointer looks like.
LEMMA ResvSome ==
    ASSUME pr_holder # None
    PROVE  /\ Resv = Promise!Reservation(pr_holder, pr_type[pr_holder])
           /\ Resv.type = pr_type[pr_holder]
           /\ Resv.owner = IF pr_type[pr_holder] \in AllReg THEN None ELSE pr_holder
  BY Zenon DEF Resv, Promise!Reservation, AllReg, Promise!AllRegistrants

\* The registrants that is_pr_holder accepts own the reservation.
LEMMA ResvOwns ==
    ASSUME TypeOK, RegsKeyed, ReservationSound, NEW i \in Nexuses
    PROVE  Promise!Owns(i) <=> i \in regs /\ Holds(i)
  <1>0. i # None /\ (Promise!Registered(i) <=> i \in regs)
    BY Zenon, AccessConstants DEF RegsKeyed, Promise!Registered
  <1>1. CASE pr_holder = None
    BY Zenon, <1>1, ResvNone DEF Promise!Owns, Holds
  <1>2. CASE pr_holder # None
    <2>1. pr_holder \in regs /\ Resv # Promise!Unreserved
      BY Zenon, <1>2, ResvNone DEF ReservationSound
    <2>2. Promise!AllRegistrants = AllReg
      BY Zenon DEF Promise!AllRegistrants, AllReg
    <2> QED BY Zenon, <1>0, <1>2, <2>1, <2>2, ResvSome DEF Promise!Owns, Holds, is_pr_holder
  <1> QED BY Zenon, <1>1, <1>2

\* The conflict bits refuse what the reservation forbids, where they cover the
\* access.
LEMMA AccessPermitted ==
    ASSUME TypeOK, RegsKeyed, ReservationSound, NEW i \in Nexuses,
           NEW op \in {"data_read", "data_write", "write_verify", "write_same", "unmap"},
           \/ pr_holder = None
           \/ op \in {"data_read", "data_write"}
           \/ op = "write_verify" /\ pr_type[pr_holder] \notin Promise!WriteExclusive
    PROVE  Promise!Permitted(i, op) <=> ~(spc_access_check(i, op) \/ device_reserved(i))
  <1>0. Promise!Registered(i) <=> i \in regs
    BY Zenon DEF RegsKeyed, Promise!Registered
  <1>1. device_reserved(i) <=> reserve_id \notin {None, i}
    BY Zenon DEF device_reserved
  <1>2. CASE pr_holder = None
    BY ZenonT(30), <1>1, <1>2, ResvNone DEF Promise!Permitted, spc_access_check
  <1>3. CASE pr_holder # None /\ i \in regs /\ Holds(i)
    BY Zenon, <1>1, <1>3, ResvOwns DEF Promise!Permitted, spc_access_check, Holds
  <1>4. CASE pr_holder # None /\ ~(i \in regs /\ Holds(i))
    <2> DEFINE type == pr_type[pr_holder]
    <2>1. type \in ValidTypes /\ Resv.type = type /\ Resv # Promise!Unreserved
      BY Zenon, <1>4, ResvNone, ResvSome DEF ReservationSound
    <2>2. ~Promise!Owns(i)
      BY Zenon, <1>4, ResvOwns
    <2>3. Promise!Permitted(i, op) <=>
              /\ ~device_reserved(i)
              /\ \/ type \in {"WE", "WE_REGONLY", "WE_ALLREG"} /\ op = "data_read"
                 \/ type \in {"WE_REGONLY", "EA_REGONLY", "WE_ALLREG", "EA_ALLREG"} /\ i \in regs
      BY Zenon, <1>0, <1>1, <2>1, <2>2
      DEF Promise!Permitted, Promise!WriteExclusive, Promise!SharedTypes, Promise!AllRegistrants
    <2>5. /\ "EA_FA" \in ConflictBits(op) /\ "EA_FN" \in ConflictBits(op)
          /\ "RR_FR" \notin ConflictBits(op)
          /\ "WE_FA" \in ConflictBits(op) <=> op = "data_write"
          /\ "WE_FN" \in ConflictBits(op) <=> op = "data_write"
          /\ op # "data_read" => op = "data_write" \/ type \notin {"WE", "WE_REGONLY", "WE_ALLREG"}
      <3>1. CASE op = "data_read"
        BY Zenon, <3>1 DEF ConflictBits
      <3>2. CASE op = "data_write"
        BY Zenon, <3>2 DEF ConflictBits
      <3>3. CASE op = "write_verify" /\ type \notin {"WE", "WE_REGONLY", "WE_ALLREG"}
        BY Zenon, <3>3 DEF ConflictBits
      <3> QED BY Zenon, <1>4, <3>1, <3>2, <3>3 DEF Promise!WriteExclusive
    <2>4. spc_access_check(i, op) <=>
              \/ type = "EA"
              \/ type = "WE" /\ op = "data_write"
              \/ /\ type \notin {"EA", "WE"} /\ i \notin regs
                 /\ type \in {"WE_REGONLY", "WE_ALLREG"} => op = "data_write"
      BY Zenon, <1>4, <2>5 DEF spc_access_check, Holds
    <2> HIDE DEF type
    <2> QED BY Zenon, <2>1, <2>3, <2>5, <2>4 DEF ValidTypes, AllReg
  <1> QED BY Zenon, <1>2, <1>3, <1>4

\* A command that is refused.
LEMMA RefusePromise ==
    ASSUME NEW i \in Nexuses, NEW status \in Statuses, Refuse(i, status)
    PROVE  Promise!Next
  <1>1. UNCHANGED <<reserve_id, key, Resv>>
    BY Zenon DEF Refuse, pr, Resv
  <1>2. Promise!NoEffect(i)
    BY Zenon, <1>1 DEF Refuse, Answer, Promise!NoEffect, Promise!Replied, Statuses
  <1> QED BY Zenon, <1>2 DEF Promise!Next

\* The commands that leave the persistent reservation alone.
LEMMA CommandPromise ==
    ASSUME TypeOK, RegsKeyed, ReservationSound, NEW i \in Nexuses,
           \/ ItNexusCreate(i) \/ ItNexusDestroy(i) \/ ReportUa(i)
           \/ (\E op \in Accesses : DataAccess(i, op))
           \/ Reserve6(i) \/ Release6(i) \/ ClearTaskSet(i) \/ LogicalUnitReset(i)
    PROVE  [Promise!Next]_(Promise!vars) \/ Slips(i)
  <1>0. UNCHANGED <<key, Resv>>
    BY Zenon, CommandPr DEF pr, Resv
  <1>1. CASE ItNexusCreate(i)
    BY Zenon, <1>0, <1>1 DEF ItNexusCreate, Promise!vars
  <1>2. CASE ItNexusDestroy(i)
    <2>1. CASE reserve_id = i
      <3>1. Promise!ClassicLost
        BY Zenon, <1>0, <1>2, <2>1 DEF ItNexusDestroy, Promise!ClassicLost
      <3> QED BY Zenon, <3>1 DEF Promise!Next
    <2>2. CASE reserve_id # i
      BY Zenon, <1>0, <1>2, <2>2 DEF ItNexusDestroy, Promise!vars
    <2> QED BY Zenon, <2>1, <2>2
  <1>3. CASE ReportUa(i)
    <2>1. Promise!NoEffect(i)
      BY Zenon, <1>0, <1>3 DEF ReportUa, Answer, Promise!NoEffect, Promise!Replied
    <2> QED BY Zenon, <2>1 DEF Promise!Next
  <1>4. ASSUME NEW op \in Accesses, DataAccess(i, op), ~Slips(i)
        PROVE  Promise!Access(i, op)
    <2>1. op \in {"data_read", "data_write", "write_verify", "write_same", "unmap"}
      BY Zenon, AccessConstants DEF MediumOps
    <2>2. \/ pr_holder = None
          \/ op \in {"data_read", "data_write"}
          \/ op = "write_verify" /\ pr_type[pr_holder] \notin Promise!WriteExclusive
      BY Zenon, <1>4, <2>1 DEF Slips
    <2>3. Promise!Permitted(i, op) <=> ~(spc_access_check(i, op) \/ device_reserved(i))
      BY Zenon, <2>1, <2>2, AccessPermitted
    <2>4. \E status \in IF Promise!Permitted(i, op) THEN {"GOOD", "CHECK"} ELSE {"CONFLICT"} :
             reply' = [itn |-> i, op |-> op, status |-> status]
      BY Zenon, <1>4, <2>3 DEF DataAccess, Answer
    <2> QED BY Zenon, <1>0, <1>4, <2>4 DEF DataAccess, Promise!Access, Promise!Replied
  <1>5. CASE Reserve6(i)
    <2>1. Promise!NoEffect(i) \/ Promise!Classic(i)
      BY Zenon, <1>0, <1>5 DEF Reserve6, device_reserved, Answer, Promise!NoEffect, Promise!Classic,
                        Promise!Replied, Promise!Granted
    <2> QED BY Zenon, <2>1 DEF Promise!Next
  <1>6. CASE Release6(i)
    <2>1. Promise!NoEffect(i) \/ Promise!Classic(i)
      BY Zenon, <1>0, <1>6 DEF Release6, Answer, Promise!NoEffect, Promise!Classic,
                        Promise!Replied, Promise!Granted
    <2> QED BY Zenon, <2>1 DEF Promise!Next
  <1>7. CASE ClearTaskSet(i) \/ LogicalUnitReset(i)
    <2>1. Promise!TaskManagement(i)
      BY Zenon, <1>0, <1>7 DEF ClearTaskSet, LogicalUnitReset, Answer, Promise!TaskManagement,
                        Promise!Replied
    <2> QED BY Zenon, <2>1 DEF Promise!Next
  <1> QED BY ZenonT(30), <1>1, <1>2, <1>3, <1>4, <1>5, <1>6, <1>7 DEF Promise!Next

\* REGISTER with a key registers, without one unregisters.
LEMMA RegisterPromise ==
    ASSUME TypeOK, RegsKeyed, ReservationSound, NEW i \in Nexuses, NEW force, NEW k,
           NEW sa \in AnyKey, spc_pr_register(i, force, k, sa)
    PROVE  [Promise!Next]_(Promise!vars)
  <1>1. CASE Refuse(i, "CONFLICT")
    BY Zenon, <1>1, RefusePromise DEF Statuses
  <1>2. CASE /\ Answer(i, "other", "GOOD") /\ UNCHANGED reserve_id
             /\ sa # NoKey /\ key' = [key EXCEPT ![i] = sa]
             /\ UNCHANGED <<pr_type, pr_holder>>
    <2>1. UNCHANGED Resv
      BY Zenon, <1>2 DEF Resv
    <2>2. sa \in Keys /\ Promise!Register(i, sa)
      BY Zenon, <1>2, <2>1 DEF Promise!Register, Promise!Granted, Promise!Replied, Answer, AnyKey
    <2> QED BY Zenon, <2>2 DEF Promise!Next
  <1>3. CASE /\ Answer(i, "other", "GOOD") /\ UNCHANGED reserve_id
             /\ i \in regs /\ unregister_and_clean(i)
    <2> DEFINE rest == regs \ {i}
               Last == Promise!Owns(i) /\ (Resv.owner = i \/ \A j \in Nexuses \ {i} : ~Promise!Registered(j))
    <2>1. key' = [key EXCEPT ![i] = NoKey] /\ Promise!Registered(i)
      BY ZenonT(30), <1>3 DEF unregister_and_clean, unregister_plain, Forget, TypeOK, RegsKeyed,
                  Promise!Registered
    <2>2. (\A j \in Nexuses \ {i} : ~Promise!Registered(j)) <=> rest = {}
      BY Zenon DEF RegsKeyed, Promise!Registered, TypeOK
    <2>3. Last <=> Holds(i) /\ (pr_type[pr_holder] \notin AllReg \/ rest = {})
      <3>1. Promise!Owns(i) <=> Holds(i)
        BY Zenon, <1>3, ResvOwns
      <3>2. Holds(i) => (Resv.owner = i <=> pr_type[pr_holder] \notin AllReg)
        BY Zenon, ResvSome, AccessConstants DEF Holds, is_pr_holder
      <3> QED BY Zenon, <2>2, <3>1, <3>2
    <2>4. Resv' = IF Last THEN Promise!Unreserved ELSE Resv
      <3>1. CASE ~Holds(i)
        <4>1. unregister_plain(i) /\ (pr_holder # None => pr_holder # i)
          BY Zenon, <1>3, <3>1 DEF unregister_and_clean, Holds, is_pr_holder
        <4>2. pr_holder' = pr_holder /\ pr_type' = [pr_type EXCEPT ![i] = "none"]
          BY Zenon, <4>1 DEF unregister_plain
        <4>3. pr_holder # None => pr_type'[pr_holder] = pr_type[pr_holder]
          BY Zenon, <4>1, <4>2 DEF TypeOK
        <4>4. Resv' = Resv
          BY Zenon, <4>2, <4>3 DEF Resv
        <4> QED BY Zenon, <2>3, <3>1, <4>4
      <3>2. CASE Last
        <4>1. pr_holder' = None
          BY Zenon, <1>3, <2>3, <3>2 DEF unregister_and_clean
        <4> QED BY Zenon, <3>2, <4>1 DEF Resv, Promise!Unreserved
      <3>3. CASE Holds(i) /\ ~Last
        <4>1. PICK r \in rest :
                 /\ pr_holder' = r
                 /\ pr_type' = [pr_type EXCEPT ![r] = pr_type[pr_holder], ![i] = "none"]
          BY Zenon, <1>3, <2>3, <3>3 DEF unregister_and_clean
        <4>2. pr_holder # None /\ pr_type[pr_holder] \in AllReg
          BY Zenon, <2>3, <3>3 DEF Holds
        <4>3. r \in Nexuses /\ r # i /\ r # None
          BY Zenon, AccessConstants DEF TypeOK
        <4>4. pr_type'[r] = pr_type[pr_holder]
          BY Zenon, <4>1, <4>3 DEF TypeOK
        <4>5. Resv' = Resv
          BY Zenon, <4>1, <4>2, <4>3, <4>4 DEF Resv
        <4> QED BY Zenon, <3>3, <4>5
      <3> QED BY Zenon, <3>1, <3>2, <3>3
    <2> HIDE DEF Last
    <2>5. Promise!Unregister(i)
      BY Zenon, <1>3, <2>1, <2>4 DEF Promise!Unregister, Promise!Granted, Promise!Replied, Answer, Last
    <2> QED BY Zenon, <2>5 DEF Promise!Next
  <1>4. CASE /\ Answer(i, "other", "GOOD") /\ UNCHANGED reserve_id
             /\ UNCHANGED <<ua, regs, key, pr_type, pr_holder>>
    <2>1. UNCHANGED Resv
      BY Zenon, <1>4 DEF Resv
    <2>2. Promise!NoEffect(i)
      BY Zenon, <1>4, <2>1 DEF Answer, Promise!NoEffect, Promise!Replied
    <2> QED BY Zenon, <2>2 DEF Promise!Next
  <1> QED BY Zenon, <1>1, <1>2, <1>3, <1>4 DEF spc_pr_register

\* RESERVE, RELEASE and CLEAR.
LEMMA ReservePromise ==
    ASSUME TypeOK, RegsKeyed, ReservationSound, NEW i \in Nexuses, NEW type \in Types,
           NEW scope, spc_pr_reserve(i, type, scope)
    PROVE  Promise!Next
  <1>1. ASSUME NEW status \in Statuses, Refuse(i, status) PROVE Promise!Next
    BY Zenon, <1>1, RefusePromise
  <1>2. CASE /\ i \in regs /\ pr_holder = None
             /\ pr_type' = [pr_type EXCEPT ![i] = type] /\ pr_holder' = i
             /\ Answer(i, "other", "GOOD") /\ UNCHANGED <<reserve_id, key>>
    <2>1. i # None /\ pr_type'[i] = type
      BY Zenon, <1>2, AccessConstants DEF TypeOK
    <2>2. Resv' = Promise!Reservation(i, type)
      BY Zenon, <1>2, <2>1 DEF Resv, Promise!Reservation, Promise!AllRegistrants, AllReg
    <2>3. Resv = Promise!Unreserved /\ Promise!Registered(i)
      BY Zenon, <1>2, ResvNone DEF RegsKeyed, Promise!Registered
    <2>4. Promise!Reserve(i, type)
      BY Zenon, <1>2, <2>2, <2>3 DEF Promise!Reserve, Promise!Granted, Promise!Replied, Answer
    <2> QED BY Zenon, <2>4 DEF Promise!Next
  <1> QED BY Zenon, <1>1, <1>2 DEF spc_pr_reserve, Statuses

\* RELEASE is a step of ReservationSpec (spc_pr_release).
LEMMA ReleasePromise ==
    ASSUME TypeOK, RegsKeyed, ReservationSound, NEW i \in Nexuses, NEW k, NEW type,
           NEW scope, spc_pr_release(i, k, type, scope)
    PROVE  Promise!Next
  <1>1. ASSUME NEW status \in Statuses, Refuse(i, status) PROVE Promise!Next
    BY Zenon, <1>1, RefusePromise
  <1>2. CASE /\ i \in regs /\ Holds(i) /\ pr_holder' = None
             /\ Answer(i, "other", "GOOD") /\ UNCHANGED <<reserve_id, key>>
    <2>1. Resv' = Promise!Unreserved
      BY Zenon, <1>2 DEF Resv, Promise!Unreserved
    <2>2. Promise!Owns(i)
      BY Zenon, <1>2, ResvOwns
    <2>3. Promise!Release(i)
      BY Zenon, <1>2, <2>1, <2>2 DEF Promise!Release, Promise!Granted, Promise!Replied, Answer
    <2> QED BY Zenon, <2>3 DEF Promise!Next
  <1> QED BY Zenon, <1>1, <1>2 DEF spc_pr_release, Statuses

\* CLEAR is a step of ReservationSpec (spc_pr_clear).
LEMMA ClearPromise ==
    ASSUME TypeOK, RegsKeyed, NEW i \in Nexuses, NEW k, spc_pr_clear(i, k)
    PROVE  Promise!Next
  <1>1. CASE Refuse(i, "CONFLICT")
    BY Zenon, <1>1, RefusePromise DEF Statuses
  <1>2. CASE /\ i \in regs /\ pr_holder' = None /\ Forget(regs)
             /\ Answer(i, "other", "GOOD") /\ UNCHANGED reserve_id
    <2>1. Resv' = Promise!Unreserved
      BY Zenon, <1>2 DEF Resv, Promise!Unreserved
    <2>2. key' = [j \in Nexuses |-> NoKey] /\ Promise!Registered(i)
      BY Zenon, <1>2 DEF Forget, RegsKeyed, Promise!Registered
    <2>3. Promise!Clear(i)
      BY Zenon, <1>2, <2>1, <2>2 DEF Promise!Clear, Promise!Granted, Promise!Replied, Answer
    <2> QED BY Zenon, <2>3 DEF Promise!Next
  <1> QED BY Zenon, <1>1, <1>2 DEF spc_pr_clear

\* PREEMPT removes the key, and takes over the reservation that has it.
LEMMA PreemptPromise ==
    ASSUME TypeOK, RegsKeyed, ReservationSound, NEW i \in Nexuses, NEW k,
           NEW sa \in AnyKey, NEW type \in Types, NEW scope,
           spc_pr_preempt(i, k, sa, type, scope),
           \/ pr_holder \in {None, i}
           \/ pr_type[pr_holder] \notin AllReg
           \/ key[pr_holder] # sa
    PROVE  Promise!Next
  <1>1. ASSUME NEW status \in Statuses, Refuse(i, status) PROVE Promise!Next
    BY Zenon, <1>1, RefusePromise
  <1>2. CASE /\ i \in regs /\ preempt(i, sa, type, scope)
             /\ Answer(i, "other", "GOOD") /\ UNCHANGED reserve_id
    <2> DEFINE takes == takes_all(sa) \/ takes_one(sa)
               victims == {j \in regs \ {i} : key[j] = sa \/ takes_all(sa)}
               all == sa = NoKey /\ Resv.type \in Promise!AllRegistrants
               one == Resv.owner # None /\ key[Resv.owner] = sa
    <2>1. /\ key' = [j \in Nexuses |-> IF j \in victims THEN NoKey ELSE key[j]]
          /\ pr_holder' = IF takes THEN i ELSE pr_holder
          /\ pr_type' = [j \in Nexuses |-> IF j \in victims THEN "none"
                                           ELSE IF takes /\ j = i THEN type
                                           ELSE pr_type[j]]
      BY Zenon, <1>2 DEF preempt, Forget
    <2>2. i \notin victims /\ i # None
      BY Zenon, AccessConstants
    <2>3. all <=> takes_all(sa)
      BY Zenon DEF Resv, takes_all, AllReg, Promise!AllRegistrants
    <2>4. one <=> takes_one(sa)
      BY Zenon, AccessConstants DEF Resv, takes_one, TypeOK
    <2>5. key' = [j \in Nexuses |-> IF j # i /\ (all \/ key[j] = sa) THEN NoKey ELSE key[j]]
      BY Zenon, <2>1, <2>3 DEF RegsKeyed
    <2>6. Resv' = IF all \/ one THEN Promise!Reservation(i, type) ELSE Resv
      <3>1. CASE takes
        <4>1. pr_holder' = i /\ pr_type'[i] = type
          BY Zenon, <2>1, <2>2, <3>1
        <4>2. Resv' = Promise!Reservation(i, type)
          BY Zenon, <2>2, <4>1 DEF Resv, Promise!Reservation, Promise!AllRegistrants, AllReg
        <4> QED BY Zenon, <2>3, <2>4, <3>1, <4>2
      <3>2. CASE ~takes
        <4>1. pr_holder' = pr_holder
          BY Zenon, <2>1, <3>2
        <4>2. ASSUME pr_holder # None
              PROVE  pr_holder \notin victims /\ pr_holder \in Nexuses
          BY Zenon, <3>2, <4>2 DEF takes_one, takes_all, ReservationSound, TypeOK
        <4>3. ASSUME pr_holder # None
              PROVE  pr_type'[pr_holder] = pr_type[pr_holder]
          BY Zenon, <2>1, <3>2, <4>2, <4>3
        <4>4. Resv' = Resv
          BY Zenon, <4>1, <4>3 DEF Resv
        <4> QED BY Zenon, <2>3, <2>4, <3>2, <4>4
      <3> QED BY Zenon, <3>1, <3>2
    <2>7. Promise!Registered(i)
      BY Zenon, <1>2 DEF RegsKeyed, Promise!Registered
    <2>8. Promise!Preempt(i, sa, type)
      BY Zenon, <1>2, <2>5, <2>6, <2>7 DEF Promise!Preempt, Promise!Granted, Promise!Replied, Answer
    <2> QED BY Zenon, <2>8 DEF Promise!Next, AnyKey
  <1> QED BY Zenon, <1>1, <1>2 DEF spc_pr_preempt, Statuses

\* One step.
LEMMA PromiseStep ==
    ASSUME TypeOK, RegsKeyed, ReservationSound, [Next]_vars
    PROVE  [Promise!Next]_(Promise!vars) \/ \E i \in Nexuses : Unsettles(i) \/ Slips(i)
  <1>1. CASE UNCHANGED vars
    BY Zenon, <1>1 DEF vars, pr, Promise!vars, Resv
  <1>2. ASSUME NEW i \in Nexuses, PersistentReserveOut(i), ~Unsettles(i)
        PROVE  [Promise!Next]_(Promise!vars)
    <2>1. ASSUME NEW k \in AnyKey, NEW sa \in AnyKey, NEW t \in Types,
                 NEW scope \in Scopes, spc_pr_preempt(i, k, sa, t, scope)
          PROVE  Promise!Next
      <3>1. \/ pr_holder \in {None, i}
            \/ pr_type[pr_holder] \notin AllReg
            \/ key[pr_holder] # sa
        BY Zenon, <1>2, <2>1 DEF Unsettles
      <3> QED BY Zenon, <2>1, <3>1, PreemptPromise
    <2>2. ASSUME NEW k \in AnyKey, NEW sa \in AnyKey, NEW id_ok \in BOOLEAN,
                 NEW unreg \in BOOLEAN, spc_pr_register_and_move(i, k, sa, id_ok, unreg)
          PROVE  FALSE
      BY Zenon, <1>2, <2>2 DEF Unsettles
    <2> QED BY ZenonT(30), <1>2, <2>1, <2>2, RegisterPromise, ReservePromise, ReleasePromise, ClearPromise
            DEF PersistentReserveOut
  <1> QED BY Zenon, <1>1, <1>2, CommandPromise DEF Next

\* The initial states agree.
LEMMA PromiseInit == Init => Promise!Init
  BY Zenon DEF Init, Promise!Init, Resv, Promise!Unreserved

\* Until a command of Unsettles, the registration list, the pointer, the types
\* and the conflict bits give each command the effect and each medium access but
\* those of Slips the answer of ReservationSpec.
THEOREM PromiseCorrect == Spec => PromiseKept
  <1>1. TypeOK /\ RegsKeyed /\ [Next]_vars =>
           [ReservationSound => \/ [Promise!Next]_(Promise!vars)
                                \/ \E i \in Nexuses : Unsettles(i) \/ Slips(i)]_vars
    BY Zenon, PromiseStep
  <1> QED BY <1>1, PromiseInit, TypeCorrect, KeyedCorrect, PTL DEF Spec, PromiseKept

\* Where nothing unsettles, and the initiators access the medium by READ and
\* WRITE only, LuAccess implements ReservationSpec.
THEOREM PromiseImplemented ==
    ASSUME "MOVE" \notin Actions,
           "PREEMPT" \notin Actions \/ Types \subseteq ValidTypes \ AllReg,
           Accesses \subseteq {"data_read", "data_write"}
    PROVE  Spec => Promise!Spec
  <1> DEFINE T == Types \cap ValidTypes
  <1>1. Init => SoundOf(T)
    BY Zenon DEF Init, SoundOf
  <1>2. TypeOK /\ SoundOf(T) /\ [Next]_vars => SoundOf(T)'
    BY Zenon, Settled, SoundStep
  <1>3. TypeOK /\ RegsKeyed /\ SoundOf(T) /\ [Next]_vars => [Promise!Next]_(Promise!vars)
    <2>1. SoundOf(T) => ReservationSound
      BY Zenon DEF SoundOf, ReservationSound
    <2>2. ASSUME NEW i \in Nexuses PROVE ~Slips(i)
      BY Zenon DEF Slips
    <2> QED BY Zenon, <2>1, <2>2, Settled, PromiseStep
  <1> QED BY <1>1, <1>2, <1>3, PromiseInit, TypeCorrect, KeyedCorrect, PTL
          DEF Spec, Promise!Spec
=============================================================================
