----------------------------- MODULE MgmtProofs -----------------------------
(***************************************************************************)
(* Proofs about Mgmt, for any number of clients and any requests: the      *)
(* inductive invariant IInv, and from it EventsFit, MessagesWhole and      *)
(* NothingHalf.                                                            *)
(***************************************************************************)
EXTENDS Mgmt, TLAPS

-----------------------------------------------------------------------------
(* The inductive invariant.                                                *)

States == {"none", "backlog", "HDR_RECV", "PDU_RECV", "HDR_SEND", "PDU_SEND", "closed"}

Fds == Fixed \cup Clients \cup profile.portals

EvType   == [set: SUBSET Fds, batch: SUBSET Fds, refresh: BOOLEAN, active: BOOLEAN, ended: BOOLEAN]
TaskType == [st: States, alive: BOOLEAN, sent: Nat, read: Nat, done: Nat, ran: BOOLEAN, err: {0, 1}, len: {0, 2}, got: Nat]

\* Where the task of client k is says what it has read and written.
TaskInv(t, k) ==
    /\ t.read <= t.sent
    /\ t.st \in {"none", "backlog"} => ~t.ran /\ t.read = 0 /\ t.done = 0 /\ t.got = 0
    /\ t.st = "HDR_RECV" => ~t.ran /\ t.read = t.done /\ t.done < Hdr /\ t.got = 0
    /\ t.st = "PDU_RECV" => ~t.ran /\ t.read = Hdr + t.done /\ t.done < Pdu(k) /\ t.got = 0
    /\ t.st = "HDR_SEND" => t.ran /\ t.got = t.done /\ t.done < Rsp
    /\ t.st = "PDU_SEND" => t.ran /\ t.got = Rsp + t.done /\ t.done < t.len
    /\ t.st = "closed" /\ t.alive => (t.ran /\ t.got = Rsp + t.len) \/ (TooLarge(k) /\ ~t.ran /\ t.read = Hdr /\ t.got = 0)
    /\ t.ran => t.read = Hdr + Pdu(k)

Reads(t) == t.st \in {"HDR_RECV", "PDU_RECV"}
On(t)    == t.st \in {"HDR_RECV", "PDU_RECV", "HDR_SEND", "PDU_SEND"}

\* A task whose handler is still to be called in this batch finds input, or the end of it because its client is gone.
HasInput(t) == Reads(t) => t.read < t.sent \/ ~t.alive

TaskOK ==
    /\ task \in [Clients -> TaskType]
    /\ \A k \in Clients: TaskInv(task[k], k) /\ (k \in ev.batch => HasInput(task[k]))

\* Between two handlers no event was deleted that the batch still has.
Base(e) == e \in EvType /\ ~e.refresh /\ Timer \in e.set /\ e.batch \subseteq e.set

Open(s) == {x \in DOMAIN s.conns: s.conns[x] # "closing"}

EvOK ==
    /\ Base(ev)
    /\ \A k \in Clients: k \in ev.set <=> On(task[k])
    /\ sys.portals \subseteq ev.set
    /\ ev.set \cap {"c1", "c2"} = Open(sys)

Shape(s) ==
    /\ s = [f \in SysFields |-> s[f]]
    /\ DOMAIN s.drv = Drivers /\ DOMAIN s.list = Drivers
    /\ \A i \in DOMAIN s.targets: DOMAIN s.targets[i] = {"name", "lld", "acl", "iqn", "luns"} /\ s.targets[i].lld \in Drivers

\* The pairs of a target and one of its units
Units(T) == UNION {{t} \X T[t].luns: t \in DOMAIN T}

Stores(s) == s.stores = Units(s.targets)

\* Targets are on the list of their driver, which runs.
Listed(s) == \A i \in DOMAIN s.targets: s.drv[s.targets[i].lld] = "INIT" /\ i \in s.list[s.targets[i].lld]

Known(s) == s.portals \subseteq profile.portals /\ DOMAIN s.conns \subseteq {"c1", "c2"}

SysOK == Shape(sys) /\ Stores(sys) /\ Known(sys) /\ (~hist.unnamed => Listed(sys))

HistOK == hist \in [stale: BOOLEAN, halfway: BOOLEAN, unnamed: BOOLEAN] /\ ~hist.stale /\ ~hist.halfway

LeftOK == left \in [die: Nat, data: Nat, accept: Nat] /\ mode \in DOMAIN Profiles

IInv == TaskOK /\ EvOK /\ SysOK /\ HistOK /\ LeftOK

-----------------------------------------------------------------------------
(* Requests.                                                               *)

Sound(s) == Shape(s) /\ Stores(s) /\ Known(s)

\* Connections only go, and one that closes does not open again.
Closes(s, t) ==
    /\ DOMAIN t.conns \subseteq DOMAIN s.conns
    /\ \A x \in DOMAIN t.conns: t.conns[x] # "closing" => s.conns[x] # "closing"

\* The request names a driver, or the one it goes to runs.
Named(s, q) == q.lld = None => s.drv["iscsi"] = "INIT"

\* What a request may do.
Effect(s, r, q) ==
    /\ Sound(r.s) /\ Closes(s, r.s) /\ r.err \in {0, 1}
    /\ r.err # 0 => r.s = s \/ Half(s, r.s, q)
    /\ Named(s, q) /\ Listed(s) => Listed(r.s)

\* A refused request, and one with nothing to do.
LEMMA RefuseEffect ==
    ASSUME NEW s, NEW q, Sound(s)
    PROVE  Effect(s, Refuse(s), q) /\ Effect(s, Ok(s), q) /\ Effect(s, Result(s, 0, TRUE), q)
  BY Zenon DEF Effect, Closes, Refuse, Ok, Result

HasUnit(T, x) == \E t \in DOMAIN T: \E l \in T[t].luns: x = <<t, l>>

\* Units, said of pairs
LEMMA UnitsPairs ==
    ASSUME NEW T, NEW x
    PROVE  x \in Units(T) <=> HasUnit(T, x)
  <1>1. ASSUME x \in Units(T) PROVE HasUnit(T, x)
    <2>1. PICK t \in DOMAIN T: x \in {t} \X T[t].luns
      BY Zenon, <1>1 DEF Units
    <2>2. \E l \in T[t].luns: x = <<t, l>>
      BY SMT, <2>1
    <2> QED BY Zenon, <2>2 DEF HasUnit
  <1>2. ASSUME NEW t \in DOMAIN T, NEW l \in T[t].luns, x = <<t, l>> PROVE x \in Units(T)
    <2>1. x \in {t} \X T[t].luns
      BY SMT, <1>2
    <2> QED BY Zenon, <2>1 DEF Units
  <1> QED BY Zenon, <1>1, <1>2 DEF HasUnit

\* Targets keep their units.
LEMMA UnitsKept ==
    ASSUME NEW T, NEW U, DOMAIN U = DOMAIN T, \A i \in DOMAIN T: U[i].luns = T[i].luns
    PROVE  Units(U) = Units(T)
  <1>1. ASSUME NEW x PROVE x \in Units(U) <=> x \in Units(T)
    <2>1. HasUnit(U, x) <=> HasUnit(T, x)
      BY Zenon DEF HasUnit
    <2> QED BY Zenon, <2>1, UnitsPairs
  <1> QED BY Zenon, <1>1

\* A unit comes, perhaps with its target.
UnitAdded(T, U, tid, lun) ==
    /\ DOMAIN U = DOMAIN T \cup {tid}
    /\ \A i \in DOMAIN T: i # tid => U[i].luns = T[i].luns
    /\ U[tid].luns = (IF tid \in DOMAIN T THEN T[tid].luns ELSE {}) \cup {lun}

\* It makes one pair more.
LEMMA UnitsAdd ==
    ASSUME NEW T, NEW U, NEW tid, NEW lun, UnitAdded(T, U, tid, lun)
    PROVE  Units(U) = Units(T) \cup {<<tid, lun>>}
  <1>1. ASSUME NEW x PROVE x \in Units(U) <=> x \in Units(T) \cup {<<tid, lun>>}
    <2>1. x \in Units(T) <=> HasUnit(T, x)
      BY Zenon, UnitsPairs
    <2>2. x \in Units(U) <=> HasUnit(U, x)
      BY Zenon, UnitsPairs
    <2> QED BY Zenon, <2>1, <2>2 DEF HasUnit, UnitAdded
  <1> QED BY Zenon, <1>1

\* Units of a target go.
UnitsRemoved(T, U, tid, D) ==
    /\ tid \in DOMAIN T /\ DOMAIN U = DOMAIN T
    /\ \A i \in DOMAIN T: i # tid => U[i].luns = T[i].luns
    /\ U[tid].luns = T[tid].luns \ D

\* Their pairs go.
LEMMA UnitsRemove ==
    ASSUME NEW T, NEW U, NEW tid, NEW D, UnitsRemoved(T, U, tid, D)
    PROVE  Units(U) = Units(T) \ ({tid} \X D)
  <1>1. ASSUME NEW x PROVE x \in Units(U) <=> x \in Units(T) \ ({tid} \X D)
    <2>1. x \in Units(T) <=> HasUnit(T, x)
      BY Zenon, UnitsPairs
    <2>2. x \in Units(U) <=> HasUnit(U, x)
      BY Zenon, UnitsPairs
    <2> QED BY SMT, <2>1, <2>2 DEF HasUnit, UnitsRemoved
  <1> QED BY Zenon, <1>1

\* A target without units goes.
TargetGone(T, U, tid) == T[tid].luns = {} /\ DOMAIN U = DOMAIN T \ {tid} /\ \A i \in DOMAIN U: U[i] = T[i]

\* The pairs stay.
LEMMA UnitsGone ==
    ASSUME NEW T, NEW U, NEW tid, TargetGone(T, U, tid)
    PROVE  Units(U) = Units(T)
  <1>1. ASSUME NEW x PROVE x \in Units(U) <=> x \in Units(T)
    <2>1. x \in Units(T) <=> HasUnit(T, x)
      BY Zenon, UnitsPairs
    <2>2. x \in Units(U) <=> HasUnit(U, x)
      BY Zenon, UnitsPairs
    <2> QED BY Zenon, <2>1, <2>2 DEF HasUnit, TargetGone
  <1> QED BY Zenon, <1>1

TargetFields == {"name", "lld", "acl", "iqn", "luns"}

\* All but the targets and the stores is the same.
Alike(s, w) == w.portals = s.portals /\ w.conns = s.conns /\ w.list = s.list /\ w.drv = s.drv

\* U differs from T in one target.
Beside(T, U, tid) == DOMAIN U = DOMAIN T /\ \A i \in DOMAIN T: i # tid => U[i] = T[i]

NewLuns(s, tid, v, w) == w = [s EXCEPT !.targets[tid].luns = v]
NewAcl(s, tid, v, w)  == w = [s EXCEPT !.targets[tid].acl = v]
NewIqn(s, tid, v, w)  == w = [s EXCEPT !.targets[tid].iqn = v]
NewStores(s, S, w)    == w = [s EXCEPT !.stores = S]

\* The units of one target change.
LEMMA SetLuns ==
    ASSUME NEW s, Shape(s), NEW tid \in DOMAIN s.targets, NEW v, NEW w, NewLuns(s, tid, v, w)
    PROVE  /\ Shape(w) /\ Alike(s, w) /\ w.stores = s.stores /\ (Listed(s) => Listed(w))
           /\ Beside(s.targets, w.targets, tid) /\ w.targets[tid].luns = v
  <1>1. /\ w = [f \in SysFields |-> w[f]] /\ Alike(s, w) /\ w.stores = s.stores
        /\ w.targets = [s.targets EXCEPT ![tid].luns = v]
    BY Zenon DEF Shape, SysFields, Alike, NewLuns
  <1>2. \A i \in DOMAIN s.targets: DOMAIN s.targets[i] = TargetFields /\ s.targets[i].lld \in Drivers
    BY Zenon DEF Shape, TargetFields
  <1>3. /\ Beside(s.targets, w.targets, tid) /\ DOMAIN w.targets[tid] = TargetFields
        /\ w.targets[tid].lld = s.targets[tid].lld /\ w.targets[tid].luns = v
    BY SMT, <1>1, <1>2 DEF Beside, TargetFields
  <1>4. Shape(w)
    <2>1. \A i \in DOMAIN w.targets: DOMAIN w.targets[i] = TargetFields /\ w.targets[i].lld \in Drivers
      BY Zenon, <1>2, <1>3 DEF Beside
    <2>2. DOMAIN w.drv = Drivers /\ DOMAIN w.list = Drivers
      BY Zenon, <1>1 DEF Shape, Alike
    <2> QED BY Zenon, <1>1, <2>1, <2>2 DEF Shape, TargetFields
  <1>5. Listed(s) => Listed(w)
    BY SMT, <1>1, <1>3 DEF Listed, Alike, Beside
  <1> QED BY Zenon, <1>1, <1>3, <1>4, <1>5

\* The addresses bound to one target change.
LEMMA SetAcl ==
    ASSUME NEW s, Shape(s), NEW tid \in DOMAIN s.targets, NEW v, NEW w, NewAcl(s, tid, v, w)
    PROVE  /\ Shape(w) /\ Alike(s, w) /\ w.stores = s.stores /\ (Listed(s) => Listed(w))
           /\ Beside(s.targets, w.targets, tid) /\ w.targets[tid].luns = s.targets[tid].luns
  <1>1. /\ w = [f \in SysFields |-> w[f]] /\ Alike(s, w) /\ w.stores = s.stores
        /\ w.targets = [s.targets EXCEPT ![tid].acl = v]
    BY Zenon DEF Shape, SysFields, Alike, NewAcl
  <1>2. \A i \in DOMAIN s.targets: DOMAIN s.targets[i] = TargetFields /\ s.targets[i].lld \in Drivers
    BY Zenon DEF Shape, TargetFields
  <1>3. /\ Beside(s.targets, w.targets, tid) /\ DOMAIN w.targets[tid] = TargetFields
        /\ w.targets[tid].lld = s.targets[tid].lld /\ w.targets[tid].luns = s.targets[tid].luns
    BY SMT, <1>1, <1>2 DEF Beside, TargetFields
  <1>4. Shape(w)
    <2>1. \A i \in DOMAIN w.targets: DOMAIN w.targets[i] = TargetFields /\ w.targets[i].lld \in Drivers
      BY Zenon, <1>2, <1>3 DEF Beside
    <2>2. DOMAIN w.drv = Drivers /\ DOMAIN w.list = Drivers
      BY Zenon, <1>1 DEF Shape, Alike
    <2> QED BY Zenon, <1>1, <2>1, <2>2 DEF Shape, TargetFields
  <1>5. Listed(s) => Listed(w)
    BY SMT, <1>1, <1>3 DEF Listed, Alike, Beside
  <1> QED BY Zenon, <1>1, <1>3, <1>4, <1>5

\* The names bound to one target change.
LEMMA SetIqn ==
    ASSUME NEW s, Shape(s), NEW tid \in DOMAIN s.targets, NEW v, NEW w, NewIqn(s, tid, v, w)
    PROVE  /\ Shape(w) /\ Alike(s, w) /\ w.stores = s.stores /\ (Listed(s) => Listed(w))
           /\ Beside(s.targets, w.targets, tid) /\ w.targets[tid].luns = s.targets[tid].luns
  <1>1. /\ w = [f \in SysFields |-> w[f]] /\ Alike(s, w) /\ w.stores = s.stores
        /\ w.targets = [s.targets EXCEPT ![tid].iqn = v]
    BY Zenon DEF Shape, SysFields, Alike, NewIqn
  <1>2. \A i \in DOMAIN s.targets: DOMAIN s.targets[i] = TargetFields /\ s.targets[i].lld \in Drivers
    BY Zenon DEF Shape, TargetFields
  <1>3. /\ Beside(s.targets, w.targets, tid) /\ DOMAIN w.targets[tid] = TargetFields
        /\ w.targets[tid].lld = s.targets[tid].lld /\ w.targets[tid].luns = s.targets[tid].luns
    BY SMT, <1>1, <1>2 DEF Beside, TargetFields
  <1>4. Shape(w)
    <2>1. \A i \in DOMAIN w.targets: DOMAIN w.targets[i] = TargetFields /\ w.targets[i].lld \in Drivers
      BY Zenon, <1>2, <1>3 DEF Beside
    <2>2. DOMAIN w.drv = Drivers /\ DOMAIN w.list = Drivers
      BY Zenon, <1>1 DEF Shape, Alike
    <2> QED BY Zenon, <1>1, <2>1, <2>2 DEF Shape, TargetFields
  <1>5. Listed(s) => Listed(w)
    BY SMT, <1>1, <1>3 DEF Listed, Alike, Beside
  <1> QED BY Zenon, <1>1, <1>3, <1>4, <1>5

\* The stores change.
LEMMA SetStores ==
    ASSUME NEW s, Shape(s), NEW S, NEW w, NewStores(s, S, w)
    PROVE  Shape(w) /\ Alike(s, w) /\ w.stores = S /\ w.targets = s.targets /\ (Listed(s) => Listed(w))
  <1>1. w = [f \in SysFields |-> w[f]] /\ Alike(s, w) /\ w.stores = S /\ w.targets = s.targets
    BY Zenon DEF Shape, SysFields, Alike, NewStores
  <1> QED BY Zenon, <1>1 DEF Shape, Alike, Listed

\* Portals and connections are those there were.
LEMMA AlikeSound ==
    ASSUME NEW s, NEW w, Sound(s), Alike(s, w), Shape(w), Stores(w)
    PROVE  Sound(w) /\ Closes(s, w)
  BY Zenon DEF Sound, Known, Alike, Closes

\* NewUnit: the backing store that was started goes when the path cannot be opened.
LEMMA CreateUnit ==
    ASSUME NEW s, NEW q, Sound(s)
    PROVE  Effect(s, tgt_device_create(s, q), q)
  <1> DEFINE u == [s EXCEPT !.stores = @ \cup {<<q.tid, q.lun>>}]
             x == bs_exit(u, q.tid, {q.lun})
             w == [u EXCEPT !.targets[q.tid].luns = @ \cup {q.lun}]
  <1>a. CASE ~target_lookup(s, q.tid) \/ q.lun \in s.targets[q.tid].luns
    BY Zenon, <1>a, RefuseEffect DEF tgt_device_create
  <1> SUFFICES ASSUME target_lookup(s, q.tid), q.lun \notin s.targets[q.tid].luns
               PROVE  Effect(s, tgt_device_create(s, q), q)
    BY Zenon, <1>a
  <1>b. tgt_device_create(s, q) = Refuse(s) \/ tgt_device_create(s, q) = Refuse(x) \/ tgt_device_create(s, q) = Ok(w)
    BY SMT DEF tgt_device_create, NewUnit
  <1>c. /\ NewStores(s, s.stores \cup {<<q.tid, q.lun>>}, u)
        /\ NewStores(u, u.stores \ ({q.tid} \X {q.lun}), x)
        /\ NewLuns(u, q.tid, u.targets[q.tid].luns \cup {q.lun}, w)
    BY Zenon DEF bs_exit, NewStores, NewLuns
  <1> HIDE DEF u, x, w
  <1>1. /\ Shape(u) /\ Alike(s, u) /\ u.stores = s.stores \cup {<<q.tid, q.lun>>} /\ u.targets = s.targets
        /\ (Listed(s) => Listed(u))
    BY Zenon, <1>c, SetStores DEF Sound
  <1>2. s.stores = Units(s.targets) /\ q.tid \in DOMAIN s.targets /\ q.tid \in DOMAIN u.targets
    BY Zenon, <1>1 DEF Sound, Stores, target_lookup
  <1>3. x = s
    <2>1. <<q.tid, q.lun>> \notin s.stores
      <3>1. ~HasUnit(s.targets, <<q.tid, q.lun>>)
        BY SMT DEF HasUnit
      <3> QED BY Zenon, <1>2, <3>1, UnitsPairs
    <2>2. (s.stores \cup {<<q.tid, q.lun>>}) \ ({q.tid} \X {q.lun}) = s.stores
      BY SMT, <2>1
    <2>3. NewStores(u, s.stores, x)
      BY Zenon, <1>1, <1>c, <2>2
    <2> QED BY Zenon, <1>c, <2>3 DEF Sound, Shape, SysFields, NewStores
  <1>4. /\ Shape(w) /\ Alike(u, w) /\ w.stores = u.stores /\ (Listed(u) => Listed(w))
        /\ Beside(u.targets, w.targets, q.tid) /\ w.targets[q.tid].luns = u.targets[q.tid].luns \cup {q.lun}
    BY SMT, <1>1, <1>2, <1>c, SetLuns
  <1>5. w.stores = Units(w.targets)
    <2>1. UnitAdded(s.targets, w.targets, q.tid, q.lun)
      BY SMT, <1>1, <1>2, <1>4 DEF Beside, UnitAdded
    <2>2. Units(w.targets) = Units(s.targets) \cup {<<q.tid, q.lun>>}
      BY SMT, <2>1, UnitsAdd
    <2> QED BY Zenon, <1>1, <1>2, <1>4, <2>2
  <1>6. Effect(s, Ok(w), q)
    <2>1. Sound(w) /\ Closes(s, w)
      BY Zenon, <1>1, <1>4, <1>5, AlikeSound DEF Alike, Stores
    <2>2. Listed(s) => Listed(w)
      BY Zenon, <1>1, <1>4
    <2> QED BY Zenon, <2>1, <2>2 DEF Effect, Ok, Result
  <1> QED BY Zenon, <1>b, <1>3, <1>6, RefuseEffect

Taken(s, tid, D, v, u) == NewLuns(s, tid, s.targets[tid].luns \ D, v) /\ u = bs_exit(v, tid, D)

\* bs_exit after units were taken from a target
LEMMA TakeUnits ==
    ASSUME NEW s, Sound(s), NEW tid \in DOMAIN s.targets, NEW D, NEW v, NEW u, Taken(s, tid, D, v, u)
    PROVE  /\ Sound(u) /\ Alike(s, u) /\ (Listed(s) => Listed(u))
           /\ Beside(s.targets, u.targets, tid) /\ u.targets[tid].luns = s.targets[tid].luns \ D
  <1>1. /\ Shape(v) /\ Alike(s, v) /\ v.stores = s.stores /\ (Listed(s) => Listed(v))
        /\ Beside(s.targets, v.targets, tid) /\ v.targets[tid].luns = s.targets[tid].luns \ D
    BY SMT, SetLuns DEF Sound, Taken
  <1>2. NewStores(v, v.stores \ ({tid} \X D), u)
    BY Zenon DEF bs_exit, NewStores, Taken
  <1>3. Shape(u) /\ Alike(v, u) /\ u.stores = v.stores \ ({tid} \X D) /\ u.targets = v.targets /\ (Listed(v) => Listed(u))
    BY SMT, <1>1, <1>2, SetStores
  <1>4. Stores(u)
    <2>1. UnitsRemoved(s.targets, u.targets, tid, D)
      BY SMT, <1>1, <1>3 DEF Beside, UnitsRemoved
    <2>2. Units(u.targets) = Units(s.targets) \ ({tid} \X D)
      BY SMT, <2>1, UnitsRemove
    <2> QED BY Zenon, <1>1, <1>3, <2>2 DEF Stores, Sound
  <1>5. Alike(s, u)
    BY Zenon, <1>1, <1>3 DEF Alike
  <1> QED BY Zenon, <1>1, <1>3, <1>4, <1>5, AlikeSound

\* tgt_device_destroy
LEMMA DestroyUnit ==
    ASSUME NEW s, NEW q, Sound(s)
    PROVE  Effect(s, tgt_device_destroy(s, q), q)
  <1> DEFINE v == [s EXCEPT !.targets[q.tid].luns = @ \ {q.lun}]
             u == bs_exit(v, q.tid, {q.lun})
  <1>1. tgt_device_destroy(s, q) = Refuse(s) \/ (tgt_device_destroy(s, q) = Ok(u) /\ q.tid \in DOMAIN s.targets)
    BY SMT DEF tgt_device_destroy, target_lookup
  <1>2. Taken(s, q.tid, {q.lun}, v, u)
    BY Zenon DEF NewLuns, Taken
  <1> HIDE DEF v, u
  <1>3. ASSUME q.tid \in DOMAIN s.targets PROVE Effect(s, Ok(u), q)
    <2>1. Sound(u) /\ Alike(s, u) /\ (Listed(s) => Listed(u))
      BY SMT, <1>2, <1>3, TakeUnits
    <2>2. Closes(s, u)
      BY Zenon, <2>1 DEF Alike, Closes
    <2> QED BY Zenon, <2>1, <2>2 DEF Effect, Ok, Result
  <1> QED BY Zenon, <1>1, <1>3, RefuseEffect

\* conn_close: connections go or close, nothing else changes.
LEMMA CloseConn ==
    ASSUME NEW s, Sound(s), NEW xs, NEW w, w = conn_close(s, xs)
    PROVE  /\ Sound(w) /\ Closes(s, w) /\ w.targets = s.targets /\ w.stores = s.stores
           /\ w.portals = s.portals /\ w.list = s.list /\ w.drv = s.drv
  <1>1. /\ w = [f \in SysFields |-> w[f]] /\ w.targets = s.targets /\ w.stores = s.stores
        /\ w.portals = s.portals /\ w.list = s.list /\ w.drv = s.drv
        /\ w.conns = [x \in {y \in DOMAIN s.conns: y \notin xs \/ InScsi(s, y)} |->
                            IF x \in xs THEN "closing" ELSE s.conns[x]]
    BY Zenon DEF conn_close, Sound, Shape, SysFields
  <1>2. Closes(s, w)
    BY SMT, <1>1 DEF Closes
  <1>3. Shape(w) /\ Stores(w)
    BY Zenon, <1>1 DEF Sound, Shape, Stores
  <1>4. Known(w)
    BY Zenon, <1>1, <1>2 DEF Sound, Known, Closes
  <1> QED BY Zenon, <1>1, <1>2, <1>3, <1>4 DEF Sound

\* tgt_target_destroy: an active unit ends it halfway, and still every unit that is left has its store.
LEMMA DestroyTarget ==
    ASSUME NEW s, NEW q, Sound(s), q.mode = "target", q.op = "delete"
    PROVE  Effect(s, tgt_target_destroy(s, q), q)
  <1> DEFINE D == Destroyed(s, q.tid)
             v == [s EXCEPT !.targets[q.tid].luns = @ \ D]
             u == bs_exit(v, q.tid, D)
             y == conn_close(u, Nexus(s, q.tid))
             z == [y EXCEPT !.targets = Without(@, {q.tid}), !.list = [l \in Drivers |-> @[l] \ {q.tid}]]
  <1>1. \/ tgt_target_destroy(s, q) = Refuse(s)
        \/ /\ q.tid \in DOMAIN s.targets
           /\ \/ tgt_target_destroy(s, q) = Refuse(u)
              \/ tgt_target_destroy(s, q) = Ok(z) /\ u.targets[q.tid].luns = {}
    <2>1. CASE ~target_lookup(s, q.tid) \/ (~q.force /\ Nexus(s, q.tid) # {})
      BY Zenon, <2>1 DEF tgt_target_destroy
    <2>2. CASE target_lookup(s, q.tid) /\ ~(~q.force /\ Nexus(s, q.tid) # {})
      BY Zenon, <2>2 DEF tgt_target_destroy, target_lookup
    <2> QED BY Zenon, <2>1, <2>2
  <1>2. Taken(s, q.tid, D, v, u) /\ y = conn_close(u, Nexus(s, q.tid))
    BY Zenon DEF NewLuns, Taken
  <1>8. Half(s, u, q)
    <2>1. D \in SUBSET s.targets[q.tid].luns
      BY Zenon DEF Destroyed
    <2>2. \A l \in D: ~LuActive(s, q.tid, l)
      BY SMT DEF Destroyed, LuActive
    <2>3. u = bs_exit([s EXCEPT !.targets[q.tid].luns = @ \ D], q.tid, D)
      OBVIOUS
    <2> HIDE DEF D, u
    <2> QED BY Zenon, <2>1, <2>2, <2>3 DEF Half
  <1>3. z = [[y EXCEPT !.targets = Without(y.targets, {q.tid})] EXCEPT !.list = [l \in Drivers |-> y.list[l] \ {q.tid}]]
    BY Zenon
  <1> HIDE DEF D, v, u, y, z
  <1> SUFFICES ASSUME q.tid \in DOMAIN s.targets
               PROVE  Effect(s, Refuse(u), q) /\ (u.targets[q.tid].luns = {} => Effect(s, Ok(z), q))
    BY Zenon, <1>1, RefuseEffect
  <1>4. /\ Sound(u) /\ Alike(s, u) /\ (Listed(s) => Listed(u))
        /\ Beside(s.targets, u.targets, q.tid)
    BY SMT, <1>2, TakeUnits
  <1>5. Closes(s, u)
    BY Zenon, <1>4 DEF Alike, Closes
  <1>6. Effect(s, Refuse(u), q)
    BY Zenon, <1>4, <1>5, <1>8 DEF Effect, Refuse, Result
  <1>7. ASSUME u.targets[q.tid].luns = {} PROVE Effect(s, Ok(z), q)
    <2>1. /\ Sound(y) /\ Closes(u, y) /\ y.targets = u.targets /\ y.stores = u.stores
          /\ y.portals = u.portals /\ y.list = u.list /\ y.drv = u.drv
      BY SMT, <1>2, <1>4, CloseConn
    <2>2. /\ z = [f \in SysFields |-> z[f]] /\ z.targets = Without(y.targets, {q.tid}) /\ z.stores = y.stores
          /\ z.portals = y.portals /\ z.conns = y.conns /\ z.drv = y.drv
          /\ z.list = [l \in Drivers |-> y.list[l] \ {q.tid}]
      BY Zenon, <1>3, <2>1 DEF Sound, Shape, SysFields
    <2>3. DOMAIN z.targets = DOMAIN y.targets \ {q.tid} /\ \A i \in DOMAIN z.targets: z.targets[i] = y.targets[i]
      BY SMT, <2>2 DEF Without
    <2>4. Shape(z)
      <3>1. \A i \in DOMAIN z.targets: DOMAIN z.targets[i] = TargetFields /\ z.targets[i].lld \in Drivers
        BY Zenon, <2>1, <2>3 DEF Sound, Shape, TargetFields
      <3>2. DOMAIN z.drv = Drivers /\ DOMAIN z.list = Drivers
        BY Zenon, <2>1, <2>2 DEF Sound, Shape
      <3> QED BY Zenon, <2>2, <3>1, <3>2 DEF Shape, TargetFields
    <2>5. Stores(z)
      <3>1. TargetGone(y.targets, z.targets, q.tid)
        BY Zenon, <1>7, <2>1, <2>3 DEF TargetGone
      <3>2. Units(z.targets) = Units(y.targets)
        BY SMT, <3>1, UnitsGone
      <3> QED BY Zenon, <2>1, <2>2, <3>2 DEF Sound, Stores
    <2>6. Closes(s, z)
      BY SMT, <1>4, <2>1, <2>2 DEF Closes, Alike
    <2>7. Known(z)
      BY Zenon, <2>1, <2>2 DEF Sound, Known
    <2>8. Listed(u) => Listed(z)
      <3>1. \A i \in DOMAIN u.targets: u.targets[i].lld \in Drivers
        BY Zenon, <1>4 DEF Sound, Shape
      <3>2. ASSUME Listed(u), NEW i \in DOMAIN z.targets
            PROVE  z.drv[z.targets[i].lld] = "INIT" /\ i \in z.list[z.targets[i].lld]
        <4>1. i \in DOMAIN u.targets /\ z.targets[i] = u.targets[i] /\ i # q.tid
          BY Zenon, <2>1, <2>3
        <4>2. u.drv[u.targets[i].lld] = "INIT" /\ i \in u.list[u.targets[i].lld]
          BY Zenon, <3>2, <4>1 DEF Listed
        <4>3. z.list[u.targets[i].lld] = u.list[u.targets[i].lld] \ {q.tid}
          BY SMT, <2>1, <2>2, <3>1, <4>1
        <4> QED BY Zenon, <2>1, <2>2, <4>1, <4>2, <4>3
      <3> QED BY Zenon, <3>2 DEF Listed
    <2> QED BY Zenon, <1>4, <2>4, <2>5, <2>6, <2>7, <2>8 DEF Effect, Ok, Result, Sound
  <1> QED BY Zenon, <1>6, <1>7

\* tgt_target_create: the target comes with unit 0, on the list of a driver that runs if the request named one.
LEMMA CreateTarget ==
    ASSUME NEW s, NEW q, NEW lld \in Drivers, Sound(s), Named(s, q) => s.drv[lld] = "INIT"
    PROVE  Effect(s, tgt_target_create(s, lld, q), q)
  <1> DEFINE t == [name |-> q.name, lld |-> lld, acl |-> {}, iqn |-> {}, luns |-> {0}]
             w == [s EXCEPT !.targets = With(@, q.tid, t), !.list[lld] = @ \cup {q.tid}, !.stores = @ \cup {<<q.tid, 0>>}]
  <1>1. tgt_target_create(s, lld, q) = Refuse(s) \/ (tgt_target_create(s, lld, q) = Ok(w) /\ q.tid \notin DOMAIN s.targets)
    BY Zenon DEF tgt_target_create, target_lookup
  <1>2. /\ w = [f \in SysFields |-> w[f]] /\ w.targets = With(s.targets, q.tid, t)
        /\ w.list = [s.list EXCEPT ![lld] = @ \cup {q.tid}] /\ w.stores = s.stores \cup {<<q.tid, 0>>}
        /\ w.portals = s.portals /\ w.conns = s.conns /\ w.drv = s.drv
    BY Zenon DEF Sound, Shape, SysFields
  <1>3. t.lld = lld /\ t.luns = {0} /\ DOMAIN t = TargetFields
    BY SMT DEF TargetFields
  <1> HIDE DEF w, t
  <1> SUFFICES ASSUME q.tid \notin DOMAIN s.targets PROVE Effect(s, Ok(w), q)
    BY Zenon, <1>1, RefuseEffect
  <1>4. /\ DOMAIN w.targets = DOMAIN s.targets \cup {q.tid} /\ w.targets[q.tid] = t
        /\ \A i \in DOMAIN s.targets: i # q.tid /\ w.targets[i] = s.targets[i]
    BY SMT, <1>2 DEF With
  <1>5. DOMAIN w.list = Drivers /\ \A l \in Drivers: s.list[l] \subseteq w.list[l] /\ q.tid \in w.list[lld]
    BY SMT, <1>2 DEF Sound, Shape
  <1>6. Shape(w)
    <2>1. \A i \in DOMAIN w.targets: DOMAIN w.targets[i] = TargetFields /\ w.targets[i].lld \in Drivers
      BY Zenon, <1>3, <1>4 DEF Sound, Shape, TargetFields
    <2> QED BY Zenon, <1>2, <1>5, <2>1 DEF Sound, Shape, TargetFields
  <1>7. Stores(w)
    <2>1. UnitAdded(s.targets, w.targets, q.tid, 0)
      BY SMT, <1>3, <1>4 DEF UnitAdded
    <2>2. Units(w.targets) = Units(s.targets) \cup {<<q.tid, 0>>}
      BY SMT, <2>1, UnitsAdd
    <2> QED BY Zenon, <1>2, <2>2 DEF Sound, Stores
  <1>8. Known(w) /\ Closes(s, w)
    BY Zenon, <1>2 DEF Sound, Known, Closes
  <1>9. ASSUME Named(s, q), Listed(s) PROVE Listed(w)
    <2>1. ASSUME NEW i \in DOMAIN s.targets PROVE w.drv[w.targets[i].lld] = "INIT" /\ i \in w.list[w.targets[i].lld]
      <3>1. s.drv[s.targets[i].lld] = "INIT" /\ i \in s.list[s.targets[i].lld] /\ s.targets[i].lld \in Drivers
        BY Zenon, <1>9 DEF Listed, Sound, Shape
      <3> QED BY Zenon, <1>2, <1>4, <1>5, <3>1
    <2>2. w.drv[w.targets[q.tid].lld] = "INIT" /\ q.tid \in w.list[w.targets[q.tid].lld]
      BY Zenon, <1>2, <1>3, <1>4, <1>5, <1>9
    <2> QED BY Zenon, <1>4, <2>1, <2>2 DEF Listed
  <1> QED BY Zenon, <1>6, <1>7, <1>8, <1>9 DEF Effect, Ok, Result, Sound

\* A result that leaves all alone but one target's initiators
Plain(s, r) == Sound(r.s) /\ Alike(s, r.s) /\ (Listed(s) => Listed(r.s)) /\ r.err \in {0, 1}

\* A target without other units has the stores it had.
LEMMA SameUnits ==
    ASSUME NEW s, NEW w, Sound(s), NEW tid, Shape(w), Alike(s, w), w.stores = s.stores,
           Beside(s.targets, w.targets, tid), w.targets[tid].luns = s.targets[tid].luns
    PROVE  Sound(w)
  <1>1. DOMAIN w.targets = DOMAIN s.targets /\ \A i \in DOMAIN s.targets: w.targets[i].luns = s.targets[i].luns
    BY Zenon DEF Beside
  <1>2. Units(w.targets) = Units(s.targets)
    BY SMT, <1>1, UnitsKept
  <1>3. Stores(w)
    BY Zenon, <1>2 DEF Sound, Stores
  <1> QED BY Zenon, <1>3, AlikeSound

\* acl_add and acl_del
LEMMA AclPlain ==
    ASSUME NEW s, NEW tid, NEW a, Sound(s)
    PROVE  Plain(s, acl_add(s, tid, a)) /\ Plain(s, acl_del(s, tid, a))
  <1>1. Plain(s, Refuse(s))
    BY Zenon DEF Plain, Alike, Refuse, Result
  <1>2. ASSUME NEW v, NEW w, NewAcl(s, tid, v, w), tid \in DOMAIN s.targets PROVE Plain(s, Ok(w))
    <2>1. /\ Shape(w) /\ Alike(s, w) /\ w.stores = s.stores /\ (Listed(s) => Listed(w))
          /\ Beside(s.targets, w.targets, tid) /\ w.targets[tid].luns = s.targets[tid].luns
      BY SMT, <1>2, SetAcl DEF Sound
    <2>2. Sound(w)
      BY Zenon, <2>1, SameUnits
    <2> QED BY Zenon, <2>1, <2>2 DEF Plain, Ok, Result
  <1>3. \/ acl_add(s, tid, a) = Refuse(s)
        \/ tid \in DOMAIN s.targets /\ acl_add(s, tid, a) = Ok([s EXCEPT !.targets[tid].acl = @ \cup {a}])
    BY Zenon DEF acl_add, target_lookup
  <1>4. \/ acl_del(s, tid, a) = Refuse(s)
        \/ tid \in DOMAIN s.targets /\ acl_del(s, tid, a) = Ok([s EXCEPT !.targets[tid].acl = @ \ {a}])
    BY Zenon DEF acl_del, target_lookup
  <1>5. ASSUME NEW v, tid \in DOMAIN s.targets PROVE Plain(s, Ok([s EXCEPT !.targets[tid].acl = v]))
    BY Zenon, <1>2, <1>5 DEF NewAcl
  <1> QED BY Zenon, <1>1, <1>3, <1>4, <1>5

\* iqn_acl_add and iqn_acl_del
LEMMA IqnPlain ==
    ASSUME NEW s, NEW tid, NEW a, Sound(s)
    PROVE  Plain(s, iqn_acl_add(s, tid, a)) /\ Plain(s, iqn_acl_del(s, tid, a))
  <1>1. Plain(s, Refuse(s))
    BY Zenon DEF Plain, Alike, Refuse, Result
  <1>2. ASSUME NEW v, NEW w, NewIqn(s, tid, v, w), tid \in DOMAIN s.targets PROVE Plain(s, Ok(w))
    <2>1. /\ Shape(w) /\ Alike(s, w) /\ w.stores = s.stores /\ (Listed(s) => Listed(w))
          /\ Beside(s.targets, w.targets, tid) /\ w.targets[tid].luns = s.targets[tid].luns
      BY SMT, <1>2, SetIqn DEF Sound
    <2>2. Sound(w)
      BY Zenon, <2>1, SameUnits
    <2> QED BY Zenon, <2>1, <2>2 DEF Plain, Ok, Result
  <1>3. \/ iqn_acl_add(s, tid, a) = Refuse(s)
        \/ tid \in DOMAIN s.targets /\ iqn_acl_add(s, tid, a) = Ok([s EXCEPT !.targets[tid].iqn = @ \cup {a}])
    BY Zenon DEF iqn_acl_add, target_lookup
  <1>4. \/ iqn_acl_del(s, tid, a) = Refuse(s)
        \/ tid \in DOMAIN s.targets /\ iqn_acl_del(s, tid, a) = Ok([s EXCEPT !.targets[tid].iqn = @ \ {a}])
    BY Zenon DEF iqn_acl_del, target_lookup
  <1>5. ASSUME NEW v, tid \in DOMAIN s.targets PROVE Plain(s, Ok([s EXCEPT !.targets[tid].iqn = v]))
    BY Zenon, <1>2, <1>5 DEF NewIqn
  <1> QED BY Zenon, <1>1, <1>3, <1>4, <1>5

\* What an operation on one of the two lists returns when it fails: nothing was done.
LEMMA AclRefused ==
    ASSUME NEW s, NEW tid, NEW a
    PROVE  /\ acl_add(s, tid, a).err # 0 => acl_add(s, tid, a).s = s
           /\ acl_del(s, tid, a).err # 0 => acl_del(s, tid, a).s = s
           /\ iqn_acl_add(s, tid, a).err # 0 => iqn_acl_add(s, tid, a).s = s
           /\ iqn_acl_del(s, tid, a).err # 0 => iqn_acl_del(s, tid, a).s = s
  <1>1. ASSUME NEW w PROVE Ok(w).err = 0 /\ Refuse(s).s = s
    BY SMT DEF Ok, Refuse, Result
  <1>2. /\ acl_add(s, tid, a) = Refuse(s) \/ \E w: acl_add(s, tid, a) = Ok(w)
        /\ acl_del(s, tid, a) = Refuse(s) \/ \E w: acl_del(s, tid, a) = Ok(w)
        /\ iqn_acl_add(s, tid, a) = Refuse(s) \/ \E w: iqn_acl_add(s, tid, a) = Ok(w)
        /\ iqn_acl_del(s, tid, a) = Refuse(s) \/ \E w: iqn_acl_del(s, tid, a) = Ok(w)
    BY Zenon DEF acl_add, acl_del, iqn_acl_add, iqn_acl_del
  <1> QED BY Zenon, <1>1, <1>2

\* Two operations one after the other: the second is not tried when the first fails.
Then(r, one, z, y) == y = IF r.err # 0 \/ one THEN r ELSE z

\* bind: the address may be bound although the name is refused.
LEMMA BindEffect ==
    ASSUME NEW s, NEW q, Sound(s), q.op = "bind"
    PROVE  Effect(s, bind(s, q), q)
  <1> DEFINE r == IF q.addr = None THEN Ok(s) ELSE acl_add(s, q.tid, q.addr)
             z == iqn_acl_add(r.s, q.tid, q.iqn)
             y == bind(s, q)
  <1>1. CASE q.addr = None /\ q.iqn = None
    BY Zenon, <1>1, RefuseEffect DEF bind
  <1>2. CASE ~(q.addr = None /\ q.iqn = None)
    <2>1. Then(r, q.iqn = None, z, y)
      BY Zenon, <1>2 DEF bind, Then
    <2>2. Plain(s, r)
      <3>1. Plain(s, Ok(s))
        BY Zenon DEF Plain, Alike, Ok, Result
      <3> QED BY Zenon, <3>1, AclPlain
    <2>4. (r.err # 0 => r.s = s) /\ (r.s = s \/ r.s = [s EXCEPT !.targets[q.tid].acl = @ \cup {q.addr}])
      <3> DEFINE w == [s EXCEPT !.targets[q.tid].acl = @ \cup {q.addr}]
      <3>1. r \in {Ok(s), Refuse(s), Ok(w)}
        BY Zenon DEF acl_add
      <3> HIDE DEF r, w
      <3>2. (r.err # 0 => r.s = s) /\ (r.s = s \/ r.s = w)
        <4>1. /\ Ok(s).err = 0 /\ Ok(s).s = s /\ Refuse(s).s = s
              /\ Ok(w).err = 0 /\ Ok(w).s = w
          BY SMT DEF Ok, Refuse, Result
        <4> QED BY Zenon, <3>1, <4>1
      <3> QED BY Zenon, <3>2 DEF w
    <2>5. r.s = s \/ Half(s, r.s, q)
      <3> HIDE DEF r
      <3> QED BY Zenon, <2>4 DEF Half
    <2> HIDE DEF r
    <2>8. Sound(r.s)
      BY Zenon, <2>2 DEF Plain
    <2>3. Plain(r.s, z) /\ (z.err # 0 => z.s = r.s)
      <3> DEFINE v == r.s
                 a == q.iqn
                 i == q.tid
      <3>1. Sound(v)
        BY Zenon, <2>8
      <3> HIDE DEF v, a, i
      <3>2. Plain(v, iqn_acl_add(v, i, a))
        BY Zenon, <3>1, IqnPlain
      <3>3. iqn_acl_add(v, i, a).err # 0 => iqn_acl_add(v, i, a).s = v
        BY SMTT(30), AclRefused
      <3> QED BY Zenon, <3>2, <3>3 DEF v, a, i
    <2> HIDE DEF z, y
    <2>6. Plain(s, y) /\ (y.err # 0 => y.s = s \/ Half(s, y.s, q))
      BY Zenon, <2>1, <2>2, <2>3, <2>4, <2>5 DEF Plain, Alike, Then
    <2>7. Effect(s, y, q)
      BY Zenon, <2>6 DEF Plain, Effect, Alike, Closes
    <2> QED BY Zenon, <2>7 DEF y
  <1> QED BY Zenon, <1>1, <1>2

\* unbind likewise
LEMMA UnbindEffect ==
    ASSUME NEW s, NEW q, Sound(s), q.op = "unbind"
    PROVE  Effect(s, unbind(s, q), q)
  <1> DEFINE r == IF q.addr = None THEN Ok(s) ELSE acl_del(s, q.tid, q.addr)
             z == iqn_acl_del(r.s, q.tid, q.iqn)
             y == unbind(s, q)
  <1>1. CASE q.addr = None /\ q.iqn = None
    BY Zenon, <1>1, RefuseEffect DEF unbind
  <1>2. CASE ~(q.addr = None /\ q.iqn = None)
    <2>1. Then(r, q.iqn = None, z, y)
      BY Zenon, <1>2 DEF unbind, Then
    <2>2. Plain(s, r)
      <3>1. Plain(s, Ok(s))
        BY Zenon DEF Plain, Alike, Ok, Result
      <3> QED BY Zenon, <3>1, AclPlain
    <2>4. (r.err # 0 => r.s = s) /\ (r.s = s \/ r.s = [s EXCEPT !.targets[q.tid].acl = @ \ {q.addr}])
      <3> DEFINE w == [s EXCEPT !.targets[q.tid].acl = @ \ {q.addr}]
      <3>1. r \in {Ok(s), Refuse(s), Ok(w)}
        BY Zenon DEF acl_del
      <3> HIDE DEF r, w
      <3>2. (r.err # 0 => r.s = s) /\ (r.s = s \/ r.s = w)
        <4>1. /\ Ok(s).err = 0 /\ Ok(s).s = s /\ Refuse(s).s = s
              /\ Ok(w).err = 0 /\ Ok(w).s = w
          BY SMT DEF Ok, Refuse, Result
        <4> QED BY Zenon, <3>1, <4>1
      <3> QED BY Zenon, <3>2 DEF w
    <2>5. r.s = s \/ Half(s, r.s, q)
      <3> HIDE DEF r
      <3> QED BY Zenon, <2>4 DEF Half
    <2> HIDE DEF r
    <2>8. Sound(r.s)
      BY Zenon, <2>2 DEF Plain
    <2>3. Plain(r.s, z) /\ (z.err # 0 => z.s = r.s)
      <3> DEFINE v == r.s
                 a == q.iqn
                 i == q.tid
      <3>1. Sound(v)
        BY Zenon, <2>8
      <3> HIDE DEF v, a, i
      <3>2. Plain(v, iqn_acl_del(v, i, a))
        BY Zenon, <3>1, IqnPlain
      <3>3. iqn_acl_del(v, i, a).err # 0 => iqn_acl_del(v, i, a).s = v
        BY SMTT(30), AclRefused
      <3> QED BY Zenon, <3>2, <3>3 DEF v, a, i
    <2> HIDE DEF z, y
    <2>6. Plain(s, y) /\ (y.err # 0 => y.s = s \/ Half(s, y.s, q))
      BY Zenon, <2>1, <2>2, <2>3, <2>4, <2>5 DEF Plain, Alike, Then
    <2>7. Effect(s, y, q)
      BY Zenon, <2>6 DEF Plain, Effect, Alike, Closes
    <2> QED BY Zenon, <2>7 DEF y
  <1> QED BY Zenon, <1>1, <1>2

\* A result that leaves all alone but the portals
Ports(s, r) == Sound(r.s) /\ Closes(s, r.s) /\ (Listed(s) => Listed(r.s)) /\ r.err \in {0, 1}

\* The portals change.
LEMMA SetPortals ==
    ASSUME NEW s, NEW P, NEW w, Sound(s), P \subseteq profile.portals, w = [s EXCEPT !.portals = P]
    PROVE  Sound(w) /\ Closes(s, w) /\ (Listed(s) => Listed(w))
  <1>1. /\ w = [f \in SysFields |-> w[f]] /\ w.portals = P /\ w.targets = s.targets /\ w.list = s.list
        /\ w.stores = s.stores /\ w.conns = s.conns /\ w.drv = s.drv
    BY Zenon DEF Sound, Shape, SysFields
  <1> QED BY Zenon, <1>1 DEF Sound, Shape, Stores, Known, Closes, Listed

\* iscsi_add_portal and iscsi_delete_portal
LEMMA PortalStep ==
    ASSUME NEW s, NEW p \in profile.portals, Sound(s)
    PROVE  /\ Ports(s, iscsi_add_portal(s, p)) /\ Ports(s, iscsi_delete_portal(s, p))
           /\ iscsi_add_portal(s, p).s \in {s, [s EXCEPT !.portals = @ \cup {p}]}
           /\ iscsi_delete_portal(s, p).s \in {s, [s EXCEPT !.portals = @ \ {p}]}
           /\ iscsi_add_portal(s, p).err # 0 => iscsi_add_portal(s, p).s = s
           /\ iscsi_delete_portal(s, p).err # 0 => iscsi_delete_portal(s, p).s = s
  <1> DEFINE P == s.portals \cup {p}
             N == s.portals \ {p}
             a == [s EXCEPT !.portals = P]
             d == [s EXCEPT !.portals = N]
  <1>1. P \subseteq profile.portals /\ N \subseteq profile.portals
    BY Zenon DEF Sound, Known
  <1>2. a = [s EXCEPT !.portals = P] /\ d = [s EXCEPT !.portals = N]
    OBVIOUS
  <1>3. iscsi_add_portal(s, p) \in {Refuse(s), Ok(a)} /\ iscsi_delete_portal(s, p) \in {Refuse(s), Ok(d)}
    BY Zenon DEF iscsi_add_portal, iscsi_delete_portal
  <1>4. a = [s EXCEPT !.portals = @ \cup {p}] /\ d = [s EXCEPT !.portals = @ \ {p}]
    BY Zenon
  <1> HIDE DEF P, N, a, d
  <1>5. /\ Sound(a) /\ Closes(s, a) /\ (Listed(s) => Listed(a))
        /\ Sound(d) /\ Closes(s, d) /\ (Listed(s) => Listed(d))
    BY Zenon, <1>1, <1>2, SetPortals
  <1>6. Ports(s, Refuse(s)) /\ Ports(s, Ok(a)) /\ Ports(s, Ok(d))
    BY Zenon, <1>5 DEF Ports, Refuse, Ok, Result, Closes
  <1>7. Ok(a).s = a /\ Ok(a).err = 0 /\ Ok(d).s = d /\ Ok(d).err = 0 /\ Refuse(s).s = s
    BY Zenon DEF Refuse, Ok, Result
  <1> QED BY Zenon, <1>3, <1>4, <1>6, <1>7

\* Two of them, one after the other: what the first did stays.
LEMMA PortalsTwo ==
    ASSUME NEW s, NEW q, NEW r, NEW z, NEW y, NEW one, Ports(s, r), Then(r, one, z, y), r.err # 0 => r.s = s,
           r.s = s \/ Half(s, r.s, q), ~one => Ports(r.s, z) /\ (z.err # 0 => z.s = r.s)
    PROVE  Effect(s, y, q)
  <1>1. CASE y = r
    BY Zenon, <1>1 DEF Ports, Effect
  <1>2. CASE ~one /\ y = z
    <2>1. Closes(s, z.s)
      BY Zenon, <1>2 DEF Ports, Closes
    <2> QED BY Zenon, <1>2, <2>1 DEF Ports, Effect
  <1> QED BY Zenon, <1>1, <1>2 DEF Then

\* portal_mgmt
LEMMA PortalEffect ==
    ASSUME NEW s, NEW q, NEW lld, Sound(s), q.mode = "portal", q.portal \in profile.portals, q.more \in profile.portals \cup {None}
    PROVE  Effect(s, portal_mgmt(s, lld, q), q)
  <1>1. CASE q.op = "new" /\ lld = "iscsi"
    <2> DEFINE r == iscsi_add_portal(s, q.portal)
               z == iscsi_add_portal(r.s, q.more)
               y == portal_mgmt(s, lld, q)
    <2>1. Then(r, q.more = None, z, y)
      BY Zenon, <1>1 DEF portal_mgmt, iscsi_portal_create, Then
    <2>2. Ports(s, r) /\ (r.err # 0 => r.s = s) /\ r.s \in {s, [s EXCEPT !.portals = @ \cup {q.portal}]}
      BY Zenon, PortalStep
    <2>3. r.s = s \/ Half(s, r.s, q)
      BY Zenon, <1>1, <2>2 DEF Half
    <2>4. ASSUME q.more # None PROVE Ports(r.s, z) /\ (z.err # 0 => z.s = r.s)
      <3>1. Sound(r.s) /\ q.more \in profile.portals
        BY Zenon, <2>2, <2>4 DEF Ports
      <3> QED BY Zenon, <3>1, PortalStep
    <2> HIDE DEF r, z, y
    <2>5. Effect(s, y, q)
      BY Zenon, <2>1, <2>2, <2>3, <2>4, PortalsTwo
    <2> QED BY Zenon, <2>5 DEF y
  <1>2. CASE q.op = "delete" /\ lld = "iscsi"
    <2> DEFINE r == iscsi_delete_portal(s, q.portal)
               z == iscsi_delete_portal(r.s, q.more)
               y == portal_mgmt(s, lld, q)
    <2>1. Then(r, q.more = None, z, y)
      <3>1. portal_mgmt(s, lld, q) = iscsi_portal_destroy(s, q)
        BY Zenon, <1>2 DEF portal_mgmt
      <3> QED BY Zenon, <3>1 DEF iscsi_portal_destroy, Then
    <2>2. Ports(s, r) /\ (r.err # 0 => r.s = s) /\ r.s \in {s, [s EXCEPT !.portals = @ \ {q.portal}]}
      BY Zenon, PortalStep
    <2>3. r.s = s \/ Half(s, r.s, q)
      BY Zenon, <1>2, <2>2 DEF Half
    <2>4. ASSUME q.more # None PROVE Ports(r.s, z) /\ (z.err # 0 => z.s = r.s)
      <3>1. Sound(r.s) /\ q.more \in profile.portals
        BY Zenon, <2>2, <2>4 DEF Ports
      <3> QED BY Zenon, <3>1, PortalStep
    <2> HIDE DEF r, z, y
    <2>5. Effect(s, y, q)
      BY Zenon, <2>1, <2>2, <2>3, <2>4, PortalsTwo
    <2> QED BY Zenon, <2>5 DEF y
  <1>3. CASE ~(q.op \in {"new", "delete"} /\ lld = "iscsi")
    <2>1. portal_mgmt(s, lld, q) = Refuse(s) \/ portal_mgmt(s, lld, q) = Result(s, 0, TRUE)
      BY Zenon, <1>3 DEF portal_mgmt
    <2> QED BY Zenon, <2>1, RefuseEffect
  <1> QED BY Zenon, <1>1, <1>2, <1>3

NewConns(s, C, w) == w = [s EXCEPT !.conns = C]

\* The connections change; nothing else does.
LEMMA SetConns ==
    ASSUME NEW s, NEW C, NEW w, Sound(s), NewConns(s, C, w), DOMAIN C \subseteq {"c1", "c2"}
    PROVE  Sound(w) /\ (Listed(s) => Listed(w)) /\ w.portals = s.portals /\ w.conns = C
  <1>1. /\ w = [f \in SysFields |-> w[f]] /\ w.conns = C /\ w.targets = s.targets /\ w.list = s.list
        /\ w.stores = s.stores /\ w.portals = s.portals /\ w.drv = s.drv
    BY Zenon DEF Sound, Shape, SysFields, NewConns
  <1> QED BY Zenon, <1>1 DEF Sound, Shape, Stores, Known, Listed

\* connection_mgmt: a connection is marked, its event stays.
LEMMA ConnectionEffect ==
    ASSUME NEW s, NEW q, Sound(s)
    PROVE  Effect(s, connection_mgmt(s, q), q)
  <1> DEFINE w == ep_force_close(s, q.conn)
             v == IF InScsi(s, q.conn) THEN "markedBusy" ELSE "marked"
             C == [s.conns EXCEPT ![q.conn] = v]
  <1>1. \/ connection_mgmt(s, q) \in {Refuse(s), Result(s, 0, TRUE)}
        \/ connection_mgmt(s, q) = Ok(w) /\ q.conn \in DOMAIN s.conns
    BY Zenon DEF connection_mgmt, Nexus, Bound
  <1>2. w = s \/ (s.conns[q.conn] # "closing" /\ NewConns(s, C, w))
    BY Zenon DEF ep_force_close, NewConns
  <1>3. DOMAIN C = DOMAIN s.conns /\ \A y \in DOMAIN s.conns: y # q.conn => C[y] = s.conns[y]
    BY Zenon
  <1> HIDE DEF w, v, C
  <1>4. ASSUME s.conns[q.conn] # "closing", NewConns(s, C, w) PROVE Effect(s, Ok(w), q)
    <2>1. DOMAIN C \subseteq {"c1", "c2"}
      BY Zenon, <1>3 DEF Sound, Known
    <2>2. Sound(w) /\ (Listed(s) => Listed(w)) /\ w.conns = C
      BY SMT, <1>4, <2>1, SetConns
    <2>3. Closes(s, w)
      BY Zenon, <1>3, <1>4, <2>2 DEF Closes
    <2> QED BY Zenon, <2>2, <2>3 DEF Effect, Ok, Result
  <1> QED BY Zenon, <1>1, <1>2, <1>4, RefuseEffect

\* lld_mgmt: a driver with targets on its list does not stop, one that stopped starts with an empty list or fails to.
LEMMA LldEffect ==
    ASSUME NEW s, NEW q, NEW lld \in Drivers, Sound(s), "p" \in profile.portals
    PROVE  Effect(s, lld_mgmt(s, lld, q), q)
  <1> DEFINE P == IF lld = "iscsi" /\ s.portals = {} THEN {"p"} ELSE s.portals
             N == IF lld = "iscsi" THEN {} ELSE s.portals
             b == [s EXCEPT !.list[lld] = {}, !.drv[lld] = "INIT", !.portals = P]
             e == [s EXCEPT !.drv[lld] = "EXIT", !.portals = N]
             f == [s EXCEPT !.list[lld] = {}, !.drv[lld] = "ERR"]
  <1>0. lld_init_one(s, lld, q) = Ok(b) \/ (lld_init_one(s, lld, q) = Refuse(f) /\ lld = "iser")
    <2> DEFINE u == [s EXCEPT !.list[lld] = {}]
    <2>1. u.portals = s.portals
      BY Zenon DEF Sound, Shape, SysFields
    <2> QED BY Zenon, <2>1 DEF lld_init_one
  <1>1. \/ lld_mgmt(s, lld, q) \in {Ok(s), Refuse(s), Result(s, 0, TRUE)}
        \/ lld_mgmt(s, lld, q) = Ok(b) /\ s.drv[lld] # "INIT"
        \/ lld_mgmt(s, lld, q) = Ok(e) /\ s.list[lld] = {}
        \/ lld_mgmt(s, lld, q) = Refuse(f) /\ s.drv[lld] # "INIT" /\ lld = "iser" /\ q.op = "start"
    BY Zenon, <1>0 DEF lld_mgmt
  <1>2. P \subseteq profile.portals /\ N \subseteq profile.portals
    BY Zenon DEF Sound, Known
  <1>3. /\ b = [g \in SysFields |-> b[g]] /\ b.portals = P /\ b.targets = s.targets /\ b.list = [s.list EXCEPT ![lld] = {}]
        /\ b.stores = s.stores /\ b.conns = s.conns /\ b.drv = [s.drv EXCEPT ![lld] = "INIT"]
    BY Zenon DEF Sound, Shape, SysFields
  <1>4. /\ e = [g \in SysFields |-> e[g]] /\ e.portals = N /\ e.targets = s.targets /\ e.list = s.list
        /\ e.stores = s.stores /\ e.conns = s.conns /\ e.drv = [s.drv EXCEPT ![lld] = "EXIT"]
    BY Zenon DEF Sound, Shape, SysFields
  <1>8. /\ f = [g \in SysFields |-> f[g]] /\ f.portals = s.portals /\ f.targets = s.targets
        /\ f.list = [s.list EXCEPT ![lld] = {}]
        /\ f.stores = s.stores /\ f.conns = s.conns /\ f.drv = [s.drv EXCEPT ![lld] = "ERR"]
    BY Zenon DEF Sound, Shape, SysFields
  <1>9. lld = "iser" /\ q.op = "start" => Half(s, f, q)
    BY Zenon DEF Half
  <1> HIDE DEF P, N, b, e, f
  <1>5. DOMAIN s.drv = Drivers /\ DOMAIN s.list = Drivers /\ \A i \in DOMAIN s.targets: s.targets[i].lld \in Drivers
    BY Zenon DEF Sound, Shape
  <1>6. ASSUME s.drv[lld] # "INIT" PROVE Effect(s, Ok(b), q)
    <2>1. Shape(b)
      BY Zenon, <1>3, <1>5 DEF Sound, Shape
    <2>2. Stores(b) /\ Known(b)
      BY Zenon, <1>2, <1>3 DEF Sound, Stores, Known
    <2>3. Closes(s, b)
      BY Zenon, <1>3 DEF Closes
    <2>4. Listed(s) => Listed(b)
      <3> SUFFICES ASSUME Listed(s), NEW i \in DOMAIN s.targets
                   PROVE  b.drv[s.targets[i].lld] = "INIT" /\ i \in b.list[s.targets[i].lld]
        BY Zenon, <1>3 DEF Listed
      <3> DEFINE l == s.targets[i].lld
      <3>1. l \in Drivers /\ s.drv[l] = "INIT" /\ i \in s.list[l]
        BY Zenon, <1>5 DEF Listed
      <3> HIDE DEF l
      <3>2. l # lld
        BY Zenon, <3>1, <1>6
      <3>3. b.drv[l] = s.drv[l] /\ b.list[l] = s.list[l]
        BY Zenon, <1>3, <1>5, <3>1, <3>2
      <3> QED BY Zenon, <3>1, <3>3 DEF l
    <2> QED BY Zenon, <2>1, <2>2, <2>3, <2>4 DEF Effect, Ok, Result, Sound
  <1>7. ASSUME s.list[lld] = {} PROVE Effect(s, Ok(e), q)
    <2>1. Shape(e)
      BY Zenon, <1>4, <1>5 DEF Sound, Shape
    <2>2. Stores(e) /\ Known(e)
      BY Zenon, <1>2, <1>4 DEF Sound, Stores, Known
    <2>3. Closes(s, e)
      BY Zenon, <1>4 DEF Closes
    <2>4. Listed(s) => Listed(e)
      <3> SUFFICES ASSUME Listed(s), NEW i \in DOMAIN s.targets
                   PROVE  e.drv[s.targets[i].lld] = "INIT" /\ i \in e.list[s.targets[i].lld]
        BY Zenon, <1>4 DEF Listed
      <3> DEFINE l == s.targets[i].lld
      <3>1. l \in Drivers /\ s.drv[l] = "INIT" /\ i \in s.list[l]
        BY Zenon, <1>5 DEF Listed
      <3> HIDE DEF l
      <3>2. l # lld
        BY Zenon, <3>1, <1>7
      <3>3. e.drv[l] = s.drv[l] /\ e.list[l] = s.list[l]
        BY Zenon, <1>4, <1>5, <3>1, <3>2
      <3> QED BY Zenon, <3>1, <3>3 DEF l
    <2> QED BY Zenon, <2>1, <2>2, <2>3, <2>4 DEF Effect, Ok, Result, Sound
  <1>10. ASSUME s.drv[lld] # "INIT", lld = "iser", q.op = "start" PROVE Effect(s, Refuse(f), q)
    <2>1. Shape(f)
      BY Zenon, <1>5, <1>8 DEF Sound, Shape
    <2>2. Stores(f) /\ Known(f)
      BY Zenon, <1>8 DEF Sound, Stores, Known
    <2>3. Closes(s, f)
      BY Zenon, <1>8 DEF Closes
    <2>4. Listed(s) => Listed(f)
      <3> SUFFICES ASSUME Listed(s), NEW i \in DOMAIN s.targets
                   PROVE  f.drv[s.targets[i].lld] = "INIT" /\ i \in f.list[s.targets[i].lld]
        BY Zenon, <1>8 DEF Listed
      <3> DEFINE l == s.targets[i].lld
      <3>1. l \in Drivers /\ s.drv[l] = "INIT" /\ i \in s.list[l]
        BY Zenon, <1>5 DEF Listed
      <3> HIDE DEF l
      <3>2. l # lld
        BY Zenon, <3>1, <1>10
      <3>3. f.drv[l] = s.drv[l] /\ f.list[l] = s.list[l]
        BY Zenon, <1>5, <1>8, <3>1, <3>2
      <3> QED BY Zenon, <3>1, <3>3 DEF l
    <2>5. Half(s, f, q)
      BY Zenon, <1>9, <1>10
    <2> QED BY Zenon, <2>1, <2>2, <2>3, <2>4, <2>5 DEF Effect, Refuse, Result, Sound
  <1> QED BY Zenon, <1>1, <1>6, <1>7, <1>10, RefuseEffect

\* What is assumed of the environment of this behaviour
LEMMA Environment ==
    ASSUME mode \in DOMAIN Profiles
    PROVE  /\ Clients \cap (Fixed \cup profile.portals) = {} /\ profile.portals \cap Fixed = {} /\ "p" \in profile.portals
           /\ \A k \in Clients: /\ Req(k).portal \in profile.portals /\ Req(k).more \in profile.portals \cup {None}
                              /\ Req(k).lld \in Drivers \cup {None}
  BY Zenon, ProfilesAssumption DEF WellFormed, Clients, profile, Req

\* target_mgmt and device_mgmt
LEMMA TargetEffect ==
    ASSUME NEW s, NEW q, NEW lld \in Drivers, Sound(s), q.mode = "target", Named(s, q) => s.drv[lld] = "INIT"
    PROVE  Effect(s, target_mgmt(s, lld, q), q)
  <1>1. CASE q.op = "new"
    BY Zenon, <1>1, CreateTarget DEF target_mgmt
  <1>2. CASE q.op = "delete"
    <2>1. target_mgmt(s, lld, q) = tgt_target_destroy(s, q)
      BY SMT, <1>2 DEF target_mgmt
    <2> QED BY Zenon, <1>2, <2>1, DestroyTarget
  <1>3. CASE q.op = "bind"
    <2>1. target_mgmt(s, lld, q) = bind(s, q)
      BY Zenon, <1>3 DEF target_mgmt
    <2> QED BY Zenon, <1>3, <2>1, BindEffect
  <1>4. CASE q.op = "unbind"
    <2>1. target_mgmt(s, lld, q) = unbind(s, q)
      BY Zenon, <1>4 DEF target_mgmt
    <2> QED BY Zenon, <1>4, <2>1, UnbindEffect
  <1>5. CASE q.op \notin {"new", "delete", "bind", "unbind"}
    <2>1. target_mgmt(s, lld, q) = Refuse(s) \/ target_mgmt(s, lld, q) = Result(s, 0, TRUE)
      BY Zenon, <1>5 DEF target_mgmt
    <2> QED BY Zenon, <2>1, RefuseEffect
  <1> QED BY Zenon, <1>1, <1>2, <1>3, <1>4, <1>5

\* Requests of every mode have the effects they may have (mtask_execute).
LEMMA ExecuteEffect ==
    ASSUME NEW s, NEW k \in Clients, Sound(s), mode \in DOMAIN Profiles
    PROVE  Effect(s, mtask_execute(s, Req(k)), Req(k))
  <1> DEFINE q == Req(k)
             lld == IF q.lld = None THEN "iscsi" ELSE q.lld
  <1>1. q.portal \in profile.portals /\ q.more \in profile.portals \cup {None} /\ lld \in Drivers /\ "p" \in profile.portals
    BY Zenon, Environment DEF Drivers
  <1>2. \/ mtask_execute(s, q) = Refuse(s)
        \/ mtask_execute(s, q) = sys_mgmt(s, q)
        \/ /\ q.mode = "target" /\ mtask_execute(s, q) = target_mgmt(s, lld, q)
           /\ Named(s, q) => s.drv[lld] = "INIT"
        \/ q.mode = "portal" /\ mtask_execute(s, q) = portal_mgmt(s, lld, q)
        \/ mtask_execute(s, q) = device_mgmt(s, q)
        \/ mtask_execute(s, q) = connection_mgmt(s, q)
        \/ mtask_execute(s, q) = lld_mgmt(s, lld, q)
    BY Zenon DEF mtask_execute, Named
  <1> HIDE DEF q, lld
  <1>3. Effect(s, sys_mgmt(s, q), q)
    <2> DEFINE w == [s EXCEPT !.ready = q.name = "ready"]
    <2>1. sys_mgmt(s, q) \in {Ok(s), Refuse(s), Result(s, 0, TRUE), Ok(w)}
      BY Zenon DEF sys_mgmt
    <2>2. /\ w = [f \in SysFields |-> w[f]] /\ w.conns = s.conns /\ w.targets = s.targets /\ w.list = s.list
          /\ w.stores = s.stores /\ w.portals = s.portals /\ w.drv = s.drv
      BY Zenon DEF Sound, Shape, SysFields
    <2> HIDE DEF w
    <2>3. Effect(s, Ok(w), q)
      BY Zenon, <2>2 DEF Effect, Ok, Result, Sound, Shape, Stores, Known, Closes, Listed
    <2> QED BY Zenon, <2>1, <2>3, RefuseEffect
  <1>4. Effect(s, device_mgmt(s, q), q)
    <2>1. device_mgmt(s, q) = tgt_device_create(s, q) \/ device_mgmt(s, q) = tgt_device_destroy(s, q) \/ device_mgmt(s, q) = Refuse(s)
      BY Zenon DEF device_mgmt
    <2> QED BY Zenon, <2>1, RefuseEffect, CreateUnit, DestroyUnit
  <1>5. Effect(s, mtask_execute(s, q), q)
    BY Zenon, <1>1, <1>2, <1>3, <1>4, RefuseEffect, TargetEffect, PortalEffect, ConnectionEffect, LldEffect
  <1> QED BY Zenon, <1>5 DEF q

-----------------------------------------------------------------------------
(* The event loop.                                                         *)

\* What a handler has made of the events: the rest of the batch is still there, unless the loop is to start again.
Working(f) == f \in EvType /\ Timer \in f.set /\ f.batch = ev.batch /\ (~f.refresh => ev.set \subseteq f.set)

\* Loop: after a handler the batch has only events there are, and not the one that was handled.
LEMMA LoopBase ==
    ASSUME Base(ev), NEW f, Working(f), NEW fd, NEW e, e = Loop(f, fd)
    PROVE  Base(e) /\ e.set = f.set /\ e.batch \subseteq ev.batch /\ fd \notin e.batch
  <1>1. CASE f.refresh
    <2>1. e = [f EXCEPT !.refresh = FALSE, !.batch = {}]
      BY Zenon, <1>1 DEF Loop
    <2>2. e \in EvType /\ e.set = f.set /\ e.batch = {} /\ e.refresh = FALSE
      BY Zenon, <2>1 DEF EvType, Working
    <2> QED BY Zenon, <2>2 DEF Base, Working
  <1>2. CASE ~f.refresh
    <2> DEFINE end == f.batch = {fd} /\ ~f.active
    <2>1. e = [f EXCEPT !.batch = @ \ {fd}, !.ended = end]
      BY Zenon, <1>2 DEF Loop
    <2>2. end \in BOOLEAN
      BY Zenon
    <2> HIDE DEF end
    <2>3. e \in EvType /\ e.set = f.set /\ e.batch = f.batch \ {fd} /\ e.refresh = f.refresh
      BY Zenon, <2>1, <2>2 DEF EvType, Working
    <2> QED BY Zenon, <1>2, <2>3 DEF Base, Working
  <1> QED BY Zenon, <1>1, <1>2

\* tgt_event_add
LEMMA AddWorks ==
    ASSUME Base(ev), NEW A, A \subseteq Fds, NEW f, f = [ev EXCEPT !.set = @ \cup A]
    PROVE  Working(f) /\ f.set = ev.set \cup A
  <1>1. f \in EvType /\ f.set = ev.set \cup A /\ f.batch = ev.batch
    BY SMT DEF Base, EvType
  <1> QED BY Zenon, <1>1 DEF Base, Working

\* tgt_event_del: with an event that was there deleted, the loop is to start again.
LEMMA DelWorks ==
    ASSUME NEW f, Working(f), NEW D, Timer \notin D, NEW g, g = tgt_event_del(f, D)
    PROVE  Working(g) /\ g.set = f.set \ D
  <1>1. /\ g \in EvType /\ g.set = f.set \ D /\ g.batch = f.batch
        /\ g.refresh = (f.refresh \/ D \cap f.set # {})
    BY Zenon DEF tgt_event_del, EvType, Working
  <1> QED BY Zenon, <1>1 DEF Working

-----------------------------------------------------------------------------
(* The steps.                                                              *)

\* The environment stays.
LEMMA Frame ==
    ASSUME mode' = mode
    PROVE  Clients' = Clients /\ profile' = profile /\ EvType' = EvType /\ \A k \in Clients: Pdu(k)' = Pdu(k) /\ TooLarge(k)' = TooLarge(k)
  BY Zenon DEF Clients, profile, EvType, Fds, Pdu, Req, TooLarge

\* One task changes.
LEMMA TaskStep ==
    ASSUME TaskOK, mode' = mode, NEW k \in Clients, NEW t \in TaskType, TaskInv(t, k),
           task' = [task EXCEPT ![k] = t], ev'.batch \subseteq ev.batch, k \in ev'.batch => HasInput(t)
    PROVE  TaskOK' /\ task'[k] = t /\ \A j \in Clients: j # k => task'[j] = task[j]
  <1>1. task' \in [Clients -> TaskType] /\ task'[k] = t /\ \A j \in Clients: j # k => task'[j] = task[j]
    BY Zenon DEF TaskOK
  <1>2. ASSUME NEW j \in Clients
        PROVE  TaskInv(task'[j], j) /\ (j \in ev'.batch => HasInput(task'[j]))
    BY Zenon, <1>1 DEF TaskOK
  <1>3. ASSUME NEW j \in Clients
        PROVE  TaskInv(task[j], j)' /\ (j \in ev'.batch => HasInput(task[j])')
    BY Zenon, <1>2, Frame DEF TaskInv, HasInput, Reads, Hdr, Rsp
  <1> QED BY Zenon, <1>1, <1>3, Frame DEF TaskOK, TaskType, States

\* No task changes.
LEMMA TaskSame ==
    ASSUME TaskOK, mode' = mode, task' = task, ev'.batch \subseteq ev.batch
    PROVE  TaskOK'
  <1>1. ASSUME NEW j \in Clients
        PROVE  TaskInv(task'[j], j) /\ (j \in ev'.batch => HasInput(task'[j]))
    BY Zenon DEF TaskOK
  <1>2. ASSUME NEW j \in Clients
        PROVE  TaskInv(task[j], j)' /\ (j \in ev'.batch => HasInput(task[j])')
    BY Zenon, <1>1, Frame DEF TaskInv, HasInput, Reads, Hdr, Rsp
  <1> QED BY Zenon, <1>2, Frame DEF TaskOK, TaskType, States

\* The events fit those of the tasks, the portals and the connections.
LEMMA EvStep ==
    ASSUME mode' = mode, Base(ev'), \A k \in Clients: k \in ev'.set <=> On(task'[k]),
           sys'.portals \subseteq ev'.set, ev'.set \cap {"c1", "c2"} = Open(sys')
    PROVE  EvOK'
  <1>1. Base(ev)' /\ Clients' = Clients
    BY Zenon, Frame DEF Base
  <1>2. \A k \in Clients: k \in ev'.set <=> On(task[k])'
    BY Zenon DEF On
  <1>3. Open(sys') = Open(sys)'
    BY Zenon DEF Open
  <1> QED BY Zenon, <1>1, <1>2, <1>3 DEF EvOK

\* The objects stay.
LEMMA SysSame ==
    ASSUME SysOK, UNCHANGED <<mode, sys>>, hist'.unnamed = hist.unnamed
    PROVE  SysOK'
  <1>1. sys' = sys /\ profile' = profile
    BY Zenon, Frame
  <1>2. Shape(sys)'
    BY Zenon, <1>1 DEF SysOK, Shape
  <1>3. Stores(sys)'
    BY Zenon, <1>1 DEF SysOK, Stores, Units
  <1>4. Known(sys)'
    BY Zenon, <1>1 DEF SysOK, Known
  <1>5. Listed(sys) => Listed(sys)'
    BY Zenon, <1>1 DEF Listed
  <1> QED BY Zenon, <1>2, <1>3, <1>4, <1>5 DEF SysOK

\* An event that is called is there.
LEMMA SeenSame ==
    ASSUME HistOK, EvOK, NEW fd, Called(fd), hist' = Seen(hist, fd)
    PROVE  HistOK' /\ hist'.unnamed = hist.unnamed
  <1>1. fd \in ev.set
    BY Zenon DEF EvOK, Base, Called
  <1>2. hist' = [hist EXCEPT !.stale = hist.stale \/ fd \notin ev.set]
    BY Zenon DEF Seen
  <1>3. hist' = [hist EXCEPT !.stale = FALSE]
    BY Zenon, <1>1, <1>2 DEF HistOK
  <1> QED BY Zenon, <1>3 DEF HistOK

\* The handler of a task ends it (out of mtask_recv_send_handler).
LEMMA OutStep ==
    ASSUME IInv, NEW k \in Clients, Called(k), NEW t \in TaskType, Out(k, t), TaskInv([t EXCEPT !.st = "closed"], k),
           UNCHANGED <<mode, sys, left>>, hist' = Seen(hist, k)
    PROVE  IInv'
  <1> DEFINE u == [t EXCEPT !.st = "closed"]
             a == ev.active /\ ~(t.read > 0 /\ Req(k).mode = "system" /\ Req(k).op = "delete" /\ t.err = 0)
             f == [ev EXCEPT !.active = a]
             g == tgt_event_del(f, {k})
  <1>1. u \in TaskType /\ u.st = "closed" /\ a \in BOOLEAN
    BY Zenon DEF TaskType, States
  <1>2. task' = [task EXCEPT ![k] = u]
    BY Zenon DEF Out
  <1>a. ev' = Loop(g, k)
    BY Zenon DEF Out
  <1>b. g = tgt_event_del(f, {k})
    OBVIOUS
  <1>c. f = [ev EXCEPT !.active = a]
    OBVIOUS
  <1>3. TaskInv(u, k)
    OBVIOUS
  <1> HIDE DEF u, a, f, g
  <1>4. Base(ev) /\ TaskOK /\ SysOK /\ HistOK /\ EvOK
    BY Zenon DEF IInv, EvOK
  <1>5. Timer \notin {k} /\ k \notin {"c1", "c2"} /\ k \notin sys.portals
    BY Zenon, <1>4, Environment DEF IInv, LeftOK, Fixed, SysOK, Known
  <1>6. Working(f) /\ f.set = ev.set
    <2>1. f \in EvType /\ f.set = ev.set /\ f.batch = ev.batch
      BY Zenon, <1>1, <1>c, <1>4 DEF Base, EvType
    <2> QED BY Zenon, <1>4, <2>1 DEF Working, Base
  <1>7. Working(g) /\ g.set = ev.set \ {k}
    <2>1. Working(g) /\ g.set = f.set \ {k}
      BY Zenon, <1>b, <1>5, <1>6, DelWorks
    <2> QED BY Zenon, <1>6, <2>1
  <1>8. Base(ev') /\ ev'.set = ev.set \ {k} /\ ev'.batch \subseteq ev.batch /\ k \notin ev'.batch
    <2>1. Base(ev') /\ ev'.set = g.set /\ ev'.batch \subseteq ev.batch /\ k \notin ev'.batch
      BY Zenon, <1>a, <1>4, <1>7, LoopBase
    <2> QED BY Zenon, <1>7, <2>1
  <1>9. TaskOK' /\ task'[k] = u /\ \A j \in Clients: j # k => task'[j] = task[j]
    BY Zenon, <1>1, <1>2, <1>3, <1>4, <1>8, TaskStep
  <1>10. EvOK'
    <2>1. \A j \in Clients: j \in ev'.set <=> On(task'[j])
      BY Zenon, <1>1, <1>4, <1>8, <1>9 DEF EvOK, On
    <2>2. sys'.portals \subseteq ev'.set /\ ev'.set \cap {"c1", "c2"} = Open(sys')
      BY Zenon, <1>4, <1>5, <1>8 DEF EvOK
    <2> QED BY Zenon, <1>8, <2>1, <2>2, EvStep
  <1>11. SysOK' /\ HistOK' /\ LeftOK'
    BY Zenon, <1>4, SysSame, SeenSame DEF IInv, LeftOK
  <1> QED BY Zenon, <1>9, <1>10, <1>11 DEF IInv

\* The handler of a task reads or writes some more, or nothing.
LEMMA StayStep ==
    ASSUME IInv, NEW k \in Clients, Called(k), NEW t \in TaskType, On(t), TaskInv(t, k),
           task' = [task EXCEPT ![k] = t], ev' = Loop(ev, k), On(task[k]),
           UNCHANGED <<mode, sys, left>>, hist' = Seen(hist, k)
    PROVE  IInv'
  <1>1. Base(ev) /\ TaskOK /\ SysOK /\ HistOK /\ EvOK
    BY Zenon DEF IInv, EvOK
  <1>2. Working(ev)
    BY Zenon, <1>1 DEF Working, Base
  <1>3. Base(ev') /\ ev'.set = ev.set /\ ev'.batch \subseteq ev.batch /\ k \notin ev'.batch
    BY Zenon, <1>1, <1>2, LoopBase
  <1>4. TaskOK' /\ task'[k] = t /\ \A j \in Clients: j # k => task'[j] = task[j]
    BY Zenon, <1>1, <1>3, TaskStep
  <1>5. EvOK'
    <2>1. \A j \in Clients: j \in ev'.set <=> On(task'[j])
      BY Zenon, <1>1, <1>3, <1>4 DEF EvOK
    <2>2. sys'.portals \subseteq ev'.set /\ ev'.set \cap {"c1", "c2"} = Open(sys')
      BY Zenon, <1>1, <1>3 DEF EvOK
    <2> QED BY Zenon, <1>3, <2>1, <2>2, EvStep
  <1>6. SysOK' /\ HistOK' /\ LeftOK'
    BY Zenon, <1>1, SysSame, SeenSame DEF IInv, LeftOK
  <1> QED BY Zenon, <1>4, <1>5, <1>6 DEF IInv

\* Events: portals and connections come and go, and their events with them.
LEMMA EventsStep ==
    ASSUME IInv, NEW t, Sound(t), Closes(sys, t), NEW fd, ev' = Loop(Events(ev, sys, t), fd)
    PROVE  /\ Base(ev') /\ ev'.batch \subseteq ev.batch /\ fd \notin ev'.batch
           /\ \A k \in Clients: k \in ev'.set <=> k \in ev.set
           /\ t.portals \subseteq ev'.set /\ ev'.set \cap {"c1", "c2"} = Open(t)
  <1> DEFINE before == sys.portals \cup DOMAIN sys.conns
             after  == t.portals \cup Open(t)
             f == [ev EXCEPT !.set = @ \cup (after \ before)]
             g == tgt_event_del(f, before \ after)
  <1>1. ev' = Loop(g, fd)
    BY Zenon DEF Events, Open
  <1>2. g = tgt_event_del(f, before \ after)
    OBVIOUS
  <1>3. f = [ev EXCEPT !.set = @ \cup (after \ before)]
    OBVIOUS
  <1>4. /\ sys.portals \subseteq profile.portals /\ DOMAIN sys.conns \subseteq {"c1", "c2"}
        /\ t.portals \subseteq profile.portals /\ Open(t) \subseteq {"c1", "c2"}
        /\ Open(t) \subseteq DOMAIN sys.conns /\ \A x \in Open(t): x \in Open(sys)
    BY Zenon DEF IInv, SysOK, Sound, Known, Open, Closes
  <1>5. profile.portals \cap Fixed = {} /\ Clients \cap (Fixed \cup profile.portals) = {}
    BY Zenon, Environment DEF IInv, LeftOK
  <1>6. after \ before \subseteq Fds /\ Timer \notin before \ after
    BY Zenon, <1>4, <1>5 DEF Fixed, Fds, Timer
  <1>7. ev'.set = (ev.set \cup (after \ before)) \ (before \ after) /\ Base(ev') /\ ev'.batch \subseteq ev.batch /\ fd \notin ev'.batch
    <2> HIDE DEF before, after, f, g
    <2>1. Base(ev)
      BY Zenon DEF IInv, EvOK
    <2>2. Working(f) /\ f.set = ev.set \cup (after \ before)
      BY Zenon, <1>3, <1>6, <2>1, AddWorks
    <2>3. Working(g) /\ g.set = f.set \ (before \ after)
      BY Zenon, <1>2, <1>6, <2>2, DelWorks
    <2>4. Base(ev') /\ ev'.set = g.set /\ ev'.batch \subseteq ev.batch /\ fd \notin ev'.batch
      BY Zenon, <1>1, <2>1, <2>3, LoopBase
    <2> QED BY Zenon, <2>2, <2>3, <2>4
  <1>8. sys.portals \subseteq ev.set /\ ev.set \cap {"c1", "c2"} = Open(sys) /\ Open(sys) \subseteq DOMAIN sys.conns
    BY Zenon DEF IInv, EvOK, Open
  <1>9. \A k \in Clients: k \in ev'.set <=> k \in ev.set
    BY Zenon, <1>4, <1>5, <1>7 DEF Fixed
  <1>10. t.portals \subseteq ev'.set
    BY Zenon, <1>4, <1>5, <1>7, <1>8 DEF Fixed
  <1>11. ev'.set \cap {"c1", "c2"} = Open(t)
    <2>1. ASSUME NEW x \in {"c1", "c2"} PROVE x \in ev'.set <=> x \in Open(t)
      <3>1. x \notin sys.portals /\ x \notin t.portals
        BY Zenon, <1>4, <1>5 DEF Fixed
      <3> QED BY Zenon, <1>4, <1>7, <1>8, <3>1
    <2> QED BY Zenon, <1>4, <2>1
  <1> QED BY Zenon, <1>7, <1>9, <1>10, <1>11

\* A request is executed (mtask_received): its task is about to answer.
LEMMA RunStep ==
    ASSUME IInv, NEW k \in Clients, Called(k), NEW t \in TaskType, t.read = Hdr + Pdu(k), t.read <= t.sent, t.got = 0,
           On(task[k]), mtask_received(k, t), UNCHANGED <<mode, left>>
    PROVE  IInv'
  <1> DEFINE q == Req(k)
             r == mtask_execute(sys, q)
             len == IF r.body THEN 2 ELSE 0
             u == Received([t EXCEPT !.ran = TRUE, !.err = r.err, !.len = len])
             half == hist.halfway \/ (r.err # 0 /\ r.s # sys /\ ~Half(sys, r.s, q))
             un == hist.unnamed \/ (q.lld = None /\ sys.drv["iscsi"] # "INIT")
             h == Seen(hist, k)
  <1>1. sys' = r.s /\ task' = [task EXCEPT ![k] = u]
    BY Zenon DEF mtask_received
  <1>a. h = [hist EXCEPT !.stale = FALSE]
    <2>1. k \in ev.set
      BY Zenon DEF IInv, EvOK, Base, Called
    <2> QED BY Zenon, <2>1 DEF Seen, IInv, HistOK
  <1>b. hist' = [h EXCEPT !.halfway = half, !.unnamed = un]
    <2>1. hist' = [h EXCEPT !.halfway = @ \/ (r.err # 0 /\ r.s # sys /\ ~Half(sys, r.s, q)),
                            !.unnamed = @ \/ (q.lld = None /\ sys.drv["iscsi"] # "INIT")]
      BY Zenon DEF mtask_received
    <2> HIDE DEF h, r, q
    <2>2. h.halfway = hist.halfway /\ h.unnamed = hist.unnamed /\ h \in [stale: BOOLEAN, halfway: BOOLEAN, unnamed: BOOLEAN]
      BY Zenon, <1>a DEF IInv, HistOK
    <2> QED BY Zenon, <2>1, <2>2
  <1>2. ev' = Loop(Events(ev, sys, r.s), k)
    BY Zenon DEF mtask_received
  <1>3. Effect(sys, r, q) /\ Sound(sys)
    BY Zenon, ExecuteEffect DEF IInv, SysOK, LeftOK, Sound
  <1>4. u \in TaskType /\ u.st = "HDR_SEND" /\ u.ran /\ u.done = 0 /\ u.got = 0 /\ u.read = t.read /\ u.sent = t.sent
    <2>1. len \in {0, 2} /\ r.err \in {0, 1}
      BY Zenon, <1>3 DEF Effect
    <2> HIDE DEF len, r
    <2>2. u = [t EXCEPT !.ran = TRUE, !.err = r.err, !.len = len, !.st = "HDR_SEND", !.done = 0]
      BY Zenon DEF Received
    <2> HIDE DEF u
    <2>3. u \in TaskType /\ u.st = "HDR_SEND" /\ u.ran /\ u.done = 0 /\ u.got = t.got /\ u.read = t.read /\ u.sent = t.sent
      BY Zenon, <2>1, <2>2 DEF TaskType, States
    <2> QED BY Zenon, <2>3
  <1>5. TaskInv(u, k) /\ On(u)
    <2> HIDE DEF u
    <2> QED BY SMT, <1>4 DEF TaskInv, Rsp, Hdr, On
  <1> HIDE DEF u
  <1>6. Sound(r.s) /\ Closes(sys, r.s)
    BY Zenon, <1>3 DEF Effect
  <1>7. /\ Base(ev') /\ ev'.batch \subseteq ev.batch /\ k \notin ev'.batch
        /\ \A j \in Clients: j \in ev'.set <=> j \in ev.set
        /\ r.s.portals \subseteq ev'.set /\ ev'.set \cap {"c1", "c2"} = Open(r.s)
    BY Zenon, <1>2, <1>6, EventsStep
  <1>8. TaskOK' /\ task'[k] = u /\ \A j \in Clients: j # k => task'[j] = task[j]
    BY Zenon, <1>1, <1>4, <1>5, <1>7, TaskStep DEF IInv
  <1>9. EvOK'
    <2>1. \A j \in Clients: j \in ev'.set <=> On(task'[j])
      BY Zenon, <1>5, <1>7, <1>8 DEF EvOK, IInv
    <2>2. sys'.portals \subseteq ev'.set /\ ev'.set \cap {"c1", "c2"} = Open(sys')
      BY Zenon, <1>1, <1>7
    <2> QED BY Zenon, <1>7, <2>1, <2>2, EvStep
  <1>10. HistOK' /\ hist'.unnamed = un
    <2>1. half = FALSE
      BY Zenon, <1>3 DEF Effect, IInv, HistOK
    <2>2. un \in BOOLEAN
      BY Zenon DEF IInv, HistOK
    <2> HIDE DEF un, half, h
    <2> QED BY Zenon, <1>a, <1>b, <2>1, <2>2 DEF IInv, HistOK
  <1>11. SysOK'
    <2>1. ~un => Listed(r.s)
      BY Zenon, <1>3 DEF Effect, IInv, SysOK, Named
    <2>2. Shape(sys)'
      BY Zenon, <1>1, <1>6 DEF Sound, Shape
    <2>3. Stores(sys)'
      BY Zenon, <1>1, <1>6 DEF Sound, Stores, Units
    <2>4. Known(sys)'
      BY Zenon, <1>1, <1>6, Frame DEF Sound, Known
    <2>5. Listed(r.s) => Listed(sys)'
      BY Zenon, <1>1 DEF Listed
    <2> QED BY Zenon, <1>10, <2>1, <2>2, <2>3, <2>4, <2>5 DEF SysOK
  <1> QED BY Zenon, <1>8, <1>9, <1>10, <1>11 DEF IInv, LeftOK

\* The smaller of two
LEMMA MinOfTwo ==
    ASSUME NEW a \in Int, NEW b \in Int
    PROVE  Min({a, b}) \in {a, b} /\ Min({a, b}) <= a /\ Min({a, b}) <= b
  <1>1. \E x \in {a, b}: \A y \in {a, b}: x <= y
    <2>1. CASE a <= b
      BY SMT, <2>1
    <2>2. CASE ~(a <= b)
      BY SMT, <2>2
    <2> QED BY Zenon, <2>1, <2>2
  <1>2. Min({a, b}) \in {a, b} /\ \A y \in {a, b}: Min({a, b}) <= y
    BY Zenon, <1>1 DEF Min
  <1> QED BY Zenon, <1>2

\* A task that reads: size is the end of the header or of the body.
Reading(k, size) ==
    \/ task[k].st = "HDR_RECV" /\ size = Hdr
    \/ task[k].st = "PDU_RECV" /\ size = Pdu(k)

\* Receive: a task reads up to size, and at the end of the body executes its request.
LEMMA ReceiveStep ==
    ASSUME IInv, NEW k \in Clients, Called(k), NEW size, Reading(k, size), Receive(k, size), UNCHANGED <<mode, left>>
    PROVE  IInv'
  <1> DEFINE T == task[k]
             n == Min({size - T.done, T.sent - T.read})
             t == [T EXCEPT !.done = @ + n, !.read = @ + n]
  <1>1. T \in TaskType /\ TaskInv(T, k) /\ HasInput(T) /\ Pdu(k) \in {0, 3}
    BY Zenon DEF IInv, TaskOK, Called, Pdu
  <1>2. /\ T.sent \in Nat /\ T.read \in Nat /\ T.done \in Nat /\ T.got = 0 /\ ~T.ran /\ T.read <= T.sent
        /\ T.done < size /\ size \in Nat /\ On(T) /\ T.st \in {"HDR_RECV", "PDU_RECV"}
        /\ (T.read < T.sent \/ ~T.alive)
    BY SMT, <1>1 DEF Reading, TaskType, TaskInv, HasInput, Reads, On, Hdr
  <1>3. n \in Nat /\ n <= size - T.done /\ n <= T.sent - T.read /\ (n = 0 => ~T.alive)
    <2>1. size - T.done \in Int /\ T.sent - T.read \in Int
      BY SMT, <1>2
    <2>2. n \in {size - T.done, T.sent - T.read} /\ n <= size - T.done /\ n <= T.sent - T.read
      BY Zenon, <2>1, MinOfTwo
    <2> HIDE DEF n
    <2> QED BY SMT, <1>2, <2>2
  <1>4. /\ \/ n = 0 /\ AtEnd(k, t)
           \/ /\ n # 0 /\ t.done = size /\ t.st = "HDR_RECV" /\ Pdu(k) > 0 /\ TooLarge(k)
              /\ Out(k, t) /\ sys' = sys /\ hist' = Seen(hist, k)
           \/ /\ n # 0 /\ (t.done < size \/ (t.st = "HDR_RECV" /\ Pdu(k) > 0))
              /\ task' = [task EXCEPT ![k] = IF t.done = size THEN StartPdu(t) ELSE t]
              /\ ev' = Loop(ev, k) /\ sys' = sys /\ hist' = Seen(hist, k)
           \/ n # 0 /\ ~(t.done < size \/ (t.st = "HDR_RECV" /\ Pdu(k) > 0)) /\ mtask_received(k, t)
    BY Zenon DEF Receive
  <1> HIDE DEF n
  <1>5. /\ t \in TaskType /\ t.done = T.done + n /\ t.read = T.read + n /\ t.sent = T.sent /\ t.st = T.st /\ t.got = T.got
        /\ t.ran = T.ran /\ t.alive = T.alive
    <2>1. T.done + n \in Nat /\ T.read + n \in Nat
      BY SMT, <1>2, <1>3
    <2> HIDE DEF T
    <2> QED BY Zenon, <1>1, <2>1 DEF TaskType
  <1> HIDE DEF t
  <1>6. CASE n = 0 /\ AtEnd(k, t)
    <2>1. CASE errno = "EAGAIN"
      <3>1. task' = [task EXCEPT ![k] = T] /\ ev' = Loop(ev, k) /\ sys' = sys /\ hist' = Seen(hist, k)
        BY Zenon, <1>6, <2>1 DEF AtEnd, IInv, TaskOK
      <3> QED BY Zenon, <1>1, <1>2, <3>1, StayStep
    <2>2. CASE errno # "EAGAIN"
      <3>1. Out(k, t) /\ sys' = sys /\ hist' = Seen(hist, k)
        BY Zenon, <1>6, <2>2 DEF AtEnd
      <3> DEFINE u == [t EXCEPT !.st = "closed"]
      <3>2. u.st = "closed" /\ u.alive = t.alive /\ u.ran = t.ran /\ u.read = t.read /\ u.sent = t.sent
        BY Zenon, <1>5 DEF TaskType
      <3> HIDE DEF u
      <3>3. TaskInv(u, k)
        BY SMT, <1>2, <1>3, <1>5, <1>6, <3>2 DEF TaskInv
      <3> QED BY Zenon, <1>5, <3>1, <3>3, OutStep DEF u
    <2> QED BY Zenon, <2>1, <2>2
  <1>9. CASE /\ n # 0 /\ t.done = size /\ t.st = "HDR_RECV" /\ Pdu(k) > 0 /\ TooLarge(k)
             /\ Out(k, t) /\ sys' = sys /\ hist' = Seen(hist, k)
    <2> DEFINE u == [t EXCEPT !.st = "closed"]
    <2>1. u.st = "closed" /\ u.ran = t.ran /\ u.read = t.read /\ u.sent = t.sent /\ u.got = t.got
      BY Zenon, <1>5 DEF TaskType
    <2> HIDE DEF u
    <2>2. T.st = "HDR_RECV" /\ size = Hdr
      BY Zenon, <1>5, <1>9 DEF Reading
    <2>3. T.read = T.done
      BY Zenon, <1>1, <2>2 DEF TaskInv
    <2>4. u.read = Hdr /\ u.read <= u.sent
      BY SMT, <1>2, <1>3, <1>5, <1>9, <2>1, <2>2, <2>3
    <2>5. ~u.ran /\ u.got = 0 /\ TooLarge(k)
      BY Zenon, <1>2, <1>5, <1>9, <2>1
    <2>6. TaskInv(u, k)
      BY Zenon, <2>1, <2>4, <2>5 DEF TaskInv
    <2> QED BY Zenon, <1>5, <1>9, <2>6, OutStep DEF u
  <1>7. CASE /\ n # 0 /\ (t.done < size \/ (t.st = "HDR_RECV" /\ Pdu(k) > 0))
             /\ task' = [task EXCEPT ![k] = IF t.done = size THEN StartPdu(t) ELSE t]
             /\ ev' = Loop(ev, k) /\ sys' = sys /\ hist' = Seen(hist, k)
    <2> DEFINE u == IF t.done = size THEN StartPdu(t) ELSE t
    <2>1. CASE t.done = size
      <3>1. /\ u \in TaskType /\ u.st = "PDU_RECV" /\ u.done = 0 /\ u.read = t.read /\ u.sent = t.sent /\ u.got = t.got
            /\ u.ran = t.ran
        BY Zenon, <1>5, <2>1 DEF StartPdu, TaskType, States
      <3> HIDE DEF u
      <3>2. T.st = "HDR_RECV" /\ Pdu(k) > 0 /\ size = Hdr
        BY SMT, <1>5, <1>7, <1>2, <2>1 DEF Reading
      <3>3. T.read = T.done
        BY Zenon, <1>1, <3>2 DEF TaskInv
      <3>4. TaskInv(u, k) /\ On(u)
        BY SMT, <1>2, <1>3, <1>5, <2>1, <3>1, <3>2, <3>3 DEF TaskInv, On, Hdr
      <3> QED BY Zenon, <1>2, <1>7, <3>1, <3>4, StayStep DEF u
    <2>2. CASE t.done # size
      <3>2. ~t.ran /\ t.got = 0 /\ t.st \in {"HDR_RECV", "PDU_RECV"}
        BY Zenon, <1>2, <1>5
      <3>3. t.done < size /\ t.read <= t.sent
        BY SMT, <1>2, <1>3, <1>5, <2>2
      <3>4. /\ t.st = "HDR_RECV" => T.read = T.done /\ size = Hdr
            /\ t.st = "PDU_RECV" => T.read = Hdr + T.done /\ size = Pdu(k)
        BY Zenon, <1>1, <1>5 DEF TaskInv, Reading
      <3>5. /\ t.st = "HDR_RECV" => t.read = t.done
            /\ t.st = "PDU_RECV" => t.read = Hdr + t.done
        BY SMT, <1>2, <1>3, <1>5, <3>4 DEF Hdr
      <3>1. TaskInv(t, k) /\ On(t)
        BY Zenon, <3>2, <3>3, <3>4, <3>5 DEF TaskInv, On
      <3> QED BY Zenon, <1>2, <1>5, <1>7, <2>2, <3>1, StayStep
    <2> QED BY Zenon, <2>1, <2>2
  <1>8. CASE n # 0 /\ ~(t.done < size \/ (t.st = "HDR_RECV" /\ Pdu(k) > 0)) /\ mtask_received(k, t)
    <2>1. t.read = Hdr + Pdu(k) /\ t.read <= t.sent /\ t.got = 0
      BY SMT, <1>1, <1>2, <1>3, <1>5, <1>8 DEF TaskInv, Reading, Hdr
    <2> QED BY Zenon, <1>2, <1>5, <1>8, <2>1, RunStep
  <1> QED BY Zenon, <1>4, <1>6, <1>7, <1>8, <1>9

\* A task that writes: size is the end of the answer's header or body.
Writing(k, size) ==
    \/ task[k].st = "HDR_SEND" /\ size = Rsp
    \/ task[k].st = "PDU_SEND" /\ size = task[k].len

\* Transmit: a task writes up to size, and is over when all is written or its client is gone.
LEMMA TransmitStep ==
    ASSUME IInv, NEW k \in Clients, Called(k), NEW size, Writing(k, size), Transmit(k, size), UNCHANGED <<mode, left>>
    PROVE  IInv'
  <1> DEFINE T == task[k]
  <1>1. T \in TaskType /\ TaskInv(T, k)
    BY Zenon DEF IInv, TaskOK
  <1>2. T.sent \in Nat /\ T.read \in Nat /\ T.done \in Nat /\ T.got \in Nat /\ T.len \in {0, 2} /\ T.read <= T.sent
    BY Zenon, <1>1 DEF TaskType, TaskInv
  <1>3. T.ran /\ T.read = Hdr + Pdu(k) /\ On(T) /\ T.st \in {"HDR_SEND", "PDU_SEND"}
    BY Zenon, <1>1 DEF TaskInv, Writing, On
  <1>4. /\ T.st = "HDR_SEND" => T.got = T.done /\ size = Rsp
        /\ T.st = "PDU_SEND" => T.got = Rsp + T.done /\ size = T.len
    BY Zenon, <1>1 DEF TaskInv, Writing
  <1>5. sys' = sys /\ hist' = Seen(hist, k)
    BY Zenon DEF Transmit
  <1>6. CASE ~T.alive /\ Out(k, T)
    <2> DEFINE u == [T EXCEPT !.st = "closed"]
    <2>1. u.st = "closed" /\ u.alive = T.alive /\ u.ran = T.ran /\ u.read = T.read /\ u.sent = T.sent
      <3> HIDE DEF T
      <3> QED BY Zenon, <1>1 DEF TaskType
    <2> HIDE DEF u, T
    <2>2. TaskInv(u, k)
      BY Zenon, <1>2, <1>3, <1>6, <2>1 DEF TaskInv
    <2> QED BY Zenon, <1>1, <1>5, <1>6, <2>2, OutStep DEF u
  <1>7. ASSUME NEW n \in 1..(size - T.done), NEW t, t = [T EXCEPT !.done = @ + n, !.got = @ + n],
               IF t.done = size /\ (t.st = "PDU_SEND" \/ t.len = 0) THEN Out(k, t)
               ELSE task' = [task EXCEPT ![k] = IF t.done = size THEN StartBody(t) ELSE t] /\ ev' = Loop(ev, k)
        PROVE  IInv'
    <2>8. size \in Nat
      BY SMT, <1>2, <1>3, <1>4 DEF Rsp
    <2>1. n \in Nat /\ n > 0 /\ T.done + n <= size
      <3> HIDE DEF T
      <3> QED BY SMT, <1>2, <2>8
    <2>2. /\ t \in TaskType /\ t.done = T.done + n /\ t.got = T.got + n /\ t.read = T.read /\ t.sent = T.sent
          /\ t.st = T.st /\ t.ran = T.ran /\ t.alive = T.alive /\ t.len = T.len
      <3>1. T.done + n \in Nat /\ T.got + n \in Nat
        BY SMT, <1>2, <2>1
      <3> HIDE DEF T
      <3> QED BY Zenon, <1>1, <1>7, <3>1 DEF TaskType
    <2> HIDE DEF T
    <2>3. t.ran /\ t.read = Hdr + Pdu(k) /\ t.read <= t.sent /\ t.st \in {"HDR_SEND", "PDU_SEND"}
      BY Zenon, <1>2, <1>3, <2>2
    <2>4. /\ t.st = "HDR_SEND" => t.got = t.done /\ size = Rsp
          /\ t.st = "PDU_SEND" => t.got = Rsp + t.done /\ size = t.len
      BY SMT, <1>2, <1>4, <2>1, <2>2 DEF Rsp
    <2>5. CASE t.done = size /\ (t.st = "PDU_SEND" \/ t.len = 0)
      <3> DEFINE u == [t EXCEPT !.st = "closed"]
      <3>1. /\ u.st = "closed" /\ u.alive = t.alive /\ u.ran = t.ran /\ u.read = t.read /\ u.sent = t.sent
            /\ u.got = t.got /\ u.len = t.len
        BY Zenon, <2>2 DEF TaskType
      <3> HIDE DEF u
      <3>2. t.got = Rsp + t.len
        BY SMT, <2>3, <2>4, <2>5 DEF Rsp
      <3>3. TaskInv(u, k)
        BY Zenon, <2>3, <3>1, <3>2 DEF TaskInv
      <3> QED BY Zenon, <1>5, <1>7, <2>2, <2>5, <3>3, OutStep DEF u
    <2>6. CASE t.done = size /\ ~(t.st = "PDU_SEND" \/ t.len = 0)
      <3> DEFINE u == StartBody(t)
      <3>1. /\ u \in TaskType /\ u.st = "PDU_SEND" /\ u.done = 0 /\ u.ran = t.ran /\ u.read = t.read /\ u.sent = t.sent
            /\ u.got = t.got /\ u.len = t.len
        BY Zenon, <2>2 DEF StartBody, TaskType, States
      <3> HIDE DEF u
      <3>2. t.got = Rsp + 0 /\ 0 < t.len
        BY SMT, <1>2, <2>2, <2>3, <2>4, <2>6 DEF Rsp
      <3>3. TaskInv(u, k) /\ On(u)
        BY Zenon, <2>3, <3>1, <3>2 DEF TaskInv, On
      <3> QED BY Zenon, <1>3, <1>5, <1>7, <2>6, <3>1, <3>3, StayStep DEF u, T
    <2>7. CASE t.done # size
      <3>1. t.done < size
        BY SMT, <1>2, <2>1, <2>2, <2>4, <2>3, <2>7 DEF Rsp
      <3>2. TaskInv(t, k) /\ On(t)
        BY Zenon, <2>3, <2>4, <3>1 DEF TaskInv, On
      <3> QED BY Zenon, <1>3, <1>5, <1>7, <2>2, <2>7, <3>2, StayStep DEF T
    <2> QED BY Zenon, <2>5, <2>6, <2>7
  <1> QED BY Zenon, <1>6, <1>7 DEF Transmit

\* mtask_recv_send_handler
LEMMA HandlerStep ==
    ASSUME IInv, NEW k \in Clients, mtask_recv_send_handler(k)
    PROVE  IInv'
  <1>1. Called(k) /\ UNCHANGED <<mode, left>>
    BY Zenon DEF mtask_recv_send_handler
  <1>2. \/ Reading(k, Hdr) /\ Receive(k, Hdr)
        \/ Reading(k, Pdu(k)) /\ Receive(k, Pdu(k))
        \/ Writing(k, Rsp) /\ Transmit(k, Rsp)
        \/ Writing(k, task[k].len) /\ Transmit(k, task[k].len)
    BY Zenon DEF mtask_recv_send_handler, Reading, Writing
  <1> QED BY Zenon, <1>1, <1>2, ReceiveStep, TransmitStep

\* epoll_wait: the events of a batch are there and ready.
LEMMA WaitStep ==
    ASSUME IInv, epoll_wait
    PROVE  IInv'
  <1>1. PICK b \in Waits \ {{}}: ev' = [ev EXCEPT !.batch = b]
    BY Zenon DEF epoll_wait
  <1>2. UNCHANGED <<mode, task, sys, errno, hist, left>>
    BY Zenon DEF epoll_wait
  <1>3. \A fd \in b: fd = Timer \/ (fd \in ev.set /\ IsReady(fd))
    <2> DEFINE must == {fd \in ev.set: IsReady(fd) /\ fd \in Clients \cup {Ipc}}
               may  == {fd \in ev.set: IsReady(fd)} \ must
    <2>1. b \in {must \cup s: s \in SUBSET may} \cup (IF must = {} THEN {{Timer}} ELSE {})
      BY Zenon DEF Waits
    <2>2. ASSUME NEW fd \in must \cup may PROVE fd \in ev.set /\ IsReady(fd)
      BY Zenon, <2>2
    <2> HIDE DEF must, may
    <2>3. b = {Timer} \/ \E s \in SUBSET may: b = must \cup s
      BY Zenon, <2>1
    <2>4. CASE b = {Timer}
      BY Zenon, <2>4
    <2>5. ASSUME NEW s \in SUBSET may, b = must \cup s, NEW fd \in b PROVE fd \in ev.set /\ IsReady(fd)
      <3>1. fd \in must \cup may
        BY Zenon, <2>5
      <3> QED BY Zenon, <2>2, <3>1
    <2> QED BY Zenon, <2>3, <2>4, <2>5
  <1>4. b \subseteq ev.set /\ b \in SUBSET Fds
    BY Zenon, <1>3 DEF IInv, EvOK, Base, EvType
  <1>5. ev' \in EvType /\ ev'.set = ev.set /\ ev'.batch = b /\ ev'.refresh = ev.refresh
    BY Zenon, <1>1, <1>4 DEF IInv, EvOK, Base, EvType
  <1>6. Base(ev')
    BY Zenon, <1>4, <1>5 DEF IInv, EvOK, Base
  <1>7. EvOK'
    <2>1. \A k \in Clients: k \in ev'.set <=> On(task'[k])
      BY Zenon, <1>2, <1>5 DEF IInv, EvOK
    <2>2. sys'.portals \subseteq ev'.set /\ ev'.set \cap {"c1", "c2"} = Open(sys')
      BY Zenon, <1>2, <1>5 DEF IInv, EvOK
    <2> QED BY Zenon, <1>2, <1>6, <2>1, <2>2, EvStep
  <1>8. TaskOK'
    <2>1. ASSUME NEW k \in Clients, k \in b PROVE HasInput(task[k])
      <3>1. k \notin {Ipc, Timer, Bs}
        BY Zenon, Environment DEF IInv, LeftOK, Fixed
      <3>2. IsReady(k)
        BY Zenon, <1>3, <2>1, <3>1
      <3>3. Writable(k) \/ task[k].read < task[k].sent \/ ~task[k].alive
        BY Zenon, <3>1, <3>2, Environment DEF IsReady, IInv, LeftOK
      <3> QED BY Zenon, <3>3 DEF HasInput, Reads, Writable, Sending
    <2>2. ASSUME NEW j \in Clients
          PROVE  TaskInv(task[j], j)' /\ (j \in ev'.batch => HasInput(task[j])')
      BY Zenon, <1>2, <1>5, <2>1, Frame DEF IInv, TaskOK, TaskInv, HasInput, Reads, Hdr, Rsp
    <2> QED BY Zenon, <1>2, <2>2, Frame DEF IInv, TaskOK, TaskType, States
  <1>9. SysOK' /\ HistOK' /\ LeftOK'
    BY Zenon, <1>2, SysSame DEF IInv, HistOK, LeftOK
  <1> QED BY Zenon, <1>7, <1>8, <1>9 DEF IInv

\* The objects change soundly.
LEMMA SysNew ==
    ASSUME SysOK, mode' = mode, Sound(sys'), Listed(sys) => Listed(sys'), hist'.unnamed = hist.unnamed
    PROVE  SysOK'
  <1>1. Shape(sys)'
    BY Zenon DEF Sound, Shape
  <1>2. Stores(sys)'
    BY Zenon DEF Sound, Stores, Units
  <1>3. Known(sys)'
    BY Zenon, Frame DEF Sound, Known
  <1>4. ~hist.unnamed => Listed(sys)'
    BY Zenon DEF SysOK, Listed
  <1> QED BY Zenon, <1>1, <1>2, <1>3, <1>4 DEF SysOK

\* A handler that leaves tasks and events alone: f is what it made of the events, with no client's, portal's or connection's.
LEMMA QuietStep ==
    ASSUME IInv, NEW fd, ev' = Loop(ev, fd), UNCHANGED <<mode, task, hist>>, Sound(sys'), left' \in [die: Nat, data: Nat, accept: Nat],
           sys'.portals = sys.portals, Open(sys') = Open(sys), Listed(sys) => Listed(sys')
    PROVE  IInv'
  <1>1. Base(ev) /\ Working(ev)
    BY Zenon DEF IInv, EvOK, Base, Working
  <1>2. Base(ev') /\ ev'.set = ev.set /\ ev'.batch \subseteq ev.batch /\ fd \notin ev'.batch
    BY Zenon, <1>1, LoopBase
  <1>3. TaskOK'
    BY Zenon, <1>2, TaskSame DEF IInv
  <1>4. EvOK'
    <2>1. \A k \in Clients: k \in ev'.set <=> On(task'[k])
      BY Zenon, <1>2 DEF IInv, EvOK
    <2>2. sys'.portals \subseteq ev'.set /\ ev'.set \cap {"c1", "c2"} = Open(sys')
      BY Zenon, <1>2 DEF IInv, EvOK
    <2> QED BY Zenon, <1>2, <2>1, <2>2, EvStep
  <1>5. SysOK'
    BY Zenon, SysNew DEF IInv
  <1> QED BY Zenon, <1>3, <1>4, <1>5 DEF IInv, HistOK, LeftOK

\* work_timer_evt_handler
LEMMA TimerStep ==
    ASSUME IInv, work_timer_evt_handler
    PROVE  IInv'
  <1>1. ev' = Loop(ev, Timer) /\ UNCHANGED <<mode, task, hist>> /\ sys' = sys /\ left' = left
    BY Zenon DEF work_timer_evt_handler
  <1>2. Sound(sys') /\ left' \in [die: Nat, data: Nat, accept: Nat] /\ Open(sys') = Open(sys) /\ (Listed(sys) => Listed(sys'))
        /\ sys'.portals = sys.portals
    BY Zenon, <1>1 DEF IInv, SysOK, Sound, LeftOK
  <1> QED BY Zenon, <1>1, <1>2, QuietStep

\* mgmt_event_handler: a client that waits is accepted.
LEMMA AcceptClient ==
    ASSUME IInv, mgmt_event_handler
    PROVE  IInv'
  <1>1. UNCHANGED <<mode, sys, hist, left>>
    BY Zenon DEF mgmt_event_handler
  <1>2. CASE ev' = Loop(ev, Ipc) /\ task' = task
    <2>1. Sound(sys') /\ left' \in [die: Nat, data: Nat, accept: Nat] /\ Open(sys') = Open(sys) /\ (Listed(sys) => Listed(sys'))
          /\ sys'.portals = sys.portals
      BY Zenon, <1>1 DEF IInv, SysOK, Sound, LeftOK
    <2> QED BY Zenon, <1>1, <1>2, <2>1, QuietStep
  <1>3. ASSUME NEW k \in Clients, task[k].st = "backlog", task' = [task EXCEPT ![k].st = "HDR_RECV"],
               ev' = Loop(tgt_event_add(ev, k), Ipc)
        PROVE  IInv'
    <2> DEFINE T == task[k]
               t == [T EXCEPT !.st = "HDR_RECV"]
               f == tgt_event_add(ev, k)
    <2>1. T \in TaskType /\ TaskInv(T, k) /\ T.st = "backlog" /\ k \notin ev.set
      BY Zenon, <1>3 DEF IInv, TaskOK, EvOK, On
    <2>2. k \notin ev.batch /\ Base(ev) /\ TaskOK /\ k \notin {"c1", "c2"} /\ {k} \subseteq Fds
      BY Zenon, <2>1, Environment DEF IInv, EvOK, Base, LeftOK, Fixed, Fds
    <2>3. f = [ev EXCEPT !.set = ev.set \cup {k}]
      BY Zenon DEF tgt_event_add
    <2>4. ev' = Loop(f, Ipc)
      BY Zenon, <1>3
    <2> HIDE DEF f
    <2>5. Working(f) /\ f.set = ev.set \cup {k}
      BY Zenon, <2>2, <2>3, AddWorks
    <2>6. Base(ev') /\ ev'.set = f.set /\ ev'.batch \subseteq ev.batch /\ Ipc \notin ev'.batch
      BY Zenon, <2>2, <2>4, <2>5, LoopBase
    <2>7. task' = [task EXCEPT ![k] = t]
      BY Zenon, <1>3
    <2>8. /\ t \in TaskType /\ t.st = "HDR_RECV" /\ t.read = T.read /\ t.sent = T.sent /\ t.done = T.done /\ t.got = T.got
          /\ t.ran = T.ran
      <3> HIDE DEF T
      <3> QED BY Zenon, <2>1 DEF TaskType, States
    <2> HIDE DEF t, T
    <2>9. TaskInv(t, k) /\ On(t)
      BY SMT, <2>1, <2>8 DEF TaskInv, Hdr, On
    <2>10. TaskOK' /\ task'[k] = t /\ \A j \in Clients: j # k => task'[j] = task[j]
      BY Zenon, <1>1, <2>2, <2>6, <2>7, <2>8, <2>9, TaskStep
    <2>11. EvOK'
      <3>1. \A j \in Clients: j \in ev'.set <=> On(task'[j])
        BY Zenon, <2>5, <2>6, <2>9, <2>10 DEF IInv, EvOK
      <3>2. sys'.portals \subseteq ev'.set /\ ev'.set \cap {"c1", "c2"} = Open(sys')
        BY Zenon, <1>1, <2>2, <2>5, <2>6 DEF IInv, EvOK
      <3> QED BY Zenon, <1>1, <2>6, <3>1, <3>2, EvStep
    <2>12. SysOK' /\ HistOK' /\ LeftOK'
      BY Zenon, <1>1, SysSame DEF IInv, HistOK, LeftOK
    <2> QED BY Zenon, <2>10, <2>11, <2>12 DEF IInv
  <1> QED BY Zenon, <1>2, <1>3 DEF mgmt_event_handler

\* bs_sig_request_done: a connection that closes is gone, its event went before.
LEMMA DoneStep ==
    ASSUME IInv, bs_sig_request_done
    PROVE  IInv'
  <1>1. ev' = Loop(ev, Bs) /\ UNCHANGED <<mode, task, hist, left>>
    BY Zenon DEF bs_sig_request_done
  <1>2. Sound(sys) /\ left' \in [die: Nat, data: Nat, accept: Nat] /\ DOMAIN sys.conns \subseteq {"c1", "c2"}
    BY Zenon, <1>1 DEF IInv, SysOK, Sound, LeftOK, Known
  <1> SUFFICES Sound(sys') /\ sys'.portals = sys.portals /\ Open(sys') = Open(sys) /\ (Listed(sys) => Listed(sys'))
    BY Zenon, <1>1, <1>2, QuietStep
  <1>3. CASE sys' = sys
    BY Zenon, <1>2, <1>3
  <1>4. ASSUME NEW x \in DOMAIN sys.conns, sys.conns[x] # "closing", NEW v, v # "closing", sys' = [sys EXCEPT !.conns[x] = v]
        PROVE  Sound(sys') /\ sys'.portals = sys.portals /\ Open(sys') = Open(sys) /\ (Listed(sys) => Listed(sys'))
    <2> DEFINE C == [sys.conns EXCEPT ![x] = v]
    <2>1. DOMAIN C = DOMAIN sys.conns /\ C[x] = v /\ \A y \in DOMAIN sys.conns: y # x => C[y] = sys.conns[y]
      BY Zenon
    <2>2. NewConns(sys, C, sys')
      BY Zenon, <1>4 DEF NewConns
    <2> HIDE DEF C
    <2>3. Sound(sys') /\ (Listed(sys) => Listed(sys')) /\ sys'.portals = sys.portals /\ sys'.conns = C
      <3>1. DOMAIN C \subseteq {"c1", "c2"}
        BY Zenon, <1>2, <2>1
      <3> QED BY Zenon, <1>2, <2>2, <3>1, SetConns
    <2> QED BY SMT, <1>4, <2>1, <2>3 DEF Open
  <1>5. ASSUME NEW x \in DOMAIN sys.conns, sys.conns[x] = "closing", sys' = [sys EXCEPT !.conns = Without(@, {x})]
        PROVE  Sound(sys') /\ sys'.portals = sys.portals /\ Open(sys') = Open(sys) /\ (Listed(sys) => Listed(sys'))
    <2> DEFINE C == Without(sys.conns, {x})
    <2>1. DOMAIN C = DOMAIN sys.conns \ {x} /\ \A y \in DOMAIN sys.conns: y # x => C[y] = sys.conns[y]
      BY Zenon DEF Without
    <2>2. NewConns(sys, C, sys')
      BY Zenon, <1>5 DEF NewConns
    <2> HIDE DEF C
    <2>3. Sound(sys') /\ (Listed(sys) => Listed(sys')) /\ sys'.portals = sys.portals /\ sys'.conns = C
      <3>1. DOMAIN C \subseteq {"c1", "c2"}
        BY Zenon, <1>2, <2>1
      <3> QED BY Zenon, <1>2, <2>2, <3>1, SetConns
    <2> QED BY SMT, <1>5, <2>1, <2>3 DEF Open
  <1> QED BY Zenon, <1>3, <1>4, <1>5 DEF bs_sig_request_done

\* accept_connection: a connection comes with its event.
LEMMA AcceptStep ==
    ASSUME IInv, NEW p \in profile.portals, accept_connection(p)
    PROVE  IInv'
  <1>1. UNCHANGED <<mode, task>> /\ hist' = Seen(hist, p) /\ Called(p)
    BY Zenon DEF accept_connection
  <1>2. left' \in [die: Nat, data: Nat, accept: Nat]
    <2>1. left \in [die: Nat, data: Nat, accept: Nat]
      BY Zenon DEF IInv, LeftOK
    <2>2. left' = [left EXCEPT !.accept = IF left.accept > 0 THEN left.accept - 1 ELSE left.accept]
      BY Zenon DEF accept_connection
    <2>3. (IF left.accept > 0 THEN left.accept - 1 ELSE left.accept) \in Nat
      BY SMT, <2>1
    <2> QED BY Zenon, <2>1, <2>2, <2>3
  <1>3. HistOK' /\ hist'.unnamed = hist.unnamed
    BY Zenon, <1>1, SeenSame DEF IInv
  <1>4. Base(ev) /\ Working(ev)
    BY Zenon DEF IInv, EvOK, Base, Working
  <1>5. Sound(sys) /\ DOMAIN sys.conns \subseteq {"c1", "c2"}
    BY Zenon DEF IInv, SysOK, Sound, Known
  <1> SUFFICES /\ Base(ev') /\ ev'.batch \subseteq ev.batch /\ Sound(sys') /\ (Listed(sys) => Listed(sys'))
               /\ \A k \in Clients: k \in ev'.set <=> k \in ev.set
               /\ sys'.portals \subseteq ev'.set /\ ev'.set \cap {"c1", "c2"} = Open(sys')
    <2>1. TaskOK'
      BY Zenon, <1>1, TaskSame DEF IInv
    <2>2. EvOK'
      <3>1. \A k \in Clients: k \in ev'.set <=> On(task'[k])
        BY Zenon, <1>1 DEF IInv, EvOK
      <3> QED BY Zenon, <1>1, <3>1, EvStep
    <2>3. SysOK'
      BY Zenon, <1>1, <1>3, SysNew DEF IInv
    <2> QED BY Zenon, <1>1, <1>2, <1>3, <2>1, <2>2, <2>3 DEF IInv, LeftOK
  <1>6. CASE ev' = Loop(ev, p) /\ sys' = sys
    <2>1. Base(ev') /\ ev'.set = ev.set /\ ev'.batch \subseteq ev.batch /\ p \notin ev'.batch
      BY Zenon, <1>4, <1>6, LoopBase
    <2> QED BY Zenon, <1>5, <1>6, <2>1 DEF IInv, EvOK
  <1>7. ASSUME NEW x \in {"c1", "c2"} \ DOMAIN sys.conns, ev' = Loop(tgt_event_add(ev, x), p),
               sys' = [sys EXCEPT !.conns = With(@, x, "new")]
        PROVE  /\ Base(ev') /\ ev'.batch \subseteq ev.batch /\ Sound(sys') /\ (Listed(sys) => Listed(sys'))
               /\ \A k \in Clients: k \in ev'.set <=> k \in ev.set
               /\ sys'.portals \subseteq ev'.set /\ ev'.set \cap {"c1", "c2"} = Open(sys')
    <2> DEFINE C == With(sys.conns, x, "new")
               f == tgt_event_add(ev, x)
    <2>1. DOMAIN C = DOMAIN sys.conns \cup {x} /\ C[x] = "new" /\ \A y \in DOMAIN sys.conns: C[y] = sys.conns[y]
      BY SMT DEF With
    <2>2. NewConns(sys, C, sys')
      BY Zenon, <1>7 DEF NewConns
    <2> HIDE DEF C
    <2>3. Sound(sys') /\ (Listed(sys) => Listed(sys')) /\ sys'.portals = sys.portals /\ sys'.conns = C
      <3>1. DOMAIN C \subseteq {"c1", "c2"}
        BY Zenon, <1>5, <2>1
      <3> QED BY Zenon, <1>5, <2>2, <3>1, SetConns
    <2>4. {x} \subseteq Fds /\ x \notin Clients
      BY Zenon, Environment DEF IInv, LeftOK, Fixed, Fds
    <2>5. f = [ev EXCEPT !.set = ev.set \cup {x}]
      BY Zenon DEF tgt_event_add
    <2>6. ev' = Loop(f, p)
      BY Zenon, <1>7
    <2> HIDE DEF f
    <2>7. Working(f) /\ f.set = ev.set \cup {x}
      BY Zenon, <1>4, <2>4, <2>5, AddWorks
    <2>8. Base(ev') /\ ev'.set = f.set /\ ev'.batch \subseteq ev.batch /\ p \notin ev'.batch
      BY Zenon, <1>4, <2>6, <2>7, LoopBase
    <2>9. Open(sys') = Open(sys) \cup {x}
      BY SMT, <2>1, <2>3 DEF Open
    <2>10. sys.portals \subseteq ev.set /\ ev.set \cap {"c1", "c2"} = Open(sys)
      BY Zenon DEF IInv, EvOK
    <2>11. ev'.set \cap {"c1", "c2"} = Open(sys')
      BY Zenon, <2>7, <2>8, <2>9, <2>10
    <2> QED BY Zenon, <2>3, <2>4, <2>7, <2>8, <2>10, <2>11
  <1> QED BY Zenon, <1>6, <1>7 DEF accept_connection

\* iscsi_tcp_event_handler: a login, a command or the end of a connection.
LEMMA TcpStep ==
    ASSUME IInv, NEW x \in {"c1", "c2"}, iscsi_tcp_event_handler(x)
    PROVE  IInv'
  <1>1. UNCHANGED <<mode, task>> /\ hist' = Seen(hist, x) /\ Called(x)
    BY Zenon DEF iscsi_tcp_event_handler
  <1>2. left' \in [die: Nat, data: Nat, accept: Nat]
    <2>1. left \in [die: Nat, data: Nat, accept: Nat]
      BY Zenon DEF IInv, LeftOK
    <2>2. left' = [left EXCEPT !.data = IF left.data > 0 THEN left.data - 1 ELSE left.data]
      BY Zenon DEF iscsi_tcp_event_handler
    <2>3. (IF left.data > 0 THEN left.data - 1 ELSE left.data) \in Nat
      BY SMT, <2>1
    <2> QED BY Zenon, <2>1, <2>2, <2>3
  <1>3. HistOK' /\ hist'.unnamed = hist.unnamed
    BY Zenon, <1>1, SeenSame DEF IInv
  <1>4. Sound(sys) /\ DOMAIN sys.conns \subseteq {"c1", "c2"} /\ x \in DOMAIN sys.conns /\ sys.conns[x] # "closing"
    BY Zenon, <1>1 DEF IInv, SysOK, Sound, Known, EvOK, Base, Called, Open
  <1>5. /\ ev' = Loop(Events(ev, sys, sys'), x)
        /\ sys' \in {[sys EXCEPT !.conns[x] = "in"], [sys EXCEPT !.conns[x] = "busy"], conn_close(sys, {x})}
    BY Zenon DEF iscsi_tcp_event_handler
  <1>6. Sound(sys') /\ Closes(sys, sys') /\ (Listed(sys) => Listed(sys'))
    <2>1. CASE sys' = conn_close(sys, {x})
      <3>1. Sound(sys') /\ Closes(sys, sys') /\ sys'.targets = sys.targets /\ sys'.list = sys.list /\ sys'.drv = sys.drv
        BY SMT, <1>4, <2>1, CloseConn
      <3> QED BY Zenon, <3>1 DEF Listed
    <2>2. ASSUME NEW v, sys' = [sys EXCEPT !.conns[x] = v]
          PROVE  Sound(sys') /\ Closes(sys, sys') /\ (Listed(sys) => Listed(sys'))
      <3> DEFINE C == [sys.conns EXCEPT ![x] = v]
      <3>1. DOMAIN C = DOMAIN sys.conns /\ \A y \in DOMAIN sys.conns: y # x => C[y] = sys.conns[y]
        BY Zenon
      <3>2. NewConns(sys, C, sys')
        BY Zenon, <2>2 DEF NewConns
      <3> HIDE DEF C
      <3>3. DOMAIN C \subseteq {"c1", "c2"}
        BY Zenon, <1>4, <3>1
      <3>4. Sound(sys') /\ (Listed(sys) => Listed(sys')) /\ sys'.portals = sys.portals /\ sys'.conns = C
        BY Zenon, <1>4, <3>2, <3>3, SetConns
      <3> QED BY Zenon, <1>4, <3>1, <3>4 DEF Closes
    <2> QED BY Zenon, <1>5, <2>1, <2>2
  <1>7. /\ Base(ev') /\ ev'.batch \subseteq ev.batch /\ x \notin ev'.batch
        /\ \A k \in Clients: k \in ev'.set <=> k \in ev.set
        /\ sys'.portals \subseteq ev'.set /\ ev'.set \cap {"c1", "c2"} = Open(sys')
    BY Zenon, <1>5, <1>6, EventsStep
  <1>8. TaskOK'
    BY Zenon, <1>1, <1>7, TaskSame DEF IInv
  <1>9. EvOK'
    <2>1. \A k \in Clients: k \in ev'.set <=> On(task'[k])
      BY Zenon, <1>1, <1>7 DEF IInv, EvOK
    <2> QED BY Zenon, <1>1, <1>7, <2>1, EvStep
  <1>10. SysOK'
    BY Zenon, <1>1, <1>3, <1>6, SysNew DEF IInv
  <1> QED BY Zenon, <1>1, <1>2, <1>3, <1>8, <1>9, <1>10 DEF IInv, LeftOK

\* A client does something: its task stays on or off, and has the input it had.
LEMMA ClientStep ==
    ASSUME IInv, NEW k \in Clients, NEW t \in TaskType, TaskInv(t, k), On(t) <=> On(task[k]),
           HasInput(task[k]) => HasInput(t), task' = [task EXCEPT ![k] = t],
           UNCHANGED <<mode, ev, sys, hist>>, left' \in [die: Nat, data: Nat, accept: Nat]
    PROVE  IInv'
  <1>1. TaskOK' /\ task'[k] = t /\ \A j \in Clients: j # k => task'[j] = task[j]
    <2>1. k \in ev'.batch => HasInput(t)
      BY Zenon DEF IInv, TaskOK
    <2>2. TaskOK /\ mode' = mode /\ ev'.batch \subseteq ev.batch
      BY Zenon DEF IInv
    <2> QED BY Zenon, <2>1, <2>2, TaskStep
  <1>2. EvOK'
    <2>1. \A j \in Clients: j \in ev'.set <=> On(task'[j])
      BY Zenon, <1>1 DEF IInv, EvOK
    <2>2. Base(ev') /\ sys'.portals \subseteq ev'.set /\ ev'.set \cap {"c1", "c2"} = Open(sys')
      BY Zenon DEF IInv, EvOK
    <2> QED BY Zenon, <2>1, <2>2, EvStep
  <1>3. SysOK'
    BY Zenon, SysSame DEF IInv
  <1> QED BY Zenon, <1>1, <1>2, <1>3 DEF IInv, HistOK, LeftOK

\* The clients' steps
LEMMA ClientsStep ==
    ASSUME IInv, NEW k \in Clients, Connect(k) \/ Send(k) \/ Dies(k)
    PROVE  IInv'
  <1> DEFINE T == task[k]
  <1>1. T \in TaskType /\ TaskInv(T, k) /\ Pdu(k) \in {0, 3} /\ left \in [die: Nat, data: Nat, accept: Nat]
    BY Zenon DEF IInv, TaskOK, Pdu, LeftOK
  <1>2. CASE Connect(k)
    <2> DEFINE t == [T EXCEPT !.st = "backlog"]
    <2>1. /\ t \in TaskType /\ t.st = "backlog" /\ t.read = T.read /\ t.sent = T.sent /\ t.done = T.done /\ t.got = T.got
          /\ t.ran = T.ran
      <3> HIDE DEF T
      <3> QED BY Zenon, <1>1 DEF TaskType, States
    <2>2. T.st = "none" /\ task' = [task EXCEPT ![k] = t] /\ UNCHANGED <<mode, ev, sys, hist>> /\ left' = left
      BY Zenon, <1>2 DEF Connect
    <2>3. TaskInv(t, k) /\ (On(t) <=> On(T)) /\ HasInput(t)
      <3> HIDE DEF t, T
      <3> QED BY SMT, <1>1, <2>1, <2>2 DEF TaskInv, On, HasInput, Reads
    <2> HIDE DEF t
    <2> QED BY Zenon, <1>1, <2>1, <2>2, <2>3, ClientStep
  <1>3. CASE Send(k)
    <2>1. PICK n \in {1, Hdr + Pdu(k) - T.sent}: task' = [task EXCEPT ![k].sent = @ + n]
      BY Zenon, <1>3 DEF Send
    <2>2. T.sent < Hdr + Pdu(k) /\ UNCHANGED <<mode, ev, sys, hist>> /\ left' = left
      BY Zenon, <1>3 DEF Send, Unsent
    <2> DEFINE t == [T EXCEPT !.sent = @ + n]
    <2>3. T.sent \in Nat /\ T.read \in Nat /\ T.read <= T.sent
      BY Zenon, <1>1 DEF TaskType, TaskInv
    <2>4. T.sent + n \in Nat /\ T.sent + n >= T.sent
      <3> HIDE DEF T
      <3> QED BY SMT, <1>1, <2>1, <2>2, <2>3 DEF Hdr
    <2>5. /\ t \in TaskType /\ t.sent = T.sent + n /\ t.read = T.read /\ t.st = T.st /\ t.done = T.done /\ t.got = T.got
          /\ t.ran = T.ran /\ t.alive = T.alive /\ t.len = T.len
      <3> HIDE DEF T
      <3> QED BY Zenon, <1>1, <2>4 DEF TaskType
    <2>6. task' = [task EXCEPT ![k] = t]
      BY Zenon, <2>1
    <2> HIDE DEF t, T
    <2>7. t.read <= t.sent /\ (T.read < T.sent => t.read < t.sent)
      BY SMT, <2>3, <2>4, <2>5
    <2>8. TaskInv(t, k) /\ (On(t) <=> On(T)) /\ (HasInput(T) => HasInput(t))
      BY Zenon, <1>1, <2>5, <2>7 DEF TaskInv, On, HasInput, Reads
    <2> QED BY Zenon, <1>1, <2>2, <2>5, <2>6, <2>8, ClientStep DEF T
  <1>4. CASE Dies(k)
    <2> DEFINE t == [T EXCEPT !.alive = FALSE]
    <2>1. /\ t \in TaskType /\ t.sent = T.sent /\ t.read = T.read /\ t.st = T.st /\ t.done = T.done /\ t.got = T.got
          /\ t.ran = T.ran /\ ~t.alive /\ t.len = T.len
      <3> HIDE DEF T
      <3> QED BY Zenon, <1>1 DEF TaskType
    <2>2. task' = [task EXCEPT ![k] = t] /\ UNCHANGED <<mode, ev, sys, hist>>
      BY Zenon, <1>4 DEF Dies
    <2>3. left' \in [die: Nat, data: Nat, accept: Nat]
      <3>1. left' = [left EXCEPT !.die = left.die - 1] /\ left.die > 0
        BY Zenon, <1>4 DEF Dies
      <3>2. left.die - 1 \in Nat
        BY SMT, <1>1, <3>1
      <3> QED BY Zenon, <1>1, <3>1, <3>2
    <2> HIDE DEF t, T
    <2>4. TaskInv(t, k) /\ (On(t) <=> On(T)) /\ (HasInput(T) => HasInput(t))
      BY Zenon, <1>1, <2>1 DEF TaskInv, On, HasInput, Reads
    <2> QED BY Zenon, <2>1, <2>2, <2>3, <2>4, ClientStep DEF T
  <1> QED BY Zenon, <1>2, <1>3, <1>4

-----------------------------------------------------------------------------
(* The theorems.                                                           *)

\* The invariant holds at first.
LEMMA InitIInv ==
    ASSUME Init
    PROVE  IInv
  <1>1. mode \in DOMAIN Profiles /\ sys = profile.sys /\ left = profile.left
    BY Zenon DEF Init
  <1>2. WellFormed(profile)
    BY Zenon, <1>1, ProfilesAssumption DEF profile
  <1>3. SysOK
    <2>1. Shape(sys) /\ Known(sys) /\ Listed(sys)
      BY Zenon, <1>1, <1>2 DEF WellFormed, Shape, Known, Listed
    <2>2. Stores(sys)
      <3>1. profile.sys.stores = Units(profile.sys.targets)
        BY Zenon, <1>2 DEF WellFormed, Units
      <3> QED BY Zenon, <1>1, <3>1 DEF Stores
    <2> QED BY Zenon, <2>1, <2>2 DEF SysOK
  <1>4. HistOK /\ LeftOK
    <2>1. hist = [stale |-> FALSE, halfway |-> FALSE, unnamed |-> FALSE]
      BY Zenon DEF Init
    <2>2. HistOK
      BY SMT, <2>1 DEF HistOK
    <2> QED BY Zenon, <1>1, <1>2, <2>2 DEF WellFormed, LeftOK
  <1>5. task \in [Clients -> TaskType] /\ \A k \in Clients: task[k] = Task
    <2>1. Task \in TaskType
      BY SMT DEF Task, TaskType, States
    <2> QED BY Zenon, <2>1 DEF Init
  <1>6. Task.st = "none" /\ ~Task.ran /\ Task.read = 0 /\ Task.done = 0 /\ Task.got = 0 /\ Task.sent = 0
    BY SMT DEF Task
  <1>7. ev.batch = {} /\ ev.refresh = FALSE /\ ev.set = {Ipc, Timer, Bs} \cup sys.portals \cup DOMAIN sys.conns /\ ev \in EvType
    <2> DEFINE S == {Ipc, Timer, Bs} \cup profile.sys.portals \cup DOMAIN profile.sys.conns
    <2>1. ev = [set |-> S, batch |-> {}, refresh |-> FALSE, active |-> TRUE, ended |-> FALSE]
      BY Zenon DEF Init
    <2>2. S \in SUBSET Fds
      BY Zenon, <1>2 DEF WellFormed, Fds, Fixed
    <2>3. S = {Ipc, Timer, Bs} \cup sys.portals \cup DOMAIN sys.conns
      BY Zenon, <1>1
    <2> HIDE DEF S
    <2>4. ev.batch = {} /\ ev.refresh = FALSE /\ ev.set = S /\ ev \in EvType
      BY SMT, <2>1, <2>2 DEF EvType
    <2> QED BY Zenon, <2>3, <2>4
  <1>8. TaskOK
    <2>1. Task.read <= Task.sent
      BY SMT, <1>6
    <2>2. \A k \in Clients: TaskInv(task[k], k)
      BY Zenon, <1>5, <1>6, <2>1 DEF TaskInv
    <2> QED BY Zenon, <1>5, <1>7, <2>2 DEF TaskOK
  <1>9. EvOK
    <2>1. Clients \cap (Fixed \cup profile.portals) = {} /\ profile.portals \cap Fixed = {}
      BY Zenon, <1>1, Environment
    <2>2. sys.portals \subseteq profile.portals /\ DOMAIN sys.conns \subseteq {"c1", "c2"} /\ Open(sys) = DOMAIN sys.conns
      BY Zenon, <1>1, <1>2 DEF WellFormed, Open
    <2>3. \A k \in Clients: k \notin ev.set /\ ~On(task[k])
      BY Zenon, <1>5, <1>6, <1>7, <2>1, <2>2 DEF Fixed, On
    <2>4. ev.set \cap {"c1", "c2"} = Open(sys)
      <3>1. \A x \in {"c1", "c2"}: x \notin {Ipc, Timer, Bs} /\ x \notin sys.portals
        BY Zenon, <2>1, <2>2 DEF Fixed, Ipc, Timer, Bs
      <3> QED BY Zenon, <1>7, <2>2, <3>1
    <2>5. Base(ev)
      BY Zenon, <1>7 DEF Base
    <2> QED BY Zenon, <1>7, <2>3, <2>4, <2>5 DEF EvOK
  <1> QED BY Zenon, <1>3, <1>4, <1>8, <1>9 DEF IInv

\* Every step keeps it.
LEMMA NextIInv ==
    ASSUME IInv, [Next]_vars
    PROVE  IInv'
  <1>1. CASE Next
    BY Zenon, <1>1, WaitStep, TimerStep, AcceptClient, DoneStep, HandlerStep, AcceptStep, TcpStep, ClientsStep DEF Next, Handler
  <1>2. CASE UNCHANGED vars
    <2>1. UNCHANGED <<mode, ev, task, sys, hist, left>>
      BY Zenon, <1>2 DEF vars
    <2>2. TaskOK'
      BY Zenon, <2>1, TaskSame DEF IInv
    <2>3. EvOK'
      <3>1. Base(ev') /\ (\A k \in Clients: k \in ev'.set <=> On(task'[k])) /\ sys'.portals \subseteq ev'.set
        BY Zenon, <2>1 DEF IInv, EvOK
      <3>2. ev'.set \cap {"c1", "c2"} = Open(sys')
        BY Zenon, <2>1 DEF IInv, EvOK
      <3> QED BY Zenon, <2>1, <3>1, <3>2, EvStep
    <2>4. SysOK'
      BY Zenon, <2>1, SysSame DEF IInv
    <2> QED BY Zenon, <2>1, <2>2, <2>3, <2>4 DEF IInv, HistOK, LeftOK
  <1> QED BY Zenon, <1>1, <1>2

\* The inductive invariant: for any clients and requests, whatever the order of events, tasks, events and objects fit
\* together after every handler.
THEOREM Inductive == Spec => []IInv
  <1>1. Init => IInv
    BY Zenon, InitIInv
  <1>2. IInv /\ [Next]_vars => IInv'
    BY Zenon, NextIInv
  <1> QED BY <1>1, <1>2, PTL DEF Spec

\* No handler is called for an event another handler of the batch deleted, and the events are those of the tasks, portals and
\* connections there are (tgt_event_del and the loop of event_loop).
THEOREM EventsCorrect == Spec => []EventsFit
  <1>1. IInv => EventsFit
    <2> SUFFICES ASSUME IInv PROVE EventsFit
      OBVIOUS
    <2>1. \A k \in Clients: task[k].st \in States /\ task[k].read <= task[k].sent
      BY Zenon DEF IInv, TaskOK, TaskType, TaskInv
    <2>2. \A k \in Clients: k \in ev.set <=> Receiving(k) \/ Sending(k)
      BY Zenon DEF IInv, EvOK, On, Receiving, Sending
    <2>3. sys.portals \subseteq ev.set /\ ev.set \cap {"c1", "c2"} = {x \in DOMAIN sys.conns: sys.conns[x] # "closing"}
      BY Zenon DEF IInv, EvOK, Open
    <2>4. ~hist.stale
      BY Zenon DEF IInv, HistOK
    <2> QED BY Zenon, <2>1, <2>2, <2>3, <2>4 DEF EventsFit, TypeOK, NoStaleEvent, States
  <1> QED BY <1>1, Inductive, PTL

\* A request is executed only when all of it was read, and a client that stays gets all of its answer and nothing more
\* (mtask_recv_send_handler), in whatever pieces they come and go.
THEOREM MessagesCorrect == Spec => []MessagesWhole
  <1>1. IInv => MessagesWhole
    BY Zenon DEF IInv, TaskOK, TaskInv, MessagesWhole, WholeRequest, WholeAnswer
  <1> QED BY <1>1, Inductive, PTL

\* No request leaves something half done: backing stores run for exactly the units there are, a refused request changed
\* nothing, and a driver that has targets runs (mtask_execute and what it calls).
THEOREM RequestsCorrect == Spec => []NothingHalf
  <1>1. IInv => NothingHalf
    BY Zenon DEF IInv, SysOK, HistOK, Stores, Units, Listed, NothingHalf, StoresMatch, RefusedKeeps, StoppedEmpty
  <1> QED BY <1>1, Inductive, PTL
=============================================================================
