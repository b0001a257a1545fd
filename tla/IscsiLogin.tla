----------------------------- MODULE IscsiLogin -----------------------------
(***************************************************************************)
(* A TCP connection from accept_connection to the full feature phase:      *)
(* cmnd_execute and what it calls in iscsid.c, the key negotiation of      *)
(* param.c, CHAP (chap.c), the sessions of session.c, and the             *)
(* administrator of iscsi/target.c and target.c who changes accounts,      *)
(* access lists, parameters and targets while logins are under way.        *)
(*                                                                         *)
(* Before the full feature phase a connection reads one PDU, answers it    *)
(* and reads the next; other connections and the administrator run in      *)
(* between, also between the execution of a PDU (Receive) and the end of   *)
(* its answer (Send), where cmnd_finish moves the connection on.           *)
(*                                                                         *)
(* There is one target.  A port is an initiator name with its ISID.  An    *)
(* operator on a connection returns the connection as the C function       *)
(* leaves it; rsp is the class of its answer, and close, create what it    *)
(* does to others: the connections login_security_done closes, and a       *)
(* session made by session_create.                                         *)
(***************************************************************************)
EXTENDS Integers, Sequences, FiniteSets, SequencesExt

CONSTANTS NConns,     \* connections ever accepted are 1..NConns
          Users,      \* accounts of account_list
          Keys,       \* session_keys: key -> [def, min, max, op, local]
          Profiles,   \* name -> what initiators and administrator do in a behaviour
          TsihMod,    \* 2^16 in the code: TSIHs count modulo this
          Slots,      \* DEFAULT_NR_ACCOUNT, the first size of in_aids
          TextMax,    \* units of a text answer one PDU carries (MAX_XMIT_DLENGTH)
          None

Names == DOMAIN Keys

ASSUME LoginAssumption ==
    /\ NConns \in Nat /\ TsihMod \in Nat /\ TsihMod > 2 /\ Slots \in Nat \ {0} /\ TextMax \in Nat \ {0}
    /\ \A k \in Names : Keys[k].op \in {"min", "max", "or", "and", "digest"}
    /\ {"MaxRecv", "MaxXmit", "RDMA"} \subseteq Names /\ Keys["MaxXmit"].local

VARIABLES
    mode,      \* which of Profiles this behaviour follows
    conn,      \* connection -> its struct iscsi_connection
    sess,      \* target->sessions_list: sessions [tsih, port], the newest first
    last,      \* last_tsih of session_create
    tgt,       \* the target: [up, ready, redirect, acl, param]
    in_aids,   \* discovery? -> account.in_aids of global_target, of the target
    out_aid,   \* the same of account.out_aid: is an outgoing account bound?
    exited     \* iscsi_target_destroy found sessions left and called exit

vars == <<mode, conn, sess, last, tgt, in_aids, out_aid, exited>>

profile == Profiles[mode]

Conns == 1..NConns
Bad   == -1        \* the value of a key whose text does not parse

\* conn_init: the parameters are the defaults of the standard.
conn_init ==
    [state |-> "FREE", closed |-> FALSE, tx |-> FALSE, busy |-> FALSE, disc |-> FALSE, port |-> None,
     session |-> 0, auth |-> "UNKNOWN", auth_state |-> "START",
     param |-> [k \in Names |-> [state |-> "START", val |-> Keys[k].def]],
     left |-> << >>, more |-> FALSE, want |-> << >>, rsp |-> "ok", close |-> {}, create |-> FALSE,
     proved |-> FALSE, open |-> FALSE, agreed |-> [k \in Names |-> Keys[k].def], got |-> << >>]

Init ==
    /\ mode \in DOMAIN Profiles
    /\ conn = [c \in Conns |-> [conn_init EXCEPT !.state = "NONE"]]
    /\ sess = << >> /\ last = 0 /\ exited = FALSE
    /\ \E p \in profile.params :
         tgt = [up |-> TRUE, ready |-> TRUE, redirect |-> FALSE, acl |-> TRUE,
                param |-> [k \in Names |-> [state |-> "START", val |-> p[k]]]]
    /\ in_aids = [d \in BOOLEAN |-> [i \in 1..Slots |-> None]] /\ out_aid = [d \in BOOLEAN |-> FALSE]

----------------------------------------------------------------------------
(* Accounts (target.c).                                                    *)

nr_inaccount(d) == Cardinality({i \in DOMAIN in_aids[d] : in_aids[d][i] # None})

account_available(k) == (k.disc \/ tgt.up) /\ nr_inaccount(k.disc) > 0

\* account_lookup looks at the first nr_inaccount entries of in_aids.
account_lookup(k, u) == (k.disc \/ tgt.up) /\ \E i \in 1..nr_inaccount(k.disc) : in_aids[k.disc][i] = u

\* __inaccount_bind takes the first free entry; the array doubles when it is full.
inaccount_bind(d, u) ==
    LET a    == in_aids[d]
        free == {i \in DOMAIN a : a[i] = None} IN
    /\ u \notin Range(a)
    /\ in_aids' = [in_aids EXCEPT ![d] =
                     IF free # {} THEN [a EXCEPT ![CHOOSE i \in free : \A j \in free : i <= j] = u]
                     ELSE a \o [i \in 1..Len(a) |-> IF i = 1 THEN u ELSE None]]

inaccount_unbind(d, u) ==
    /\ u \in Range(in_aids[d])
    /\ in_aids' = [in_aids EXCEPT ![d] = [i \in DOMAIN @ |-> IF @[i] = u THEN None ELSE @[i]]]

account_ctl ==
    /\ "account" \in profile.admin
    /\ \/ \E d \in profile.disc, u \in Users : (tgt.up \/ d) /\ inaccount_bind(d, u) /\ UNCHANGED out_aid
       \/ \E d \in profile.disc, u \in Users : (tgt.up \/ d) /\ inaccount_unbind(d, u) /\ UNCHANGED out_aid
       \/ \E d \in profile.disc : (tgt.up \/ d) /\ out_aid' = [out_aid EXCEPT ![d] = ~@] /\ UNCHANGED in_aids
    /\ UNCHANGED <<mode, conn, sess, last, tgt, exited>>

\* account_del unbinds the account everywhere before it is freed.
account_del ==
    /\ "account" \in profile.admin
    /\ \E u \in Users :
         in_aids' = [d \in BOOLEAN |-> [i \in DOMAIN in_aids[d] |-> IF in_aids[d][i] = u THEN None ELSE in_aids[d][i]]]
    /\ UNCHANGED <<mode, conn, sess, last, tgt, out_aid, exited>>

----------------------------------------------------------------------------
(* Key negotiation (param.c, text_scan_login, text_check_param).           *)

Smaller(a, b) == IF a < b THEN a ELSE b
Larger(a, b)  == IF a > b THEN a ELSE b

\* param_check_val: only the ranged keys have a check_val.
param_check_val(k, v) == Keys[k].op \in {"min", "max"} => Keys[k].min <= v /\ v <= Keys[k].max

\* param_set_val: the value both sides use from now on.  A digest offer is a mask,
\* 1 for None and 3 for None or CRC32C; the result is 1 or 2.
param_set_val(k, p, v) ==
    CASE Keys[k].op = "min"    -> Smaller(p, v)
      [] Keys[k].op = "max"    -> Larger(p, v)
      [] Keys[k].op = "or"     -> Larger(p, v)
      [] Keys[k].op = "and"    -> Smaller(p, v)
      [] Keys[k].op = "digest" -> IF v >= 2 /\ p >= 2 THEN 2 ELSE 1

\* The parameter a key of the initiator is about: its MaxRecvDataSegmentLength bounds
\* what the target sends.
Index(n) == IF n = "MaxRecv" THEN "MaxXmit" ELSE n

\* The value a key is settled to.
SetKey_kept(i, p, v) ==    \* mutant: the answer to our own offer is not taken over
    IF p.state = "REQUEST" THEN p.val ELSE param_set_val(i, p.val, v)

SetKey(i, p, v) == IF Keys[i].local THEN v ELSE param_set_val(i, p.val, v)

\* One key of text_scan_login.  Bad is a value that does not parse.
ScanKey(p, n, v) ==
    LET i == Index(n) IN
    IF v = Bad \/ ~param_check_val(i, v) THEN p[i]     \* answered with Reject
    ELSE [state |-> "DONE", val |-> SetKey(i, p[i], v)]

\* A value that does not parse is an error once the target has asked for the key.
KeyError(p, n, v) == v = Bad /\ p[Index(n)].state # "START"

\* What the initiator holds: the answer to its offer, or its answer to ours.
Agreed(k, keys) ==
    [n \in Names |->
       LET said == {m \in DOMAIN keys : Index(m) = n /\ keys[m] # Bad /\ param_check_val(n, keys[m])}
           v    == keys[CHOOSE m \in said : TRUE]
       IN IF said = {} THEN k.agreed[n]
          ELSE IF Keys[n].local THEN v
          ELSE IF k.param[n].state = "START" THEN param_set_val(n, k.param[n].val, v)
          ELSE IF Keys[n].op = "digest" /\ v = 3 THEN 2 ELSE v]

text_scan_login(k, req) ==
    LET keys    == req.keys
        scanned == [i \in Names |->
                      IF \E n \in DOMAIN keys : Index(n) = i
                      THEN LET n == CHOOSE n \in DOMAIN keys : Index(n) = i IN ScanKey(k.param, n, keys[n])
                      ELSE k.param[i]]
    IN IF \E n \in DOMAIN keys : KeyError(k.param, n, keys[n])
       THEN [k EXCEPT !.rsp = "err", !.state = "EXIT"]
       ELSE [k EXCEPT !.agreed = Agreed(k, keys),
                      !.param = [scanned EXCEPT !["RDMA"].val = 0]]   \* offered only if asked for

\* The keys text_check_param counts: changed by the administrator and not yet settled.
Undecided(k) == {n \in Names : k.param[n].state = "START" /\ k.param[n].val # Keys[n].def}

\* In the operational stage each of them is offered, or settled here when it is local.
Offered(k) == {n \in Undecided(k) : ~Keys[n].local /\ n # "RDMA"}

Ask_again == "START"    \* mutant: the key counts as not yet offered

Ask == "REQUEST"

text_check_param(k) ==
    IF k.state # "LOGIN" THEN k
    ELSE [k EXCEPT !.param = [n \in Names |->
                     IF n \in Offered(k) THEN [state |-> Ask, val |-> @[n].val]
                     ELSE IF n \in Undecided(k) /\ Keys[n].local
                     THEN [state |-> "DONE", val |-> Smaller(@[n].val, Keys[n].def)] ELSE @[n]],
                   !.agreed["MaxRecv"] = IF "MaxRecv" \in Offered(k) THEN k.param["MaxRecv"].val ELSE @]

Stay(k) == IF k.state = "LOGIN" THEN Offered(k) # {} ELSE Undecided(k) # {}

----------------------------------------------------------------------------
(* The login state machine (iscsid.c).                                     *)

Failed(k) == [k EXCEPT !.rsp = "err", !.state = "EXIT"]

\* login_start: every check of the first PDU.  A discovery session needs no target.
login_start(k, req) ==
    LET d  == req.disc
        k1 == [k EXCEPT !.port = req.port, !.disc = d] IN
    IF req.named /\ (d \/ (tgt.up /\ ~tgt.redirect /\ tgt.ready /\ tgt.acl))
    THEN [k1 EXCEPT !.param = IF d THEN @ ELSE tgt.param]
    ELSE Failed(k1)

\* text_scan_security: None without an incoming account, CHAP with one.
AuthAllowed_none(k) == "None"    \* mutant: accounts are not looked at

AuthAllowed(k) == IF account_available(k) THEN "CHAP" ELSE "None"

text_scan_security(k, req) ==
    LET m == IF AuthAllowed(k) \in req.auth THEN AuthAllowed(k) ELSE k.auth IN
    IF m = "UNKNOWN" THEN Failed(k)
    ELSE [k EXCEPT !.auth = m, !.open = IF AuthAllowed(k) \in req.auth THEN m = "None" /\ ~account_available(k) ELSE @]

\* The first CHAP PDU names the algorithms, and is answered with a challenge.
chap_initiator_auth_create_challenge(k, req) ==
    IF req.chap = "alg" THEN [k EXCEPT !.auth_state = "CHALLENGE"] ELSE Failed(k)

\* The second names a bound account and proves its secret.
chap_initiator_auth_check_response(k, req) ==
    IF /\ account_available(k) /\ account_lookup(k, req.user)
       /\ req.chap \in {"right", "right+ask", "right+echo"}
    THEN [k EXCEPT !.proved = TRUE] ELSE Failed(k)

\* It may carry a challenge of its own, which takes an outgoing account and must not be
\* the reflection of ours, nor empty (chap_alloc_decode_buffer).
chap_target_auth_create_response(k, req) ==
    IF req.chap = "right" \/ (req.chap = "right+ask" /\ out_aid[k.disc])
    THEN [k EXCEPT !.state = "SECURITY_DONE"] ELSE Failed(k)

cmnd_exec_auth_chap(k, req) ==
    IF k.auth_state = "START" THEN chap_initiator_auth_create_challenge(k, req)
    ELSE LET k1 == chap_initiator_auth_check_response(k, req)
         IN IF k1.rsp = "ok" THEN chap_target_auth_create_response(k1, req) ELSE k1

\* session_find_name: the newest session of the port the request names.
Found(k, req) ==
    LET is == {i \in DOMAIN sess : sess[i].port = req.port} IN
    IF k.disc \/ ~tgt.up \/ is = {} THEN 0 ELSE sess[CHOOSE i \in is : \A j \in is : i <= j].tsih

Members(t) == {c \in Conns : conn[c].session = t /\ conn[c].state # "GONE"}

\* login_security_done: reinstatement (TSIH 0) closes the connections of the port's
\* session, the session's own TSIH adds this connection to it.  TSIH and ISID are those of
\* the current PDU, which need not be those login_start saw.
login_security_done(k, req) ==
    LET t == Found(k, req) IN
    CASE t # 0 /\ req.tsih = 0 -> [k EXCEPT !.close = Members(t)]
      [] t # 0 /\ req.tsih = t -> [k EXCEPT !.session = t]
      [] t = 0 /\ req.tsih = 0 -> k
      [] OTHER -> Failed(k)

\* login_finish: the first connection makes the session, another takes the ISID of its
\* session; a target that is gone fails it.
login_finish(k) ==
    IF k.disc THEN k
    ELSE IF k.session # 0
    THEN [k EXCEPT !.port = sess[CHOOSE i \in DOMAIN sess : sess[i].tsih = k.session].port]
    ELSE IF tgt.up THEN [k EXCEPT !.create = TRUE]
    ELSE Failed(k)

\* The stage of the request: what cmnd_exec_login does before the transition.
Stage(k, req) ==
    IF req.csg = "security"
    THEN CASE k.state \in {"FREE", "SECURITY"} ->
                LET k1 == IF k.state = "FREE" THEN login_start([k EXCEPT !.state = "SECURITY"], req) ELSE k
                    k2 == IF k1.rsp = "ok" THEN text_scan_security(k1, req) ELSE k1
                IN IF k2.rsp = "ok" /\ k2.auth # "None"
                   THEN [k2 EXCEPT !.state = "SECURITY_AUTH", !.auth_state = "START"] ELSE k2
           [] k.state = "SECURITY_AUTH" -> cmnd_exec_auth_chap(k, req)
           [] OTHER -> Failed(k)
    ELSE CASE req.csg = "login" /\ k.state \in {"FREE", "LOGIN"} ->
                LET k1 == IF k.state = "FREE" THEN login_start([k EXCEPT !.state = "LOGIN"], req) ELSE k
                    k2 == IF k.state = "FREE" /\ account_available(k1) THEN Failed(k1)
                          ELSE IF k.state = "FREE" THEN [k1 EXCEPT !.open = ~account_available(k1)] ELSE k1
                IN IF k2.rsp = "ok" THEN text_scan_login(k2, req) ELSE k2
           [] OTHER -> Failed(k)

\* The transition to the next stage; one that still has keys to settle stays.
Transit(k, req) ==
    CASE k.state \in {"SECURITY", "SECURITY_DONE"} /\ req.nsg = "login" ->
           login_security_done([k EXCEPT !.state = "SECURITY_LOGIN"], req)
      [] k.state \in {"SECURITY", "SECURITY_DONE"} /\ req.nsg = "full" ->
           IF Stay(k) THEN [k EXCEPT !.state = "LOGIN"]
           ELSE LET k1 == login_security_done([k EXCEPT !.state = "SECURITY_FULL"], req)
                IN IF k1.rsp = "ok" THEN login_finish(k1) ELSE [login_finish(k1) EXCEPT !.rsp = "err"]
      [] k.state = "LOGIN" /\ req.nsg = "full" ->
           login_finish([k EXCEPT !.state = "LOGIN_FULL"])
      [] OTHER -> Failed(k)

cmnd_exec_login(k, req) ==
    LET k1   == Stage(k, req)
        stay == k1.state = "LOGIN" /\ Stay(k1)
        k2   == IF k1.state = "LOGIN" THEN text_check_param(k1) ELSE k1
    IN IF k1.rsp # "ok" \/ k1.state = "SECURITY_AUTH" \/ ~req.transit \/ (stay /\ req.nsg = "full") THEN k2
       ELSE Transit(k2, req)

----------------------------------------------------------------------------
(* Text requests: SendTargets and its continuation.                        *)

\* target_list_build: the units of the answer, none without a target that admits us.
target_list_build == IF tgt.up /\ tgt.acl THEN <<1, 2, 3, 4>> ELSE << >>

\* Does the answer end with this PDU?
TextFinal(size) == size <= TextMax

cmnd_exec_text(k, req) ==
    IF req.ttt # "new" /\ (k.left = << >> \/ ~k.more \/ req.ttt = "stale") THEN [k EXCEPT !.rsp = "reject"]
    ELSE LET fresh == req.ttt = "new"
             text  == IF fresh THEN target_list_build ELSE k.left
             n     == Smaller(TextMax, Len(text))
         IN [k EXCEPT !.left = SubSeq(text, n + 1, Len(text)), !.more = ~TextFinal(Len(text)),
                      !.got = (IF fresh THEN << >> ELSE @) \o SubSeq(text, 1, n),
                      !.want = IF fresh THEN text ELSE @]

\* cmnd_execute: a login has to be immediate, an unknown PDU ends the connection.
cmnd_execute(k, req) ==
    CASE req.op = "login" /\ req.imm  -> cmnd_exec_login(k, req)
      [] req.op = "login" /\ ~req.imm -> [k EXCEPT !.rsp = "reject"]
      [] req.op = "text"              -> cmnd_exec_text(k, req)
      [] req.op = "logout"            -> k
      [] OTHER                        -> [k EXCEPT !.rsp = "reject", !.state = "CLOSE"]

----------------------------------------------------------------------------
(* Connections and sessions.                                               *)

\* conn_exit: the connection and what it holds are freed.
Gone == [conn_init EXCEPT !.state = "GONE", !.closed = TRUE]

\* conn_close of every connection of cs: released at once (conn_exit), or with the
\* last of its commands.
Closing(cn, cs) ==
    [c \in Conns |-> IF c \notin cs \/ cn[c].closed THEN cn[c]
                     ELSE IF cn[c].busy THEN [cn[c] EXCEPT !.closed = TRUE, !.state = "CLOSE"] ELSE Gone]

\* session_put: a session goes with the last of its connections.
Held(cn, t) == \E c \in Conns : cn[c].session = t /\ cn[c].state # "GONE"

Sessions(cn, ss) == SelectSeq(ss, LAMBDA s : Held(cn, s.tsih))

\* session_create: the next free TSIH after the last one given out, never 0.
InUse_zero(ss, t) == t = 0    \* mutant: session_lookup_by_tsih is not asked

InUse(ss, t) == t = 0 \/ \E i \in DOMAIN ss : ss[i].tsih = t

FreeTsihs(ss) == {n \in 1..(TsihMod - 1) : ~InUse(ss, (last + n) % TsihMod)}

\* The connection k as c, the connections it closes and the session it makes.
Apply(c, k) ==
    LET cn == Closing([conn EXCEPT ![c] = [k EXCEPT !.close = {}, !.create = FALSE]], k.close)
        ss == Sessions(cn, sess)
        t  == (last + Min(FreeTsihs(ss))) % TsihMod
    IN CASE ~k.create -> conn' = cn /\ sess' = ss /\ UNCHANGED last
         [] k.create /\ FreeTsihs(ss) = {} ->
              conn' = [cn EXCEPT ![c] = Failed(@)] /\ sess' = ss /\ UNCHANGED last
         [] OTHER -> /\ conn' = [cn EXCEPT ![c].session = t]
                     /\ sess' = <<[tsih |-> t, port |-> k.port]>> \o ss /\ last' = t

accept_connection(c) ==
    /\ ~exited /\ c <= profile.conns /\ conn[c].state = "NONE" /\ tgt.up
    /\ c > 1 => conn[c - 1].state # "NONE"
    /\ conn' = [conn EXCEPT ![c] = conn_init]
    /\ UNCHANGED <<mode, sess, last, tgt, in_aids, out_aid, exited>>

Open(c) == ~exited /\ ~conn[c].closed /\ conn[c].state \notin {"NONE", "GONE"}

----------------------------------------------------------------------------
(* The initiators.                                                         *)

\* A login request; profiles change fields of it.
Request == [op |-> "login", imm |-> TRUE, csg |-> "login", nsg |-> "full", transit |-> TRUE, tsih |-> 0,
            port |-> "p1", disc |-> FALSE, named |-> TRUE, auth |-> {}, chap |-> "none", user |-> None,
            keys |-> << >>, ttt |-> "new"]

\* A careful initiator offers keys once, in its first operational PDU, and answers
\* every key the target offers with a value the standard allows.
Asked(k) == {n \in Names : k.param[n].state = "REQUEST" /\ n # "MaxRecv"}

Legal(n, p) == {v \in profile.values : v # Bad /\ param_check_val(n, v) /\ v >= (IF Keys[n].op = "digest" THEN 1 ELSE 0)
                                        /\ param_set_val(n, p, v) = IF Keys[n].op = "digest" /\ v = 3 THEN 2 ELSE v}

HonestKeys(k) ==
    IF Asked(k) # {}
    THEN {[n \in Asked(k) |-> Min(Legal(n, k.param[n].val))], [n \in Asked(k) |-> Max(Legal(n, k.param[n].val))]}
    ELSE IF k.state = "FREE" \/ \A n \in Names : k.param[n].state = "START" THEN profile.offers
    ELSE {<< >>}

Requests(k) ==
    IF ~profile.honest THEN profile.reqs
    ELSE {[Request EXCEPT !.keys = f] : f \in IF k.state \in {"FREE", "LOGIN"} THEN HonestKeys(k) ELSE {}}
         \cup {[Request EXCEPT !.csg = "security", !.nsg = g, !.auth = {"None"}] : g \in IF k.state = "FREE" THEN {"login", "full"} ELSE {}}

----------------------------------------------------------------------------
(* The steps of the daemon.                                                *)

\* A PDU has arrived: iscsi_rx_handler executes it and arms EPOLLOUT.
Receive(c) ==
    /\ Open(c) /\ ~conn[c].tx /\ conn[c].state \notin {"SCSI", "CLOSE"}
    /\ \E req \in Requests(conn[c]) :
         LET k == cmnd_execute([conn[c] EXCEPT !.rsp = "ok"], req)
         IN Apply(c, IF k.state = "CLOSE" THEN [k EXCEPT !.close = {c}] ELSE [k EXCEPT !.tx = TRUE])
    /\ UNCHANGED <<mode, tgt, in_aids, out_aid, exited>>

\* The answer is out: cmnd_finish, and conn_take_fd for a normal session.
Finished(k) ==
    CASE k.state = "SECURITY_LOGIN" -> "LOGIN"
      [] k.state \in {"SECURITY_FULL", "LOGIN_FULL"} -> IF k.disc THEN "FULL" ELSE "SCSI"
      [] OTHER -> k.state

Send(c) ==
    /\ Open(c) /\ conn[c].tx
    /\ Apply(c, [conn[c] EXCEPT !.tx = FALSE, !.state = Finished(conn[c]), !.close = IF conn[c].state = "EXIT" THEN {c} ELSE {}])
    /\ UNCHANGED <<mode, tgt, in_aids, out_aid, exited>>

\* The peer is gone, or conn_close_admin has asked for the close.
Lost(c) ==
    /\ Open(c)
    /\ "lost" \in profile.admin \/ conn[c].state = "CLOSE"
    /\ Apply(c, [conn[c] EXCEPT !.close = {c}])
    /\ UNCHANGED <<mode, tgt, in_aids, out_aid, exited>>

conn_close_admin(c) ==
    /\ "close" \in profile.admin /\ Open(c) /\ conn[c].session # 0
    /\ conn' = [conn EXCEPT ![c].state = "CLOSE"]
    /\ UNCHANGED <<mode, sess, last, tgt, in_aids, out_aid, exited>>

\* A command of the full feature phase is in the SCSI layer; it ends, and lets go of a
\* connection closed meanwhile.
Command(c) ==
    /\ Open(c) /\ conn[c].state = "SCSI" /\ ~conn[c].busy /\ "io" \in profile.admin
    /\ conn' = [conn EXCEPT ![c].busy = TRUE]
    /\ UNCHANGED <<mode, sess, last, tgt, in_aids, out_aid, exited>>

CommandDone(c) ==
    /\ ~exited /\ conn[c].busy
    /\ conn' = [conn EXCEPT ![c] = IF @.closed THEN Gone ELSE [@ EXCEPT !.busy = FALSE]]
    /\ sess' = Sessions(conn', sess)
    /\ UNCHANGED <<mode, last, tgt, in_aids, out_aid, exited>>

----------------------------------------------------------------------------
(* The administrator.                                                      *)

\* tgt_device_destroy refuses a unit with commands.
LunActive == \E c \in Conns : conn[c].busy

\* tgt_target_destroy refuses a target with I_T nexuses, unless forced, and passes on the
\* refusal of its units.
DestroyRefused(force) == (~force /\ sess # << >>) \/ LunActive

\* iscsi_target_destroy: all connections of all sessions are
\* closed; a session that is left is a bug, and the daemon exits.
iscsi_target_destroy(force) ==
    /\ "destroy" \in profile.admin /\ tgt.up /\ ~exited
    /\ ~DestroyRefused(force)
    /\ LET cn == Closing(conn, UNION {Members(sess[i].tsih) : i \in DOMAIN sess})
           ss == Sessions(cn, sess)
       IN /\ conn' = cn /\ sess' = ss
          /\ exited' = (ss # << >>)
          /\ tgt' = IF ss = << >> THEN [tgt EXCEPT !.up = FALSE] ELSE tgt
    /\ UNCHANGED <<mode, last, in_aids, out_aid>>

\* tgt_target_create, iscsi_target_create: fresh accounts and parameters.
tgt_target_create ==
    /\ ~tgt.up /\ ~exited
    /\ \E p \in profile.params :
         tgt' = [up |-> TRUE, ready |-> TRUE, redirect |-> FALSE, acl |-> TRUE,
                 param |-> [k \in Names |-> [state |-> "START", val |-> p[k]]]]
    /\ in_aids' = [in_aids EXCEPT ![FALSE] = [i \in 1..Slots |-> None]]
    /\ out_aid' = [out_aid EXCEPT ![FALSE] = FALSE]
    /\ UNCHANGED <<mode, conn, sess, last, exited>>

\* acl_add, acl_del, tgt_set_target_state and the redirections of iscsi_target_update.
iscsi_target_update ==
    /\ "update" \in profile.admin /\ tgt.up /\ ~exited
    /\ \E f \in {"ready", "redirect", "acl"} : tgt' = [tgt EXCEPT ![f] = ~@]
    /\ UNCHANGED <<mode, conn, sess, last, in_aids, out_aid, exited>>

\* iscsi_session_param_update: logins under way keep the values they copied.
iscsi_session_param_update ==
    /\ "param" \in profile.admin /\ tgt.up /\ ~exited
    /\ \E n \in profile.keys, v \in profile.values :
         /\ v # Bad /\ param_check_val(n, v)
         /\ tgt' = [tgt EXCEPT !.param[n].val = v]
    /\ UNCHANGED <<mode, conn, sess, last, in_aids, out_aid, exited>>

Next ==
    \/ \E c \in Conns : accept_connection(c) \/ Receive(c) \/ Send(c) \/ Lost(c)
                        \/ conn_close_admin(c) \/ Command(c) \/ CommandDone(c)
    \/ account_ctl \/ account_del \/ tgt_target_create \/ iscsi_target_update \/ iscsi_session_param_update
    \/ \E force \in BOOLEAN : iscsi_target_destroy(force)

\* The event loop serves every connection that has something to do, and a careful
\* initiator goes on with its login: weak fairness of "the connection takes a step",
\* written out because its enabling condition is simpler than the step.
Ready(c) ==
    /\ Open(c)
    /\ conn[c].tx \/ conn[c].state = "CLOSE" \/ (profile.honest /\ conn[c].state # "SCSI")

Fairness == \A c \in Conns : ([]<>~Ready(c)) \/ ([]<><<conn[c]' # conn[c]>>_vars)

Spec == Init /\ [][Next]_vars /\ Fairness

----------------------------------------------------------------------------
(* Properties.                                                             *)

FullFeature(c) == conn[c].state \in {"SECURITY_FULL", "LOGIN_FULL", "FULL", "SCSI"}

\* Types of the state; at most one of the many intermediate login states at a time.
TypeOK ==
    /\ \A c \in Conns :
         /\ conn[c].state \in {"NONE", "FREE", "SECURITY", "SECURITY_AUTH", "SECURITY_DONE", "SECURITY_LOGIN",
                               "SECURITY_FULL", "LOGIN", "LOGIN_FULL", "FULL", "SCSI", "CLOSE", "EXIT", "GONE"}
         /\ conn[c].session \in 0..(TsihMod - 1)
         /\ conn[c].close = {} /\ ~conn[c].create
         /\ \A n \in Names : conn[c].param[n].state \in {"START", "REQUEST", "DONE"}
         /\ conn[c].state = "EXIT" => conn[c].tx
    /\ last \in 0..(TsihMod - 1)

\* A connection that is in the full feature phase has proved a secret of an account that
\* was bound, or chose its method when no incoming account was there to be asked for:
\* no route through cmnd_exec_login's stages gets around text_scan_security and CHAP.
Authenticated == \A c \in Conns : FullFeature(c) => conn[c].proved \/ conn[c].open

\* In the full feature phase the target works with the values the initiator was told or
\* has told: keys offered by either side, rejected, answered, or left at the default.
ParamsAgree ==
    \A c \in Conns : profile.honest /\ conn[c].state = "SCSI" =>
       \A n \in Names : IF Keys[n].local THEN conn[c].param[n].val <= conn[c].agreed[n]
                         ELSE conn[c].param[n].val = conn[c].agreed[n]

\* The sessions of the target and the connections fit: no session without a connection,
\* no connection whose session is gone, one session per TSIH, none of another port than its
\* connections once they are logged in, no session without a target
\* (session_create, session_put, conn_close and iscsi_target_destroy in any order).
SessionsFit ==
    /\ \A i \in DOMAIN sess : sess[i].tsih # 0 /\ Held(conn, sess[i].tsih)
    /\ \A i, j \in DOMAIN sess : sess[i].tsih = sess[j].tsih => i = j
    /\ \A c \in Conns : conn[c].session # 0 /\ conn[c].state # "GONE" =>
         \E i \in DOMAIN sess : /\ sess[i].tsih = conn[c].session
                                /\ FullFeature(c) => sess[i].port = conn[c].port
    /\ sess # << >> => tgt.up

\* iscsi_target_destroy never finds a session left ("bug still have sessions"): a unit
\* with commands in it has refused the destruction before.
NeverExits == ~exited

\* A text answer that takes several PDUs reaches the initiator whole, in order and
\* without a unit twice.
TextWhole ==
    \A c \in Conns : /\ conn[c].got \o conn[c].left = conn[c].want
                     /\ conn[c].more = (conn[c].left # << >>)

\* What the initiator was told is true, in the login and in text answers
\* (text_scan_login, text_check_param, cmnd_exec_text).
ToldTrue == ParamsAgree /\ TextWhole

\* The lists of sessions and connections are whole, so that nothing calls exit.
ListsFit == TypeOK /\ SessionsFit /\ NeverExits

\* A login ends: the negotiation with a careful initiator does not go on for ever.
LoginEnds ==
    \A c \in Conns : profile.honest /\ conn[c].state = "FREE" ~> conn[c].state \in {"SCSI", "FULL", "GONE", "CLOSE"}

=============================================================================
