-------------------------------- MODULE Isns --------------------------------
(***************************************************************************)
(* The iSNS client (usr/iscsi/isns.c) and the NOP keep-alive of TCP        *)
(* connections (usr/iscsi/iscsi_tcp.c), the two users of timed work.       *)
(*                                                                         *)
(* tgtd registers its targets at an iSNS server, asks it for the           *)
(* initiators each target may serve, asks again when the server notifies a *)
(* state change (SCN), and queries it regularly so that the registration   *)
(* does not expire.  c is the state of the client with the target list and *)
(* the two directions of its connection; the server and the peers of the   *)
(* iSCSI connections are external.  All of it runs in the main thread.     *)
(***************************************************************************)
EXTENDS Work, FiniteSets

CONSTANTS
    Profiles,   \* the environments the model runs in, see MCIsns
    None

VARIABLES
    mode,       \* the environment of this behaviour
    c,          \* the iSNS client
    wq,         \* timed work
    phase,      \* the main thread waits for events ("loop"), has a timer event ("due"), or executes work ("work")
    srv,        \* external: the iSNS server
    conns,      \* iscsi_tcp_conn_list
    hist,       \* what was seen
    left        \* what may still happen

vars == <<mode, c, wq, phase, srv, conns, hist, left>>

profile == Profiles[mode]

Default == 3                \* DEFAULT_ISNS_TIMEOUT, in ticks of ten seconds
Timeout == "timeout_work"
Nop     == "nop_work"
Eid     == "eid"            \* EID_NAME_KEY

Client == [use |-> FALSE, fd |-> FALSE, eof |-> FALSE, part |-> FALSE, up |-> << >>, down |-> << >>, scn |-> << >>,
           num |-> 0, trans |-> 0, qry |-> << >>, timeout |-> Default, tg |-> << >>, linked |-> FALSE, crash |-> FALSE]

Server == [up |-> TRUE, nodes |-> {}, scn |-> {}, inits |-> {}, ttl |-> 0]

Init ==
    /\ mode \in DOMAIN Profiles
    /\ c = Client
    /\ wq = IF profile.conns = << >> THEN Queue ELSE add_work(Queue, Nop, 1)        \* iscsi_tcp_init
    /\ phase = "loop"
    /\ srv = Server
    /\ conns = profile.conns
    /\ hist = [lost |-> FALSE, mismatch |-> FALSE, expired |-> FALSE]
    /\ left = profile.left

Names(s)     == {s[i].name: i \in DOMAIN s}
First(x)     == x.tg[1].name

-----------------------------------------------------------------------------
(* Messages to the server.                                                 *)

\* isns_connect succeeds when the server is there; a message written to a dead connection is lost.
Reach(x)   == x.fd \/ srv.up
Connect(x) == [x EXCEPT !.fd = TRUE]

Send(x, m) ==
    LET t == (x.trans + 1) % profile.trans
    IN  [x EXCEPT !.trans = t, !.up = IF x.eof THEN @ ELSE Append(@, [m EXCEPT !.trans = t])]

Msg(f, src, name) == [f |-> f, src |-> src, name |-> name, trans |-> 0, all |-> FALSE]

isns_scn_deregister(x, name) == IF Reach(x) THEN Send(Connect(x), Msg("scndereg", name, name)) ELSE x

\* scn_listen_port is known, unless the server's address is one of IPv6 or listening fails.
scn_init == profile.scn

isns_scn_register(x, name) == IF x.tg # << >> /\ Reach(x) THEN Send(Connect(x), Msg("scnreg", name, name)) ELSE x

\* A query is entered at the head of qry_list with its transaction.
Query(x, src, name) ==
    LET y == Send(Connect(x), Msg("qry", src, name)) IN [y EXCEPT !.qry = <<[name |-> name, trans |-> y.trans]>> \o @]

isns_eid_attr_query(x) == IF Reach(x) THEN Query(x, First(x), Eid) ELSE x

\* Without a name the answer is not used: the query only keeps the registration alive.
isns_attr_query(x, name) ==
    IF x.tg = << >> \/ ~Reach(x) THEN x ELSE Query(x, IF name = None THEN First(x) ELSE name, name)

\* mutant: every registration replaces
Replaces_always(x) == TRUE

\* The first registration replaces what the server knows of this entity.
Replaces(x) == x.num = 0

Registered(x, name) ==
    LET y == Send(Connect(x), [Msg("reg", First(x), name) EXCEPT !.all = Replaces(x)])
        z == IF scn_init THEN isns_scn_register(y, name) ELSE y
        e == IF x.num = 0 THEN isns_eid_attr_query(z) ELSE z
    IN  [isns_attr_query(e, name) EXCEPT !.num = @ + 1, !.linked = @ \/ x.num = 0]

isns_target_register(x, name) == IF x.use /\ Reach(x) THEN Registered(x, name) ELSE x

\* The entity goes with its last target.
isns_target_deregister(x, name) ==
    IF ~x.use \/ ~Reach(x) THEN x
    ELSE LET y == isns_scn_deregister([Connect(x) EXCEPT !.num = @ - 1], name)
         IN  Send(y, [Msg("dereg", name, name) EXCEPT !.all = y.num = 0])

\* The work item is added with the first registration and deleted with the last deregistration.
Arm(q, x, y)    == IF x.num = 0 /\ y.num = 1 THEN add_work(q, Timeout, Default) ELSE q
Disarm(q, x, y) == IF x.num = 1 /\ y.num = 0 THEN del_work(q, Timeout) ELSE q

\* With no target left, the first entry of the list is the list's head.
isns_eid_deregister(x) ==
    IF ~Reach(x) THEN x
    ELSE IF x.tg = << >> THEN [x EXCEPT !.crash = TRUE]
    ELSE Send(Connect(x), [Msg("dereg", First(x), First(x)) EXCEPT !.all = TRUE])

-----------------------------------------------------------------------------
(* Management: targets come and go, iSNS is switched on and off.           *)

Free == phase = "loop" /\ ~c.crash

\* A message is lost with this operation, or was before.
Failed(x) == hist.lost \/ (x.use /\ (~Reach(x) \/ x.eof))

iscsi_target_create(name) ==
    LET x == [c EXCEPT !.tg = Append(@, [name |-> name, acl |-> {}])]
    IN  /\ Free /\ left.adm > 0
        /\ name \notin Names(c.tg)
        /\ c' = isns_target_register(x, name)
        /\ wq' = Arm(wq, x, c')
        /\ hist' = [hist EXCEPT !.lost = Failed(x)]
        /\ left' = [left EXCEPT !.adm = @ - 1]
        /\ UNCHANGED <<mode, phase, srv, conns>>

iscsi_target_destroy(name) ==
    LET x == [c EXCEPT !.tg = SelectSeq(@, LAMBDA t: t.name # name)]
    IN  /\ Free /\ left.adm > 0
        /\ name \in Names(c.tg)
        /\ c' = isns_target_deregister(x, name)
        /\ wq' = Disarm(wq, x, c')
        /\ hist' = [hist EXCEPT !.lost = Failed(x)]
        /\ left' = [left EXCEPT !.adm = @ - 1]
        /\ UNCHANGED <<mode, phase, srv, conns>>

\* isns_init registers the targets there are, one after the other.
RegisterAll(x) == FoldLeft(LAMBDA y, t: isns_target_register(y, t.name), x, x.tg)

isns_init ==
    LET x == [c EXCEPT !.use = TRUE, !.part = FALSE]
    IN  /\ c' = IF x.num = 0 THEN RegisterAll(x) ELSE x
        /\ wq' = IF x.num = 0 /\ c'.num > 0 THEN add_work(wq, Timeout, Default) ELSE wq
        /\ hist' = [hist EXCEPT !.lost = @ \/ (x.tg # << >> /\ Failed(x))]

\* The messages still on the way reach the server, its answers find no connection.
Off(x) ==
    [x EXCEPT !.use = FALSE, !.fd = FALSE, !.eof = FALSE, !.down = << >>, !.scn = << >>, !.up = SelectSeq(@, LAMBDA m: m.f # "qry"),
              !.num = 0]

\* The work item is deleted although it may never have been added: then its links are NULL.
isns_exit ==
    LET x == IF c.num = 0 THEN c
             ELSE IF ~c.linked THEN [c EXCEPT !.crash = TRUE]
             ELSE isns_eid_deregister([c EXCEPT !.tg = [i \in DOMAIN @ |-> [@[i] EXCEPT !.acl = {}]]])
    IN  /\ c' = Off(x)
        /\ wq' = IF c.num # 0 THEN del_work(wq, Timeout) ELSE wq
        /\ hist' = [hist EXCEPT !.lost = @ \/ (c.num # 0 /\ Failed(c))]

\* isns_update with iSNS=On or iSNS=Off
isns_update ==
    /\ Free /\ left.adm > 0 /\ profile.toggle
    /\ IF c.use THEN isns_exit ELSE isns_init
    /\ left' = [left EXCEPT !.adm = @ - 1]
    /\ UNCHANGED <<mode, phase, srv, conns>>

-----------------------------------------------------------------------------
(* Messages from the server.                                               *)

\* mutant: the initiators known before stay
SetAcl_grow(x, name, inits) ==
    [x EXCEPT !.tg = [i \in DOMAIN @ |-> IF @[i].name = name THEN [@[i] EXCEPT !.acl = @ \cup inits] ELSE @[i]]]

\* free_all_acl, then the initiators of the answer
SetAcl(x, name, inits) ==
    [x EXCEPT !.tg = [i \in DOMAIN @ |-> IF @[i].name = name THEN [@[i] EXCEPT !.acl = inits] ELSE @[i]]]

\* mutant: all of the period
NewTimeout_full(period) == period % Word

\* Ten seconds, one tick, less than the registration period
NewTimeout(period) == (period - 1) % Word

\* The answer belongs to the first query of the list with its transaction.
qry_rsp_handle(x, m) ==
    LET hits == {i \in DOMAIN x.qry: x.qry[i].trans = m.trans}
        at   == CHOOSE i \in hits: \A j \in hits: i <= j
        q    == x.qry[at]
        y    == [x EXCEPT !.qry = RemoveAt(@, at)]
    IN  IF hits = {} THEN x
        ELSE IF m.status # 0 \/ q.name = None THEN y
        ELSE IF q.name = Eid THEN (IF m.period = 0 THEN y ELSE [y EXCEPT !.timeout = NewTimeout(m.period)])
        ELSE SetAcl(y, q.name, m.inits)

\* The query that qry_rsp_handle takes for m is another one.
Mistaken(x, m) ==
    LET hits == {i \in DOMAIN x.qry: x.qry[i].trans = m.trans}
    IN  hits # {} /\ x.qry[CHOOSE i \in hits: \A j \in hits: i <= j].name # m.name

\* The offset in the receive buffer outlives the connection: with the rest of a message in it, the next ones are cut wrongly.
recv_pdu(x) == ~x.part

\* An answer arrives, or a notification.
isns_handle ==
    LET m == Head(c.down)
        x == [c EXCEPT !.down = Tail(@)]
    IN  /\ Free /\ c.down # << >> /\ c.fd
        /\ c' = IF ~recv_pdu(c) THEN x
                ELSE CASE m.f = "qry" -> qry_rsp_handle(x, m)
                       [] m.f = "scn" -> isns_attr_query(x, m.name)
                       [] OTHER       -> x
        /\ hist' = [hist EXCEPT !.mismatch = @ \/ (recv_pdu(c) /\ m.f = "qry" /\ Mistaken(x, m)), !.lost = @ \/ ~recv_pdu(c)]
        /\ UNCHANGED <<mode, wq, phase, srv, conns, left>>

\* The server closed the connection, perhaps within a message.
isns_handle_close ==
    /\ Free /\ c.fd /\ c.eof /\ c.down = << >>
    /\ \E part \in BOOLEAN: c' = [c EXCEPT !.fd = FALSE, !.eof = FALSE, !.part = @ \/ part]
    /\ UNCHANGED <<mode, wq, phase, srv, conns, hist, left>>

\* A notification on the connection the server opened: it is answered, and the target's initiators are asked for.
isns_scn_handle ==
    /\ Free /\ c.scn # << >>
    /\ c' = isns_attr_query([c EXCEPT !.scn = Tail(@)], Head(c.scn))
    /\ hist' = [hist EXCEPT !.lost = Failed(c)]
    /\ UNCHANGED <<mode, wq, phase, srv, conns, left>>

-----------------------------------------------------------------------------
(* The server (external).                                                  *)

Period == profile.period

\* One message: its effect on the database, and the answer.  Any message renews the registration.
Effect(m) ==
    CASE m.f = "reg"      -> [srv EXCEPT !.nodes = IF m.all THEN {m.name} ELSE IF m.src \in @ THEN @ \cup {m.name} ELSE @]
      [] m.f = "dereg"    -> [srv EXCEPT !.nodes = IF m.all THEN {} ELSE @ \ {m.name}, !.scn = IF m.all THEN {} ELSE @ \ {m.name}]
      [] m.f = "scnreg"   -> [srv EXCEPT !.scn = @ \cup {m.name}]
      [] m.f = "scndereg" -> [srv EXCEPT !.scn = @ \ {m.name}]
      [] OTHER            -> srv

Answer(m) == [f |-> m.f, trans |-> m.trans, name |-> m.name, status |-> IF m.src \in srv.nodes THEN 0 ELSE 1,
              inits |-> srv.inits, period |-> Period]

ServerHandles ==
    /\ srv.up /\ c.up # << >>
    /\ srv' = [Effect(Head(c.up)) EXCEPT !.ttl = Period]
    /\ c' = [c EXCEPT !.up = Tail(@), !.down = IF c.fd /\ ~c.eof /\ Head(c.up).f = "qry" THEN Append(@, Answer(Head(c.up))) ELSE @]
    /\ UNCHANGED <<mode, wq, phase, conns, hist, left>>

\* An initiator comes or goes: the targets registered for notifications are told, on a connection of their own or on ours.
ServerNotifies(i) ==
    LET told == IF c.fd /\ ~c.eof THEN SetToSeq(srv.scn \cap srv.nodes) ELSE << >>
        scn(n) == [f |-> "scn", trans |-> 0, name |-> n, status |-> 0, inits |-> {}, period |-> 0]
    IN  /\ srv.up /\ left.inits > 0
        /\ srv' = [srv EXCEPT !.inits = IF i \in @ THEN @ \ {i} ELSE @ \cup {i}]
        /\ \/ c' = [c EXCEPT !.scn = @ \o told]
           \/ c' = [c EXCEPT !.down = @ \o [k \in DOMAIN told |-> scn(told[k])]]
        /\ left' = [left EXCEPT !.inits = @ - 1]
        /\ UNCHANGED <<mode, wq, phase, conns, hist>>

\* The server's host fails and comes back with its database.
ServerFails ==
    /\ left.fails > 0
    /\ srv' = [srv EXCEPT !.up = ~@]
    /\ c' = [c EXCEPT !.eof = @ \/ c.fd, !.up = << >>, !.scn = << >>]
    /\ hist' = [hist EXCEPT !.lost = TRUE]
    /\ left' = [left EXCEPT !.fails = @ - 1]
    /\ UNCHANGED <<mode, wq, phase, conns>>

-----------------------------------------------------------------------------
(* Time.                                                                   *)

Live(k)   == conns[k].open
Pinged(k) == Live(k) /\ conns[k].pings > 0

\* A tick passes when all that can happen at once has happened.  left.ticks = -1 stands for ever.
Tick ==
    /\ Free /\ left.ticks # 0
    /\ c.up = << >> \/ ~srv.up
    /\ c.down = << >> /\ c.scn = << >> /\ ~c.eof
    /\ \A k \in DOMAIN conns: Pinged(k) => conns[k].peer # "prompt"
    /\ wq' = [wq EXCEPT !.now = (@ + 1) % Word]
    /\ phase' = "due"
    /\ srv' = IF srv.ttl = 1 /\ srv.up THEN [srv EXCEPT !.ttl = 0, !.nodes = {}] ELSE [srv EXCEPT !.ttl = IF @ > 0 /\ srv.up THEN @ - 1 ELSE @]
    /\ hist' = [hist EXCEPT !.expired = @ \/ (srv.ttl = 1 /\ srv.up /\ c.tg # << >> /\ srv.nodes # {})]
    /\ left' = [left EXCEPT !.ticks = IF @ > 0 THEN @ - 1 ELSE @]
    /\ UNCHANGED <<mode, c, conns>>

\* work_timer_evt_handler and the first loop of execute_work
work_timer_evt_handler ==
    /\ phase = "due"
    /\ wq' = MakeDue(wq)
    /\ phase' = "work"
    /\ UNCHANGED <<mode, c, srv, conns, hist, left>>

isns_timeout_fn ==
    /\ c' = isns_attr_query(c, None)
    /\ wq' = add_work([wq EXCEPT !.active = Tail(@)], Timeout, c.timeout)
    /\ hist' = [hist EXCEPT !.lost = Failed(c)]
    /\ UNCHANGED conns

Ticking(k) == Live(k) /\ conns[k].interval > 0
Expires(k) == Ticking(k) /\ conns[k].tick <= 1
TimedOut(k) == Expires(k) /\ conns[k].inflight + 1 > conns[k].count

\* The list is walked up to the first connection that timed out.
Stop == {k \in DOMAIN conns: TimedOut(k) /\ \A j \in 1..(k - 1): ~TimedOut(j)}

\* mutant: the count of unanswered pings starts again with every ping
Nopped_reset(k) ==
    IF ~Ticking(k) \/ (\E j \in Stop: j < k) THEN conns[k]
    ELSE IF ~Expires(k) THEN [conns[k] EXCEPT !.tick = @ - 1]
    ELSE IF TimedOut(k) THEN [conns[k] EXCEPT !.open = FALSE, !.interval = 0, !.pings = 0, !.inflight = 0]
    ELSE [conns[k] EXCEPT !.tick = conns[k].interval, !.inflight = 0, !.pings = 1]

\* What the handler makes of connection k: conn_close sets its interval to zero.
Nopped(k) ==
    IF ~Ticking(k) \/ (\E j \in Stop: j < k) THEN conns[k]
    ELSE IF ~Expires(k) THEN [conns[k] EXCEPT !.tick = @ - 1]
    ELSE IF TimedOut(k) THEN [conns[k] EXCEPT !.open = FALSE, !.interval = 0, !.pings = 0, !.inflight = 0]
    ELSE [conns[k] EXCEPT !.tick = conns[k].interval, !.inflight = @ + 1, !.pings = @ + 1]

iscsi_tcp_nop_work_handler ==
    /\ conns' = [k \in DOMAIN conns |-> Nopped(k)]
    /\ wq' = add_work([wq EXCEPT !.active = Tail(@)], Nop, 1)
    /\ UNCHANGED <<c, hist>>

\* The second loop of execute_work
execute_work ==
    /\ phase = "work"
    /\ \/ wq.active = << >> /\ phase' = "loop" /\ UNCHANGED <<c, wq, conns, hist>>
       \/ wq.active # << >> /\ wq.active[1].work = Timeout /\ isns_timeout_fn /\ UNCHANGED phase
       \/ wq.active # << >> /\ wq.active[1].work = Nop /\ iscsi_tcp_nop_work_handler /\ UNCHANGED phase
    /\ UNCHANGED <<mode, srv, left>>

\* The peer answers the oldest ping: only the answer with the last ping's tag resets the count.
iscsi_tcp_nop_reply(k) ==
    /\ Free /\ Pinged(k) /\ conns[k].peer # "dead"
    /\ conns' = [conns EXCEPT ![k].pings = @ - 1, ![k].inflight = IF conns[k].pings = 1 THEN 0 ELSE @]
    /\ UNCHANGED <<mode, c, wq, phase, srv, hist, left>>

\* A peer stops answering.
PeerDies(k) ==
    /\ Live(k) /\ conns[k].peer # "dead"
    /\ conns' = [conns EXCEPT ![k].peer = "dead"]
    /\ UNCHANGED <<mode, c, wq, phase, srv, hist, left>>

Next ==
    \/ \E name \in profile.names: iscsi_target_create(name) \/ iscsi_target_destroy(name)
    \/ isns_update
    \/ isns_handle \/ isns_handle_close \/ isns_scn_handle
    \/ ServerHandles \/ ServerFails
    \/ \E i \in profile.inits: ServerNotifies(i)
    \/ Tick \/ work_timer_evt_handler \/ execute_work
    \/ \E k \in DOMAIN conns: iscsi_tcp_nop_reply(k) \/ PeerDies(k)

\* The main thread runs the handlers of its events, the server and living peers answer, and time passes.
Fairness ==
    /\ WF_vars(Tick) /\ WF_vars(work_timer_evt_handler) /\ WF_vars(execute_work)
    /\ WF_vars(isns_handle) /\ WF_vars(isns_handle_close) /\ WF_vars(isns_scn_handle) /\ WF_vars(ServerHandles)
    /\ \A k \in 1..2: WF_vars(k \in DOMAIN conns /\ iscsi_tcp_nop_reply(k))

Spec == Init /\ [][Next]_vars /\ Fairness

-----------------------------------------------------------------------------
TypeOK ==
    /\ c.num \in -3..3 /\ c.trans \in 0..(profile.trans - 1) /\ c.timeout \in 0..(Word - 1)
    /\ phase \in {"loop", "due", "work"}
    /\ \A i, j \in DOMAIN wq.inactive: i < j => ~before(wq.inactive[j].when, wq.inactive[i].when)

Settled == Free /\ c.up = << >> /\ c.down = << >> /\ c.scn = << >>

\* The server's list of targets is tgtd's, whatever the order in which targets were created and destroyed and iSNS was
\* switched on, as long as no message was lost.
ServerAgrees == Settled /\ c.use /\ ~hist.lost /\ ~hist.expired => srv.nodes = Names(c.tg)

\* Once all notifications, queries and answers arrived, each target admits the initiators the server knows: of the queries
\* sent for creations and notifications, the last answer counts.
AclCurrent == Settled /\ c.use /\ profile.scn /\ ~hist.lost => \A i \in DOMAIN c.tg: c.tg[i].acl = srv.inits

\* An answer is taken for the query it answers, also when the transaction number has been used before and the older query
\* was never answered.
QueryMatched == ~hist.mismatch

\* The keep-alive work is queued exactly while targets are registered, also when registrations failed: it is never added
\* to its list twice, nor left on it.
TimerArmed == phase = "loop" /\ ~c.crash => (Queued(wq, Timeout) <=> c.use /\ c.num > 0)

\* The registration does not expire while the server can be reached: the queries are sent in time.
NotExpired == ~hist.lost => ~hist.expired

\* A connection whose peer answers every ping before the next one is not closed.
AliveKept == \A k \in DOMAIN conns: conns[k].peer = "prompt" => Live(k)

\* The server's list of targets is the daemon's (isns_target_register, isns_target_deregister).
TargetsKnown == TypeOK /\ ServerAgrees

\* Answers reach the query they are for, and the last one counts (isns_handle, qry_rsp_handle).
AnswersApplied == AclCurrent /\ QueryMatched

\* The keep-alive of the registration runs when it must (isns_timeout, isns_attr_query).
KeptAlive == TimerArmed /\ NotExpired

\* A connection whose peer stopped answering is closed in the end, although the timeout of one connection ends the walk of
\* the list for the others; one whose peer answers is not.
DeadClosed ==
    /\ []AliveKept
    /\ \A k \in 1..2: (k \in DOMAIN conns /\ conns[k].peer = "dead") ~> (k \in DOMAIN conns /\ ~Live(k))
=============================================================================
