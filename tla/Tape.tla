-------------------------------- MODULE Tape --------------------------------
(* The virtual tape drive: the block list of a cartridge file (libssc.c,   *)
(* tgtimg.c), the worker thread that runs stream commands on it            *)
(* (bs_ssc.c), and what the event loop does to the drive meanwhile:        *)
(* commands (ssc.c), media loaded and ejected (target.c, spc.c).  A file   *)
(* is a function from offsets to cells; a header takes one cell, the MAM   *)
(* one, and each unit of block data one.                                   *)
EXTENDS Integers, Sequences, FiniteSets, SequencesExt

CONSTANTS Carts,       \* the cartridge files
          Fds,         \* the descriptors open() may return; 0 is /dev/null, and -1 none
          MaxOffset,   \* cells of a file; no block is begun behind the last MaxBlock of them
          MaxBlock,    \* the largest block
          Profiles,    \* what a behaviour contains, by name
          None

VARIABLES mode,   \* the name of the profile
          file,   \* the cells of each cartridge
          fd,     \* what a descriptor names: a cartridge, "null" or "closed"
          drv,    \* the logical unit: path, fd, online, h (c_blk), bl (block length), prevent,
                  \* by (who named its path)
          wk,     \* the worker thread: pc, command, what remains of it
          left,   \* commands the initiator may still send
          rec,    \* history: the blocks a cartridge must hold; none of a drive without one
          pos,    \* history: the block the drive must stand at
          bad,    \* history: cartridges with a failed write, files that are no cartridge, and None
          raced   \* history: cartridges named by the drive while the other was swapped under a command

tapeVars == <<mode, file, fd, drv, wk, left, rec, pos, bad, raced>>
profile  == Profiles[mode]

Offsets == 0..MaxOffset
FirstHdr == 2     \* sizeof(struct MAM) + SSC_BLK_HDR_SIZE

Hdr(t, sz, prev, curr, next) == [t |-> t, sz |-> sz, prev |-> prev, curr |-> curr, next |-> next]
Data(v)    == [t |-> "DATA", v |-> v]
NoCell     == [t |-> "NONE"]
HdrTypes   == {"BOT", "BLOCK", "FM", "EOD"}
IsHdr(x)   == x.t \in HdrTypes

\* tgtimg's ssc_new: a blank cartridge.
ssc_new ==
    [o \in Offsets |-> CASE o = 0        -> Hdr("BOT", 0, 0, 0, FirstHdr)
                         [] o = FirstHdr -> Hdr("EOD", 0, 0, FirstHdr, FirstHdr)
                         [] o = 1        -> [t |-> "MAM"]
                         [] OTHER        -> NoCell]

----------------------------------------------------------------------------
(* libssc.c                                                                *)

Opened(f) == f \in DOMAIN fd /\ fd[f] \in Carts

\* ssc_read_blkhdr.  A short read is an error; bytes that are no header are taken for one
\* (the checksum only prints a message): t is then not a header's.
ssc_read_blkhdr(f, o) == IF Opened(f) /\ o \in Offsets THEN file[fd[f]][o] ELSE NoCell

\* ssc_write_blkhdr and the pwrite of the data: cells written at o.  /dev/null takes
\* everything and a closed descriptor nothing.
Written(f, o, cells) ==
    IF Opened(f) THEN [file EXCEPT ![fd[f]] = [p \in Offsets |-> IF p - o + 1 \in DOMAIN cells THEN cells[p - o + 1] ELSE @[p]]]
                 ELSE file

----------------------------------------------------------------------------
(* bs_ssc.c: the worker.  A step of it is one system call on the file.     *)

Idle == [pc |-> "idle", op |-> "none", n |-> 0, sz |-> 0, v |-> 0, fd |-> 0, cur |-> NoCell, for |-> None]

\* The command is answered; at is the block the drive stands at according to the answer.
Answer(at) == wk' = Idle /\ pos' = at

\* After a read that was no header nothing is known of the drive.
Lost == wk' = [Idle EXCEPT !.pc = "lost"] /\ UNCHANGED pos

\* skip_next_header, skip_prev_header, and the two headers of resp_rewind.
skip_next_header(h) == ssc_read_blkhdr(drv.fd, h.next)

skip_prev_header(h) ==
    LET p == ssc_read_blkhdr(drv.fd, h.prev)
    IN IF p.t = "BOT" THEN ssc_read_blkhdr(drv.fd, p.next) ELSE p

resp_rewind ==
    LET b == ssc_read_blkhdr(drv.fd, 0)
    IN IF IsHdr(b) THEN ssc_read_blkhdr(drv.fd, b.next) ELSE b

\* The worker reads header h: next when it is one.
Moved(h, next) ==
    /\ \/ IsHdr(h) /\ drv' = [drv EXCEPT !.h = h] /\ next
       \/ h.t = "NONE" /\ UNCHANGED drv /\ Answer(pos)      \* ASC_MEDIUM_FORMAT_CORRUPT
       \/ ~IsHdr(h) /\ h.t # "NONE" /\ UNCHANGED drv /\ Lost
    /\ UNCHANGED <<mode, file, fd, left, rec, bad, raced>>

Rewind == wk.pc = "go" /\ wk.op = "rewind" /\ Moved(resp_rewind, Answer(0))

\* What remains of the command is n, and the drive stands at block p.
Goon(n, p) == wk' = [wk EXCEPT !.n = n] /\ pos' = p

Stay(p) == Answer(p) /\ UNCHANGED <<mode, file, fd, drv, left, rec, bad, raced>>

space_blocks ==
    /\ wk.pc = "go" /\ wk.op = "blocks"
    /\ \/ wk.n = 0 /\ Stay(pos)
       \/ wk.n > 0 /\ LET h == skip_next_header(drv.h)
                      IN Moved(h, IF h.t = "EOD" THEN Answer(IF drv.h.t = "EOD" THEN pos ELSE pos + 1) ELSE Goon(wk.n - 1, pos + 1))
       \/ wk.n < 0 /\ Moved(skip_prev_header(drv.h), Goon(wk.n + 1, IF pos = 0 THEN 0 ELSE pos - 1))

space_filemark_forward ==
    LET n == wk.n - (IF drv.h.t = "FM" THEN 1 ELSE 0)
    IN IF drv.h.t = "EOD" THEN Stay(pos)
       ELSE Moved(skip_next_header(drv.h), IF n > 0 THEN Goon(n, pos + 1) ELSE Answer(pos + 1))

\* mutant: does not stop at the first block
space_filemark_reverse_on ==
    LET n == wk.n + (IF drv.h.t = "FM" THEN 1 ELSE 0)
        p == IF pos = 0 THEN 0 ELSE pos - 1
    IN Moved(skip_prev_header(drv.h), IF n < 0 THEN Goon(n, p) ELSE Answer(p))

space_filemark_reverse ==
    LET n == wk.n + (IF drv.h.t = "FM" THEN 1 ELSE 0)
    IN IF drv.h.prev = 0 THEN Stay(pos)
       ELSE Moved(skip_prev_header(drv.h), IF n < 0 THEN Goon(n, pos - 1) ELSE Answer(pos - 1))

space_filemark ==
    /\ wk.pc = "go" /\ wk.op = "marks"
    /\ \/ wk.n > 0 /\ space_filemark_forward
       \/ wk.n < 0 /\ space_filemark_reverse
       \/ wk.n = 0 /\ Stay(pos)

\* SPACE to the end of data
SpaceEod ==
    /\ wk.pc = "go" /\ wk.op = "eod"
    /\ IF drv.h.t = "EOD" THEN Stay(Len(rec[wk.for])) ELSE Moved(skip_next_header(drv.h), Goon(0, pos + 1))

\* resp_var_read, of sz units.  The bytes are those behind the header.
resp_var_read ==
    /\ wk.pc = "go" /\ wk.op = "read"
    /\ IF wk.sz # drv.h.sz /\ (wk.sz = 0 \/ drv.h.sz = 0) /\ drv.h.t # "FM" THEN Stay(pos)
       ELSE IF ~Opened(drv.fd) /\ drv.h.t # "FM" THEN Stay(pos)                \* ASC_READ_ERROR
       ELSE Moved(skip_next_header(drv.h), Answer(IF drv.h.t = "EOD" THEN pos ELSE pos + 1))

\* resp_fixed_read, of n blocks of the block length of the mode pages
resp_fixed_read ==
    /\ wk.pc = "go" /\ wk.op = "readn"
    /\ \/ wk.n = 0 /\ Stay(pos)
       \/ wk.n > 0 /\ drv.h.t = "FM" /\ Moved(skip_next_header(drv.h), Answer(pos + 1))
       \/ wk.n > 0 /\ drv.h.t # "FM" /\ (wk.sz # drv.h.sz \/ ~Opened(drv.fd)) /\ Stay(pos)
       \/ /\ wk.n > 0 /\ drv.h.t # "FM" /\ wk.sz = drv.h.sz /\ Opened(drv.fd)
          /\ Moved(skip_next_header(drv.h), Goon(wk.n - 1, IF drv.h.t = "EOD" THEN pos ELSE pos + 1))

\* mutant: the end of data does not lead back
EodAfter_first(cur) == Hdr("EOD", 0, 0, cur.next, cur.next)

\* append_blk: the header of the block at the position, the mark of the end of data behind
\* it, and the data; the position in memory moves first.
EodAfter(cur) == Hdr("EOD", 0, cur.curr, cur.next, cur.next)

append_blk ==
    LET cur == Hdr(IF wk.op = "marks!" THEN "FM" ELSE "BLOCK", wk.sz, drv.h.prev, drv.h.curr, drv.h.curr + wk.sz + 1)
    IN /\ wk.pc = "go" /\ wk.op \in {"write", "marks!"} /\ wk.n > 0
       /\ wk' = [wk EXCEPT !.pc = "header", !.fd = drv.fd, !.cur = cur]
       /\ drv' = [drv EXCEPT !.h = EodAfter(cur)]
       /\ rec' = [rec EXCEPT ![wk.for] = SubSeq(@, 1, Min({pos, Len(@)}))]
       /\ UNCHANGED <<mode, file, fd, left, pos, bad, raced>>

Blk(f, o) == [t |-> f[o].t, data |-> [i \in 1..f[o].sz |-> f[o + i]]]

\* The block is complete: a filemark has no data.
Appended ==
    /\ wk' = [wk EXCEPT !.pc = "go", !.n = @ - 1]
    /\ pos' = pos + 1
    /\ rec' = IF wk.for \in bad \cup raced THEN rec
              ELSE [rec EXCEPT ![wk.for] = Append(@, [t |-> wk.cur.t, data |-> [i \in 1..wk.sz |-> Data(wk.v)]])]

\* mutant: steps back over the block in front
WriteFails_back ==
    /\ wk.pc \in {"header", "mark", "data"}
    /\ ("write" \in profile.faults \/ fd[wk.fd] = "closed")
    /\ bad' = bad \cup {wk.for}
    /\ drv' = [drv EXCEPT !.h = IF IsHdr(skip_prev_header(wk.cur)) THEN skip_prev_header(wk.cur) ELSE @]
    /\ Answer(pos)
    /\ UNCHANGED <<mode, file, fd, left, rec, raced>>

\* A write of append_blk fails; WRITE FILEMARKS goes on, WRITE answers.
WriteFails ==
    /\ wk.pc \in {"header", "mark", "data"}
    /\ ("write" \in profile.faults \/ fd[wk.fd] = "closed")
    /\ bad' = bad \cup {wk.for}
    /\ IF wk.op = "marks!" THEN wk' = [wk EXCEPT !.pc = "go", !.n = @ - 1] /\ pos' = pos ELSE Answer(pos)
    /\ UNCHANGED <<mode, file, fd, drv, left, rec, raced>>

Write(o, cells) ==
    /\ fd[wk.fd] # "closed"
    /\ file' = Written(wk.fd, o, cells)
    /\ UNCHANGED <<mode, fd, drv, left, bad, raced>>

WriteHeader ==
    /\ wk.pc = "header"
    /\ Write(wk.cur.curr, <<wk.cur>>)
    /\ wk' = [wk EXCEPT !.pc = "mark"]
    /\ UNCHANGED <<rec, pos>>

WriteMark ==
    /\ wk.pc = "mark"
    /\ Write(wk.cur.next, <<EodAfter(wk.cur)>>)
    /\ IF wk.sz = 0 THEN Appended ELSE wk' = [wk EXCEPT !.pc = "data"] /\ UNCHANGED <<rec, pos>>

WriteData ==
    /\ wk.pc = "data"
    /\ Write(wk.cur.curr + 1, [i \in 1..wk.sz |-> Data(wk.v)])
    /\ Appended

\* The last block of WRITE or WRITE FILEMARKS is written.
WriteDone == wk.pc = "go" /\ wk.op \in {"write", "marks!"} /\ wk.n = 0 /\ Stay(pos)

tape_rdwr_request ==
    \/ Rewind \/ space_blocks \/ space_filemark \/ SpaceEod \/ resp_var_read \/ resp_fixed_read
    \/ append_blk \/ WriteHeader \/ WriteMark \/ WriteData \/ WriteDone \/ WriteFails

----------------------------------------------------------------------------
(* The event loop                                                          *)

\* ssc_rw: a command for a unit that is online goes to the worker, also when its medium is
\* gone (START with LOEJ does not look).  Fixed blocks take the length of the mode pages
\* when the command runs.
ssc_rw ==
    /\ wk.pc = "idle" /\ left > 0 /\ drv.online
    /\ drv.h.curr + 1 + MaxBlock \in Offsets
    /\ \E c \in profile.ops :
         /\ c.op \in {"write", "marks!"} => drv.h.curr + c.n * (1 + c.sz) + MaxBlock \in Offsets
         /\ wk' = [Idle EXCEPT !.pc = "go", !.op = c.op, !.n = c.n, !.v = c.v, !.for = drv.path,
                               !.sz = IF c.fixed THEN drv.bl ELSE c.sz]
    /\ left' = left - 1
    /\ UNCHANGED <<mode, file, fd, drv, rec, pos, bad, raced>>

lu_prevent_removal == drv.prevent

\* bs_close: closed while the worker may be using it
bs_close == IF drv.path = None THEN fd ELSE [fd EXCEPT ![drv.fd] = "closed"]

\* What a swap of the medium makes of the histories: with a command in the worker both the
\* old and the new one are no longer known.
Swapped(path) ==
    /\ raced' = IF wk.pc = "idle" THEN raced ELSE raced \cup ({drv.path, path} \cap Carts)
    /\ pos' = 0
    /\ UNCHANGED <<mode, file, left, rec, bad>>

\* bs_ssc_open: open returns a free descriptor, and the drive stands at the first block.  A
\* file that is no cartridge is an error only then: the header in memory stays.
Open(fs, path, f) == f \in Fds /\ fs[f] = "closed" /\ fd' = [fs EXCEPT ![f] = path]

FirstBlock(path) == IF path \in profile.foreign THEN drv.h ELSE file[path][file[path][0].next]

Loaded(path, f, by) ==
    drv' = [drv EXCEPT !.path = path, !.fd = f, !.online = TRUE, !.by = by, !.h = FirstBlock(path)]

Unloaded(f, by) == drv' = [drv EXCEPT !.path = None, !.fd = f, !.online = FALSE, !.by = by]

\* dtd_load_unload, for the changer.  LOAD of a file that cannot be opened empties the drive
\* and leaves it the descriptor -1; only the descriptor is looked at, and a file that is no
\* cartridge is loaded.
dtd_unload ==
    \/ lu_prevent_removal /\ UNCHANGED tapeVars
    \/ ~lu_prevent_removal /\ fd' = bs_close /\ Unloaded(0, "changer") /\ Swapped(None) /\ UNCHANGED wk

dtd_load(path) ==
    /\ \/ path \in profile.missing /\ fd' = bs_close /\ Unloaded(-1, "changer")
       \/ path \notin profile.missing /\ \E f \in Fds : Open(bs_close, path, f) /\ Loaded(path, f, "changer")
    /\ Swapped(path)
    /\ UNCHANGED wk

\* tgt_device_path_update: tgtadm names another file for a unit that is offline.  Here any
\* error of bs_ssc_open counts; the descriptor of a file that is no cartridge stays open.
Refused(path) ==
    /\ \/ path \in profile.missing /\ fd' = bs_close
       \/ path \in profile.foreign /\ \E f \in Fds : Open(bs_close, path, f)
    /\ IF drv.path = None THEN UNCHANGED drv ELSE Unloaded(0, "admin")

tgt_device_path_update ==
    /\ "path" \in profile.adm /\ ~(drv.path # None /\ (drv.online \/ lu_prevent_removal))
    /\ \E path \in Carts :
         \/ Refused(path) /\ Swapped(None)
         \/ /\ path \notin profile.missing \cup profile.foreign
            /\ \E f \in Fds : Open(bs_close, path, f) /\ Loaded(path, f, "admin")
            /\ Swapped(path)
    /\ UNCHANGED wk

\* spc_start_stop with LOEJ, and tgtadm's online parameter: the medium is ejected or put
\* back, its file stays open.
spc_lu_online  == ~drv.online /\ drv' = [drv EXCEPT !.online = TRUE]

spc_lu_offline == drv.online /\ ~lu_prevent_removal /\ drv' = [drv EXCEPT !.online = FALSE]

spc_start_stop ==
    /\ "eject" \in profile.adm
    /\ spc_lu_online \/ spc_lu_offline
    /\ UNCHANGED <<mode, file, fd, wk, left, rec, pos, bad, raced>>

spc_prevent_allow_media_removal ==
    /\ "prevent" \in profile.adm
    /\ drv' = [drv EXCEPT !.prevent = ~@]
    /\ UNCHANGED <<mode, file, fd, wk, left, rec, pos, bad, raced>>

TapeAdmin == tgt_device_path_update \/ spc_start_stop \/ spc_prevent_allow_media_removal

\* A unit that was created with a backing file, or without.
TapeInit(path) ==
    /\ file = [c \in Carts |-> IF c \in profile.foreign THEN [o \in Offsets |-> NoCell] ELSE ssc_new]
    /\ fd = [f \in Fds \cup {-1, 0} |-> IF f = 0 THEN "null" ELSE IF f = 1 /\ path # None THEN path ELSE "closed"]
    /\ drv = [path |-> path, fd |-> IF path = None THEN 0 ELSE 1, online |-> path # None, h |-> ssc_new[FirstHdr],
              bl |-> profile.bl, prevent |-> FALSE, by |-> "admin"]
    /\ wk = Idle /\ left = profile.cmds
    /\ rec = [c \in Carts \cup {None} |-> << >>]
    /\ pos = 0 /\ bad = profile.foreign \cup {None} /\ raced = {}
=============================================================================
