------------------------------ MODULE Library ------------------------------
(* The medium changer (smc.c) and the tape drive it serves: a virtual tape *)
(* library.  The changer's commands and its configuration by tgtadm run in *)
(* the event loop; each handler is one step.                               *)
EXTENDS Tape

VARIABLES slots,  \* the elements of the changer, in the order they were added
          page    \* the quantities of the element address mode page, by type

vars == <<tapeVars, slots, page>>

Storage == 2
Drive   == 4

Slot(type, addr) == [type |-> type, addr |-> addr, full |-> FALSE, code |-> None, last |-> 0, drive |-> FALSE]

InDrive(i)  == slots[i].type = Drive
With(i, s)  == [slots EXCEPT ![i] = s]

test_slot_full(i) == slots[i].full

\* The last slot with the address is the one smc_move_medium finds.
SlotAt(addr) == {i \in DOMAIN slots : slots[i].addr = addr /\ \A j \in DOMAIN slots : slots[j].addr = addr => j <= i}

\* check_slot_removable, dtd_check_removable: also refused for a drive that was not configured
check_slot_removable(i) == slots[i].drive /\ ~lu_prevent_removal

set_slot_empty_last(s) == [s EXCEPT !.last = 0]    \* mutant: status and barcode stay

set_slot_empty(s) == [s EXCEPT !.full = FALSE, !.last = 0, !.code = None]

\* set_slot_full, of a slot that has its barcode already
set_slot_full(s, src) == [s EXCEPT !.full = TRUE, !.last = src]

\* The destination drive after its load: a failed one leaves the barcode but not the medium.
Load(s, src) == IF s.drive /\ ~lu_prevent_removal /\ s.code \notin profile.missing THEN set_slot_full(s, src) ELSE s

\* smc_move_medium, from slot i to slot j.  There is one drive, so that no move loads one drive
\* and unloads another.
Move(i, j) ==
    LET d  == [slots[j] EXCEPT !.code = slots[i].code]
        d2 == IF InDrive(j) THEN Load(d, slots[i].addr) ELSE set_slot_full(d, slots[i].addr)
    IN /\ slots' = IF d2.full THEN [slots EXCEPT ![j] = d2, ![i] = set_slot_empty(slots[i])] ELSE With(j, d2)
       /\ UNCHANGED page
       /\ \/ InDrive(j) /\ d.drive /\ ~lu_prevent_removal /\ dtd_load(d.code)
          \/ InDrive(j) /\ ~(d.drive /\ ~lu_prevent_removal) /\ UNCHANGED tapeVars
          \/ ~InDrive(j) /\ InDrive(i) /\ dtd_unload
          \/ ~InDrive(j) /\ ~InDrive(i) /\ UNCHANGED tapeVars

smc_move_medium ==
    \E src, dst \in profile.moves : \E i \in SlotAt(src), j \in SlotAt(dst) :
        /\ test_slot_full(i) /\ ~test_slot_full(j)
        /\ InDrive(i) => check_slot_removable(i)
        /\ Move(i, j)

\* slot_lookup of a type and an address: the first one
slot_lookup(type, addr) ==
    {i \in DOMAIN slots : /\ slots[i].type = type /\ slots[i].addr = addr
                          /\ \A j \in DOMAIN slots : slots[j].type = type /\ slots[j].addr = addr => i <= j}

\* add_slt: the mode page counts the new elements before an address in use refuses them.
Quantity(type, n) == [page EXCEPT ![type] = @ + n]

add_slt ==
    \E c \in profile.add :
        /\ Len(slots) < profile.maxslots /\ page[c.type] < profile.maxslots
        /\ page' = Quantity(c.type, c.n)
        /\ slots' = IF slot_lookup(c.type, c.addr) # {} THEN slots
                    ELSE slots \o [k \in 1..c.n |-> Slot(c.type, c.addr + k - 1)]
        /\ UNCHANGED tapeVars

\* config_slot: a storage element gets a medium or is cleared; a drive is tied to its unit.
\* The operator puts a cartridge into one slot only.
config_slot ==
    /\ "config" \in profile.adm
    /\ \/ \E a \in profile.moves : \E i \in slot_lookup(Storage, a) :
            \/ slots' = With(i, set_slot_empty(slots[i]))
            \/ \E c \in Carts : /\ \A j \in DOMAIN slots : slots[j].full => slots[j].code # c
                                /\ slots' = With(i, set_slot_full([slots[i] EXCEPT !.code = c], 0))
       \/ \E a \in profile.moves : \E i \in slot_lookup(Drive, a) : slots' = With(i, [slots[i] EXCEPT !.drive = TRUE])
    /\ UNCHANGED <<tapeVars, page>>

Init ==
    /\ mode \in DOMAIN Profiles
    /\ slots = profile.slots
    /\ page = [t \in {Storage, Drive} |-> Cardinality({i \in DOMAIN slots : slots[i].type = t})]
    /\ TapeInit(profile.path)

Changer == smc_move_medium \/ add_slt \/ config_slot

Next == \/ (ssc_rw \/ tape_rdwr_request \/ TapeAdmin) /\ UNCHANGED <<slots, page>>
        \/ Changer

Spec == Init /\ [][Next]_vars /\ WF_vars(tape_rdwr_request /\ UNCHANGED <<slots, page>>)

----------------------------------------------------------------------------
(* Properties                                                              *)

RECURSIVE ChainFrom(_, _, _)

\* The offsets of the headers from o on; -1 ends a list that is broken.
ChainFrom(f, o, n) ==
    IF n = 0 \/ o \notin Offsets THEN <<-1>>
    ELSE IF ~IsHdr(f[o]) THEN <<-1>>
    ELSE IF f[o].t = "EOD" THEN <<o>>
    ELSE <<o>> \o ChainFrom(f, f[o].next, n - 1)

Chain(c)   == ChainFrom(file[c], FirstHdr, MaxOffset)
Blocks(c)  == [i \in 1..(Len(Chain(c)) - 1) |-> Blk(file[c], Chain(c)[i])]
Known      == Carts \ (bad \cup raced)
InWrite(c) == wk.for = c /\ wk.pc \in {"header", "mark", "data"}

TypeOK ==
    /\ \A c \in Carts, o \in Offsets : file[c][o].t \in HdrTypes \cup {"DATA", "MAM", "NONE"}
    /\ fd \in [Fds \cup {-1, 0} -> Carts \cup {"null", "closed"}]
    /\ drv.path \in Carts \cup {None} /\ drv.fd \in DOMAIN fd /\ IsHdr(drv.h)
    /\ wk.pc \in {"idle", "go", "header", "mark", "data", "lost"}

\* Between commands the blocks on a cartridge are those that were written to it, in a list
\* linked both ways that ends with the mark of the end of data (append_blk).
ListWhole ==
    \A c \in Known : ~InWrite(c) =>
        /\ Last(Chain(c)) # -1 /\ Blocks(c) = rec[c]
        /\ \A i \in DOMAIN Chain(c) : file[c][Chain(c)[i]].prev = IF i = 1 THEN 0 ELSE Chain(c)[i - 1]

\* In every state, so also after a crash in the middle of append_blk or after a write that
\* failed, the blocks in front of the one being written are on the cartridge.
PrefixKept ==
    \A c \in Carts \ raced : Len(rec[c]) <= Len(Blocks(c)) /\ SubSeq(Blocks(c), 1, Len(rec[c])) = rec[c]

\* Between commands the drive stands at the block that the answers say, and holds its header
\* as it is on the cartridge (skip_next_header, skip_prev_header, bs_ssc_open).
PositionKnown ==
    wk.pc = "idle" /\ drv.path \in Known =>
        /\ pos + 1 \in DOMAIN Chain(drv.path)
        /\ drv.h = file[drv.path][Chain(drv.path)[pos + 1]]

\* The list of blocks and the position in it are whole between commands.
TapeWhole == TypeOK /\ ListWhole /\ PositionKnown

\* A medium is in one place at most (smc_move_medium, config_slot).
OnePlace ==
    \A i, j \in DOMAIN slots : slots[i].full /\ slots[j].full /\ slots[i].code = slots[j].code => i = j

\* The changer and the drive agree: the drive element is full with the medium whose file the
\* drive has open, unless tgtadm named the file (set_slot_full, set_slot_empty, dtd_load_unload).
DriveAgrees ==
    drv.by = "changer" =>
        \A i \in DOMAIN slots : slots[i].type = Drive /\ slots[i].drive =>
            /\ slots[i].full <=> drv.path # None
            /\ slots[i].full => slots[i].code = drv.path /\ fd[drv.fd] = drv.path

\* The mode page never counts fewer elements than there are (add_slt).
PageCounts == \A t \in DOMAIN page : Cardinality({i \in DOMAIN slots : slots[i].type = t}) <= page[t]

\* A drive whose medium may not be removed keeps it (lu_prevent_removal), whoever asks.
PreventKeeps ==
    [][drv.prevent /\ drv'.prevent /\ drv.path # None => drv'.path = drv.path /\ (drv.online => drv'.online)]_vars

\* Whatever the changer, the drive and tgtadm do to the media, their views agree.
ChangerAgrees == [](OnePlace /\ DriveAgrees /\ PageCounts) /\ PreventKeeps

\* Every command ends, the loops over the block list included.
Completes == (wk.pc # "idle") ~> (wk.pc \in {"idle", "lost"})

=============================================================================
