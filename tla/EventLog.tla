------------------------------ MODULE EventLog ------------------------------
(***************************************************************************)
(* The EventLog of scirust/src/eventlog.rs: an append-only file of         *)
(* fixed-size records behind a header, its handle, and the crashes and I/O *)
(* failures it is exposed to.                                              *)
(*                                                                         *)
(* A record is RecordCells cells long, so that partial writes, torn tails  *)
(* and misframing exist; a cell is [id, part], part number `part' of the   *)
(* record written by append number `id'. The version-2 checksum accepts a  *)
(* frame iff its cells are parts 1, 2, ... of one record (no collisions);  *)
(* version 1 accepts any frame.                                            *)
(***************************************************************************)
EXTENDS Integers, Sequences, FiniteSets

CONSTANTS
    RecordCells,    \* RECORD_BYTES, in cells
    MaxAppends,     \* bound: calls of append and append_durable
    MaxFaults,      \* bound: I/O operations that fail
    Versions,       \* header versions of the file found at start-up
    TornWritesStay  \* may set_len fail after a failed write_all?

ASSUME EventLogAssumption ==
    /\ RecordCells \in Nat \ {0}
    /\ MaxAppends \in Nat /\ MaxFaults \in Nat
    /\ Versions \subseteq {1, 2}
    /\ TornWritesStay \in BOOLEAN

VARIABLES
    header,    \* "absent", "torn" (shorter than 16 bytes) or "ok"
    version,   \* version field of the header
    file,      \* the body as processes see it: a sequence of cells
    floor,     \* how many cells of the body a crash cannot take away
    hsynced,   \* has the header been synchronised?
    ghostTail, \* cells cut off by a set_len that is not yet synchronised
    open, writable, records,   \* the EventLog handle
    appends, faults,           \* how far the bounds are used up
    acked                      \* history: ids append_durable returned Ok for

diskVars   == <<header, version, file, floor, hsynced, ghostTail>>
handleVars == <<open, writable, records>>
journalVars == <<diskVars, handleVars, appends, faults, acked>>

-----------------------------------------------------------------------------
(* Frames                                                                   *)

Cell == [id : Nat, part : 1 .. RecordCells]

Cells(id, k) == [p \in 1 .. k |-> [id |-> id, part |-> p]]

NumFrames(f) == Len(f) \div RecordCells

(* Cell p of frame i.                                                       *)
CellAt(f, i, p) == f[(i - 1) * RecordCells + p]

(* record_checksum matches.                                                 *)
Intact(f, i) ==
    \A p \in 1 .. RecordCells :
        CellAt(f, i, p) = [id |-> CellAt(f, i, 1).id, part |-> p]

Decodes(f, i) == version = 1 \/ Intact(f, i)

ValidRecords(f, n) == \A i \in 1 .. n : Decodes(f, i)

-----------------------------------------------------------------------------
(* Creation and opening                                                     *)

(* At start-up there is no file, or an empty log of either version.         *)
JournalInit ==
    /\ \/ header = "absent" /\ version = 2 /\ hsynced = FALSE
       \/ header = "ok" /\ version \in Versions /\ hsynced = TRUE
    /\ file = <<>> /\ floor = 0 /\ ghostTail = <<>>
    /\ open = FALSE /\ writable = FALSE /\ records = 0
    /\ appends = 0 /\ faults = 0
    /\ acked = {}

(* create and create_new: the header is written but not synchronised. The   *)
(* write may fail part-way, which leaves a file too short to open.          *)
Create(exclusive) ==
    /\ ~open
    /\ exclusive => header = "absent"
    /\ version' = 2 /\ hsynced' = FALSE
    /\ file' = <<>> /\ floor' = 0 /\ ghostTail' = <<>>
    /\ acked' = {}
    /\ \/ /\ header' = "ok"
          /\ open' = TRUE /\ writable' = TRUE /\ records' = 0
          /\ UNCHANGED faults
       \/ /\ faults < MaxFaults /\ faults' = faults + 1
          /\ header' = "torn"
          /\ UNCHANGED handleVars
    /\ UNCHANGED appends

RecordsOf(f) == NumFrames(f)

(* validate_records, then the handle is returned.                           *)
Opened(f, mode) ==
    IF ValidRecords(f, RecordsOf(f))
    THEN open' = TRUE /\ writable' = (mode # "readonly")
         /\ records' = RecordsOf(f)
    ELSE UNCHANGED handleVars

(* The body open_impl keeps: a partial frame is cut off at the end.         *)
(* Mutant: recovery cuts off one complete record too many.                  *)
CutLength_more(f) ==
    LET whole == Len(f) - (Len(f) % RecordCells)
    IN IF whole # Len(f) /\ whole > 0 THEN whole - RecordCells ELSE whole

CutLength(f) == Len(f) - (Len(f) % RecordCells)

(* open, open_read_only, and open_recover on a file without a torn tail.    *)
OpenWhole(mode) ==
    /\ ~open /\ header = "ok"
    /\ Len(file) = CutLength(file)
    /\ Opened(file, mode)
    /\ UNCHANGED <<diskVars, appends, faults, acked>>

(* open_recover on a torn tail: set_len, then sync_all, then validation. A  *)
(* failure of either returns an error, the second one with the tail gone    *)
(* from the file but perhaps not from the disk. open and open_read_only     *)
(* refuse such a file.                                                      *)
OpenRecover ==
    LET kept == SubSeq(file, 1, CutLength(file))
        cut  == SubSeq(file, CutLength(file) + 1, Len(file))
    IN /\ ~open /\ header = "ok"
       /\ Len(file) # CutLength(file)
       /\ file' = kept
       /\ \/ /\ floor' = Len(kept) /\ ghostTail' = <<>> /\ hsynced' = TRUE
             /\ Opened(kept, "recover")
             /\ UNCHANGED faults
          \/ /\ faults < MaxFaults /\ faults' = faults + 1
             /\ floor' = IF floor < Len(kept) THEN floor ELSE Len(kept)
             /\ ghostTail' = cut
             /\ UNCHANGED <<hsynced, handleVars>>
       /\ UNCHANGED <<header, version, appends, acked>>

-----------------------------------------------------------------------------
(* Appending                                                                *)

NextId == appends + 1

MayAppend == open /\ writable /\ appends < MaxAppends

(* The body once append has tried to restore it after k cells of a record.  *)
(* Mutant: the previous length is not restored.                             *)
Restored_not(k) == file \o Cells(NextId, k)

Restored(k) == file

(* The file write_all leaves when it fails after k cells: append tries to   *)
(* restore the previous length and ignores whether that worked.             *)
FailedWrite(k) ==
    /\ faults < MaxFaults /\ faults' = faults + 1
    /\ \/ file' = Restored(k) /\ ghostTail' = Cells(NextId, k)
       \/ /\ TornWritesStay
          /\ file' = file \o Cells(NextId, k) /\ ghostTail' = <<>>
    /\ UNCHANGED <<floor, hsynced, records, acked>>

AppendRecord ==
    /\ MayAppend /\ appends' = appends + 1
    /\ \/ /\ file' = file \o Cells(NextId, RecordCells)
          /\ ghostTail' = <<>>
          /\ records' = records + 1
          /\ UNCHANGED <<floor, hsynced, faults, acked>>
       \/ \E k \in 0 .. RecordCells - 1 : FailedWrite(k)
    /\ UNCHANGED <<header, version, open, writable>>

(* How much of body f is durable once sync_all has succeeded.               *)
(* Mutant: the record is acknowledged without being synchronised.           *)
SyncedLength_none(f) == floor

SyncedLength(f) == Len(f)

(* append_durable when append succeeds: synchronised and acknowledged, or   *)
(* sync fails and the record is taken back, with a second sync_all whose    *)
(* result is ignored; or set_len fails too, and the record stays.           *)
DurableWritten ==
    LET whole == file \o Cells(NextId, RecordCells)
    IN \/ /\ file' = whole /\ floor' = SyncedLength(whole) /\ hsynced' = TRUE
          /\ ghostTail' = <<>> /\ records' = records + 1
          /\ acked' = acked \cup {NextId}
          /\ UNCHANGED faults
       \/ /\ faults < MaxFaults /\ faults' = faults + 1
          /\ UNCHANGED acked
          /\ \/ /\ file' = file /\ records' = records
                /\ \/ floor' = Len(file) /\ hsynced' = TRUE /\ ghostTail' = <<>>
                   \/ /\ ghostTail' = Cells(NextId, RecordCells)
                      /\ UNCHANGED <<floor, hsynced>>
             \/ /\ file' = whole /\ records' = records + 1
                /\ ghostTail' = <<>>
                /\ UNCHANGED <<floor, hsynced>>

AppendDurable ==
    /\ MayAppend /\ appends' = appends + 1
    /\ \/ DurableWritten
       \/ \E k \in 0 .. RecordCells - 1 : FailedWrite(k)
    /\ UNCHANGED <<header, version, open, writable>>

Sync ==
    /\ open
    /\ floor' = Len(file) /\ hsynced' = TRUE /\ ghostTail' = <<>>
    /\ UNCHANGED <<header, version, file, handleVars, appends, faults, acked>>

(* The handle is dropped; the kernel keeps what was written.                *)
Close ==
    /\ open /\ open' = FALSE
    /\ writable' = FALSE /\ records' = 0
    /\ UNCHANGED <<diskVars, appends, faults, acked>>

-----------------------------------------------------------------------------
(* The machine crashes: of the body any length down to floor survives, and  *)
(* cells cut off but not synchronised may come back; a header never         *)
(* synchronised may be cut short, and the body with it.                     *)
Crash ==
    LET disk == file \o ghostTail
    IN /\ open' = FALSE /\ writable' = FALSE /\ records' = 0
       /\ ghostTail' = <<>>
       /\ \/ /\ header # "absent"
             /\ \E n \in floor .. Len(disk) :
                   file' = SubSeq(disk, 1, n) /\ floor' = n
             /\ hsynced' = TRUE
             /\ UNCHANGED header
          \/ /\ header # "absent" /\ ~hsynced
             /\ header' = "torn" /\ file' = <<>> /\ floor' = 0
             /\ hsynced' = TRUE
       /\ UNCHANGED <<version, appends, faults, acked>>

JournalNext ==
    \/ \E exclusive \in BOOLEAN : Create(exclusive)
    \/ \E mode \in {"strict", "recover", "readonly"} : OpenWhole(mode)
    \/ OpenRecover
    \/ AppendRecord
    \/ AppendDurable
    \/ Sync
    \/ Close
    \/ Crash

JournalSpec == JournalInit /\ [][JournalNext]_journalVars

-----------------------------------------------------------------------------
(* Properties                                                               *)

(* Shapes of the disk and of the handle.                                    *)
JournalTypeOK ==
    /\ header \in {"absent", "torn", "ok"} /\ version \in {1, 2}
    /\ file \in Seq(Cell) /\ ghostTail \in Seq(Cell)
    /\ floor \in 0 .. Len(file) /\ hsynced \in BOOLEAN
    /\ open \in BOOLEAN /\ writable \in BOOLEAN /\ records \in Nat
    /\ appends \in 0 .. MaxAppends /\ faults \in 0 .. MaxFaults
    /\ acked \subseteq 1 .. MaxAppends

(* A record append_durable returned Ok for is read back by read_all: at     *)
(* once, and after any crash and reopening until create discards the log.   *)
AckedReadable ==
    /\ acked # {} => header = "ok"
    /\ open => \A id \in acked :
          /\ ValidRecords(file, records)
          /\ \E i \in 1 .. records :
                Intact(file, i) /\ CellAt(file, i, 1).id = id

(* The cells from k on are one whole record, wherever frames begin.         *)
WholeRecordAt(f, k) ==
    /\ k + RecordCells - 1 <= Len(f)
    /\ \A p \in 1 .. RecordCells :
          f[k + p - 1] = [id |-> f[k].id, part |-> p]

(* "Only bytes after the final complete record are removed" by              *)
(* open_recover: what it cuts off contains no part of a whole record.       *)
RecoverKeepsRecords ==
    [][OpenRecover =>
          \A k \in 1 .. Len(file) :
              WholeRecordAt(file, k) => k + RecordCells - 1 <= Len(file')]_journalVars

(* The records in the file are the entries of an abstract log whose durable *)
(* prefix is what a crash cannot take away.                                 *)
Abstract ==
    INSTANCE AbstractLog
    WITH Entries  <- 1 .. MaxAppends,
         entries  <- [i \in 1 .. NumFrames(file) |-> CellAt(file, i, 1).id],
         durable  <- floor \div RecordCells,
         promised <- acked

(* The file implements the abstract log: appends add at the end, crashes    *)
(* lose a suffix at most, and what append_durable acknowledged stays.       *)
ImplementsAbstractLog == Abstract!Spec
=============================================================================
