-------------------------------- MODULE Disk --------------------------------
(***************************************************************************)
(* The ATA driver, munux-os/kernel/drivers/disk.c, polling the primary     *)
(* master: the task-file registers, the status bits, the bounded waits for *)
(* BSY and DRQ, and the transfer of one sector.  The drive is external: it *)
(* takes a command, works on it at its own pace, and ignores the registers *)
(* while it is busy or waits for a transfer.                               *)
(*                                                                         *)
(* disk_read_sector() gives up when a wait fails; disk_write_sector() and  *)
(* disk_identify() go on whatever the waits return.  A transfer of 256     *)
(* words is one step, since the drive does nothing else meanwhile.         *)
(***************************************************************************)
EXTENDS Integers

CONSTANTS
    Callers,        \* the threads that use the disk
    Lbas,           \* the LBAs they ask for
    Data,           \* the contents they write
    Nothing,        \* no content: a failed read, an empty sector
    CAPACITY,       \* the number of sectors of the drive
    REG, TOP,       \* values of a byte register (256) and of the nibble (16)
    ATA_TIMEOUT,    \* turns of a polling loop
    Attached,       \* "drive", "floating" (reads 0xFF) or "none" (reads 0)
    Faults,         \* what may go wrong with a command: "error", "stuck"
    Late            \* TRUE: a drive may answer after the driver gave up

ASSUME DiskAssumption ==
    /\ Lbas \subseteq Nat
    /\ Nothing \notin Data
    /\ CAPACITY \in Nat /\ REG \in Nat \ {0} /\ TOP \in Nat \ {0}
    /\ ATA_TIMEOUT \in Nat \ {0}
    /\ Attached \subseteq {"drive", "floating", "none"}
    /\ Faults \subseteq {"error", "stuck"}
    /\ Late \in BOOLEAN

VARIABLES
    attached,   \* what is connected to the port
    regs,       \* LBA_LOW, LBA_MID, LBA_HIGH and the nibble of DRIVE
    drive,      \* the command the drive works on
    disk,       \* the content of the sectors
    call,       \* per caller: the call it is in, and where it is in it
    reply       \* per caller: what its last call returned

vars == <<attached, regs, drive, disk, call, reply>>

-----------------------------------------------------------------------------
(* The drive (external)                                                    *)

NoCommand == [phase |-> "idle", cmd |-> "none", addr |-> 0, data |-> Nothing]
Working == drive.phase \in {"busy", "writing"}

\* ATA_SR_BSY, ATA_SR_DRQ and ATA_SR_ERR as the status port shows them.
BSY ==
    \/ attached = "floating"
    \/ attached = "drive" /\ drive.phase \in {"busy", "writing", "stuck"}
DRQ == attached = "floating" \/ (attached = "drive" /\ drive.phase = "transfer")
ERR == attached = "floating" \/ (attached = "drive" /\ drive.phase = "error")

\* The drive listens to the registers.
Listens == attached = "drive" /\ ~BSY /\ ~DRQ

\* The sector the registers name.
Address(r) == r.low + REG * r.mid + REG * REG * r.high + REG * REG * REG * r.top

\* A command ends: in a transfer of the sector, in an error, or never.
drive_answers(outcome) ==
    /\ drive.phase = "busy"
    /\ LET ok == outcome = "ok" /\ (drive.cmd # "identify" => drive.addr < CAPACITY)
       IN  drive' = [drive EXCEPT
               !.phase = IF ok THEN "transfer"
                         ELSE IF outcome = "stuck" THEN "stuck" ELSE "error",
               !.data = IF ok /\ drive.cmd = "read" THEN disk[drive.addr] ELSE Nothing]
    /\ UNCHANGED <<attached, regs, disk, call, reply>>

\* The sector that was transferred is written, or is not.
drive_writes(outcome) ==
    /\ drive.phase = "writing"
    /\ disk' = IF outcome = "ok" THEN [disk EXCEPT ![drive.addr] = drive.data] ELSE disk
    /\ drive' = IF outcome = "ok" THEN NoCommand
                ELSE [drive EXCEPT !.phase = IF outcome = "stuck" THEN "stuck" ELSE "error"]
    /\ UNCHANGED <<attached, regs, call, reply>>

-----------------------------------------------------------------------------
(* The driver                                                              *)

NoCall == [op |-> "none", lba |-> 0, data |-> Nothing, pc |-> "none", polls |-> 0]

Goto(c, pc) == call' = [call EXCEPT ![c].pc = pc, ![c].polls = 0]
Return(c, value) ==
    /\ call' = [call EXCEPT ![c] = NoCall]
    /\ reply' = [reply EXCEPT ![c] = value]

\* Where a failed wait leads: only disk_read_sector() looks at the result.
WaitFailed(c, next) ==
    IF call[c].op = "read" THEN Return(c, Nothing) ELSE Goto(c, next) /\ UNCHANGED reply

\* The last turn of a loop finds the drive still working: never, if the drive
\* answers in time or not at all.
MayBeLast == Late \/ attached # "drive" \/ ~Working

\* Mutant: the loop has no limit.
poll_for_ever(c, done, failed, next) ==
    /\ IF done THEN Goto(c, next) /\ UNCHANGED reply
       ELSE IF failed THEN WaitFailed(c, next) ELSE UNCHANGED <<call, reply>>
    /\ UNCHANGED <<attached, regs, drive, disk>>

\* A loop that reads the status port ATA_TIMEOUT times at most: its end, or one
\* turn of it.
poll(c, done, failed, next) ==
    /\ IF call[c].polls = ATA_TIMEOUT THEN WaitFailed(c, next)
       ELSE IF done THEN Goto(c, next) /\ UNCHANGED reply
       ELSE IF failed THEN WaitFailed(c, next)
       ELSE /\ call' = [call EXCEPT ![c].polls = @ + 1] /\ UNCHANGED reply
            /\ call[c].polls + 1 = ATA_TIMEOUT => MayBeLast
    /\ UNCHANGED <<attached, regs, drive, disk>>

ata_wait_bsy(c, next) == poll(c, ~BSY, FALSE, next)
ata_wait_drq(c, next) == poll(c, ~ERR /\ DRQ, ERR, next)

\* Mutant: LBA_HIGH gets the bits of LBA_MID.
Registers_swapped(lba) ==
    [low |-> lba % REG, mid |-> (lba \div REG) % REG,
     high |-> (lba \div REG) % REG, top |-> (lba \div (REG * REG * REG)) % TOP]

\* (uint8_t)lba, lba >> 8, lba >> 16 and (lba >> 24) & 0x0F.
Registers(lba) ==
    [low |-> lba % REG, mid |-> (lba \div REG) % REG,
     high |-> (lba \div (REG * REG)) % REG, top |-> (lba \div (REG * REG * REG)) % TOP]

\* disk_init() selects the master and zeroes the registers.
disk_init ==
    /\ \A c \in Callers : call[c] = NoCall
    /\ regs' = IF Listens THEN Registers(0) ELSE regs
    /\ UNCHANGED <<attached, drive, disk, call, reply>>

\* disk_present() selects the master and looks at the status only.
disk_present ==
    /\ \A c \in Callers : call[c] = NoCall
    /\ regs' = IF Listens THEN [regs EXCEPT !.top = 0] ELSE regs
    /\ UNCHANGED <<attached, drive, disk, call, reply>>

\* A call begins; disk_identify() does not wait for the drive.
disk_read_sector(c, lba) ==
    /\ call[c] = NoCall
    /\ call' = [call EXCEPT ![c] = [op |-> "read", lba |-> lba, data |-> Nothing,
                                    pc |-> "ready", polls |-> 0]]
    /\ UNCHANGED <<attached, regs, drive, disk, reply>>

disk_write_sector(c, lba, data) ==
    /\ call[c] = NoCall
    /\ call' = [call EXCEPT ![c] = [op |-> "write", lba |-> lba, data |-> data,
                                    pc |-> "ready", polls |-> 0]]
    /\ UNCHANGED <<attached, regs, drive, disk, reply>>

disk_identify(c) ==
    /\ call[c] = NoCall
    /\ call' = [call EXCEPT ![c] = [op |-> "identify", lba |-> 0, data |-> Nothing,
                                    pc |-> "select", polls |-> 0]]
    /\ UNCHANGED <<attached, regs, drive, disk, reply>>

wait_ready(c) == call[c].pc = "ready" /\ ata_wait_bsy(c, "select")

\* The registers are written ...
select(c) ==
    /\ call[c].pc = "select"
    /\ regs' = IF Listens THEN Registers(call[c].lba) ELSE regs
    /\ Goto(c, "command")
    /\ UNCHANGED <<attached, drive, disk, reply>>

\* ... and then the command, which names them to the drive.
command(c) ==
    /\ call[c].pc = "command"
    /\ drive' = IF Listens THEN [phase |-> "busy", cmd |-> call[c].op,
                                 addr |-> Address(regs), data |-> Nothing]
                ELSE drive
    /\ Goto(c, IF call[c].op = "identify" THEN "check" ELSE "busy")
    /\ UNCHANGED <<attached, regs, disk, reply>>

\* disk_identify() returns when the status is 0: there is no drive.
identify_check(c) ==
    /\ call[c].pc = "check"
    /\ IF attached = "none" THEN Return(c, Nothing) ELSE Goto(c, "busy") /\ UNCHANGED reply
    /\ UNCHANGED <<attached, regs, drive, disk>>

\* disk_identify() goes straight to the transfer, the others wait for DRQ.
wait_busy(c) ==
    /\ call[c].pc = "busy"
    /\ ata_wait_bsy(c, IF call[c].op = "identify" THEN "transfer" ELSE "drq")

wait_drq(c) == call[c].pc = "drq" /\ ata_wait_drq(c, "transfer")

\* The data port: the drive has a sector to hand over.
HandsOver == attached = "drive" /\ drive.phase = "transfer" /\ drive.cmd # "write"

\* Mutant: the words are not fetched.
transfer_in_skipped(c) ==
    /\ call[c].pc = "transfer" /\ call[c].op # "write"
    /\ Return(c, drive.data)
    /\ UNCHANGED <<attached, regs, drive, disk>>

\* 256 words are read, and the call is over.
transfer_in(c) ==
    /\ call[c].pc = "transfer" /\ call[c].op # "write"
    /\ drive' = IF HandsOver THEN NoCommand ELSE drive
    /\ Return(c, IF HandsOver /\ call[c].op = "read" THEN drive.data ELSE Nothing)
    /\ UNCHANGED <<attached, regs, disk>>

\* 256 words are written, whether the drive asked for them or not.
transfer_out(c) ==
    /\ call[c].pc = "transfer" /\ call[c].op = "write"
    /\ drive' = IF attached = "drive" /\ drive.phase = "transfer" /\ drive.cmd = "write"
                THEN [drive EXCEPT !.phase = "writing", !.data = call[c].data]
                ELSE drive
    /\ Goto(c, "flush")
    /\ UNCHANGED <<attached, regs, disk, reply>>

wait_flush(c) == call[c].pc = "flush" /\ ata_wait_bsy(c, "return")

\* disk_write_sector() returns 0.
write_returns(c) ==
    /\ call[c].pc = "return"
    /\ Return(c, Nothing)
    /\ UNCHANGED <<attached, regs, drive, disk>>

Init ==
    /\ attached \in Attached
    /\ regs = Registers(0)
    /\ drive = NoCommand
    /\ disk = [s \in 0 .. (CAPACITY - 1) |-> Nothing]
    /\ call = [c \in Callers |-> NoCall]
    /\ reply = [c \in Callers |-> Nothing]

Drive == \E outcome \in {"ok"} \cup Faults : drive_answers(outcome) \/ drive_writes(outcome)

Driver(c) ==
    \/ wait_ready(c) \/ select(c) \/ command(c) \/ identify_check(c)
    \/ wait_busy(c) \/ wait_drq(c) \/ transfer_in(c) \/ transfer_out(c)
    \/ wait_flush(c) \/ write_returns(c)

Next ==
    \/ disk_init \/ disk_present
    \/ \E c \in Callers :
          \/ \E lba \in Lbas : disk_read_sector(c, lba)
          \/ \E lba \in Lbas, data \in Data : disk_write_sector(c, lba, data)
          \/ disk_identify(c)
          \/ Driver(c)
    \/ Drive

Spec == Init /\ [][Next]_vars

\* The driver is a loop on the CPU; a drive that is not stuck goes on.
FairSpec == Spec /\ WF_vars(Drive) /\ \A c \in Callers : WF_vars(Driver(c))

-----------------------------------------------------------------------------
(* Properties                                                              *)

Contents == Data \cup {Nothing}
Sectors == 0 .. (CAPACITY - 1)

TypeOK ==
    /\ attached \in Attached
    /\ regs \in [low : 0 .. (REG - 1), mid : 0 .. (REG - 1), high : 0 .. (REG - 1),
                 top : 0 .. (TOP - 1)]
    /\ drive \in [phase : {"idle", "busy", "transfer", "writing", "error", "stuck"},
                  cmd : {"none", "read", "write", "identify"},
                  addr : Nat, data : Contents]
    /\ disk \in [Sectors -> Contents]
    /\ call \in [Callers -> [op : {"none", "read", "write", "identify"},
                             lba : Lbas \cup {0}, data : Contents,
                             pc : {"none", "ready", "select", "command", "check", "busy",
                                   "drq", "transfer", "flush", "return"},
                             polls : 0 .. ATA_TIMEOUT]]
    /\ reply \in [Callers -> Contents]

\* No call, whatever error or time-out ended it, leaves the drive with a command
\* under way or in the middle of a transfer: the next call would be given the
\* sector of this one.
NoTransferLeft ==
    (\A c \in Callers : call[c] = NoCall) =>
        drive.phase \notin {"busy", "transfer", "writing"}

\* The polls stay within their limit, the registers within their width, and
\* every call leaves the drive ready for the next.
DriverIsSound == TypeOK /\ NoTransferLeft

\* The registers, waits and transfers amount to a store of sectors: what a read
\* returns is the content of the sector it asked for, a write reaches that
\* sector or none, and errors, time-outs and missing drives lose calls only.
Device == INSTANCE SectorDevice
    WITH store <- [l \in Lbas \cup {0} |-> IF l \in Sectors THEN disk[l] ELSE Nothing],
         request <- [c \in Callers |-> [op |-> call[c].op, lba |-> call[c].lba,
                                        data |-> call[c].data]],
         Lbas <- Lbas \cup {0}
ImplementsSectorDevice == Device!Spec

\* "Evita hang infinito quando nao ha disco": every call returns, also from a
\* drive that is stuck, missing, or that fails in the middle of a command.
CallsEnd == \A c \in Callers : (call[c] # NoCall) ~> (call[c] = NoCall)
=============================================================================
