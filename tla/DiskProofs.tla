----------------------------- MODULE DiskProofs -----------------------------
(***************************************************************************)
(* The safety of Disk, for any drive, any widths of the registers and any  *)
(* limit of the polls, and its refinement of SectorDevice; when one thread *)
(* uses the disk and a drive answers in time or not at all, without which  *)
(* neither holds.                                                          *)
(***************************************************************************)
EXTENDS Disk, TLAPS

-----------------------------------------------------------------------------
(* The registers.                                                          *)

\* Quotient and remainder.
LEMMA DivMod ==
    ASSUME NEW a \in Nat, NEW d \in Nat \ {0}
    PROVE  a = d * (a \div d) + (a % d) /\ a \div d \in Nat /\ a % d \in 0 .. (d - 1)
OBVIOUS

\* The same, as an existence.
LEMMA Division ==
    ASSUME NEW a \in Nat, NEW d \in Nat \ {0}
    PROVE  \E q, r \in Nat : a = d * q + r /\ r < d /\ q = a \div d /\ r = a % d
<1>1. a \div d \in Nat /\ a % d \in Nat /\ a % d < d /\ a = d * (a \div d) + (a % d)
  BY DivMod
<1> QED
  BY <1>1

\* They are the only ones.
LEMMA DivUnique ==
    ASSUME NEW a \in Nat, NEW d \in Nat \ {0}, NEW q \in Nat, NEW r \in Nat,
           r < d, a = d * q + r
    PROVE  a \div d = q /\ a % d = r
OBVIOUS

\* Products of naturals.
LEMMA Products ==
    ASSUME NEW a \in Nat, NEW b \in Nat, NEW c \in Nat
    PROVE  /\ a * b \in Nat
           /\ a * (b + c) = a * b + a * c
           /\ a * (b * c) = (a * b) * c
           /\ b < c => a * b + a <= a * c
OBVIOUS

\* Shifting twice is shifting once by both amounts.
LEMMA DivDiv ==
    ASSUME NEW a \in Nat, NEW d \in Nat \ {0}, NEW e \in Nat \ {0}
    PROVE  a \div (d * e) = (a \div d) \div e
<1>1. PICK q \in Nat, r \in Nat : a = d * q + r /\ r < d /\ q = a \div d
  BY DivMod
<1>2. PICK p \in Nat, s \in Nat : q = e * p + s /\ s < e /\ p = q \div e
  BY DivMod
<1>3. a = (d * e) * p + (d * s + r)
  <2>1. e * p \in Nat /\ d * (e * p + s) = d * (e * p) + d * s /\ d * (e * p) = (d * e) * p
    BY Products
  <2>2. a = d * (e * p + s) + r
    BY <1>1, <1>2
  <2>3. (d * e) * p \in Nat /\ d * s \in Nat
    BY Products
  <2> QED
    BY <2>1, <2>2, <2>3
<1>4. d * s + r < d * e /\ d * s + r \in Nat /\ d * e \in Nat \ {0}
  BY <1>1, <1>2
<1>5. a \div (d * e) = p
  BY <1>3, <1>4, DivUnique
<1> QED
  BY <1>1, <1>2, <1>5

RegsType == [low : 0 .. (REG - 1), mid : 0 .. (REG - 1), high : 0 .. (REG - 1),
             top : 0 .. (TOP - 1)]

\* The bits of any LBA fit their registers.
LEMMA RegistersType ==
    ASSUME NEW l \in Nat
    PROVE  Registers(l) \in RegsType
<1> USE DiskAssumption
<1>1. REG * REG \in Nat \ {0} /\ REG * REG * REG \in Nat \ {0}
  OBVIOUS
<1>2. /\ l \div REG \in Nat /\ l \div (REG * REG) \in Nat /\ l \div (REG * REG * REG) \in Nat
  BY <1>1, DivMod
<1>3. /\ l % REG \in 0 .. (REG - 1) /\ (l \div REG) % REG \in 0 .. (REG - 1)
      /\ (l \div (REG * REG)) % REG \in 0 .. (REG - 1)
      /\ (l \div (REG * REG * REG)) % TOP \in 0 .. (TOP - 1)
  BY <1>2, DivMod
<1> QED
  BY <1>3 DEF Registers, RegsType

\* What the registers can name: 28 bits in the code.
AddressSpace == REG * REG * REG * TOP

\* The registers name the LBA they were written with.
LEMMA AddressOfRegisters ==
    ASSUME NEW l \in Nat, l < AddressSpace
    PROVE  Address(Registers(l)) = l
<1>0. REG \in Nat \ {0} /\ TOP \in Nat \ {0}
  BY DiskAssumption
<1> DEFINE R2 == REG * REG
           R3 == R2 * REG
<1>1. R2 \in Nat \ {0} /\ R3 \in Nat \ {0}
  BY <1>0
<1> HIDE DEF R2, R3
<1>2. PICK q1, r0 \in Nat : l = REG * q1 + r0 /\ r0 < REG /\ q1 = l \div REG /\ r0 = l % REG
  BY <1>0, Division
<1>3. PICK q2, r1 \in Nat : q1 = REG * q2 + r1 /\ r1 < REG /\ q2 = q1 \div REG /\ r1 = q1 % REG
  BY <1>0, Division
<1>4. PICK q3, r2 \in Nat : q2 = REG * q3 + r2 /\ r2 < REG /\ q3 = q2 \div REG /\ r2 = q2 % REG
  BY <1>0, Division
<1>5. l \div R2 = q2
  <2>1. l \div (REG * REG) = (l \div REG) \div REG
    BY <1>0, DivDiv
  <2> QED
    BY <1>2, <1>3, <2>1 DEF R2
<1>6. l \div R3 = q3
  <2>1. \A d, e \in Nat \ {0} : l \div (d * e) = (l \div d) \div e
    BY DivDiv
  <2>2. l \div (R2 * REG) = (l \div R2) \div REG
    BY <1>0, <1>1, <2>1, Zenon
  <2> QED
    BY <1>4, <1>5, <2>2 DEF R3
<1>7. /\ REG * q1 = REG * (REG * q2) + REG * r1 /\ REG * (REG * q2) = R2 * q2
      /\ R2 * q2 = R2 * (REG * q3) + R2 * r2 /\ R2 * (REG * q3) = R3 * q3
      /\ REG * q2 \in Nat /\ REG * q3 \in Nat
  <2>1. REG * q2 \in Nat /\ REG * q3 \in Nat
    BY <1>0, Products
  <2>2. REG * q1 = REG * (REG * q2) + REG * r1
    BY <1>0, <1>3, <2>1, Products
  <2>3. REG * (REG * q2) = R2 * q2
    BY <1>0, Products DEF R2
  <2>4. R2 * q2 = R2 * (REG * q3) + R2 * r2
    BY <1>0, <1>1, <1>4, <2>1, Products
  <2>5. R2 * (REG * q3) = R3 * q3
    BY <1>0, <1>1, Products DEF R3
  <2> QED
    BY <2>1, <2>2, <2>3, <2>4, <2>5
<1>8. R3 * q3 \in Nat /\ R2 * r2 \in Nat /\ REG * r1 \in Nat
  BY <1>0, <1>1, Products
<1>9. l = r0 + REG * r1 + R2 * r2 + R3 * q3
  <2>1. REG * q1 \in Nat /\ R2 * q2 \in Nat
    BY <1>0, <1>1, Products
  <2> QED
    BY <1>0, <1>2, <1>7, <1>8, <2>1
<1>10. q3 < TOP
  <2> SUFFICES ASSUME TOP <= q3
               PROVE  FALSE
    BY <1>0
  <2>1. R3 * TOP = AddressSpace
    BY DEF R3, R2, AddressSpace
  <2>2. R3 * TOP <= R3 * q3
    BY <1>0, <1>1
  <2>3. R3 * TOP \in Nat
    BY <1>0, <1>1, Products
  <2> QED
    BY <1>8, <1>9, <2>1, <2>2, <2>3
<1>11. q3 % TOP = q3
  BY <1>0, <1>10, DivUnique
<1>12. Registers(l) = [low |-> r0, mid |-> r1, high |-> r2, top |-> q3]
  BY <1>2, <1>3, <1>4, <1>5, <1>6, <1>11 DEF Registers, R3, R2
<1> QED
  BY <1>9, <1>12 DEF Address, R3, R2

-----------------------------------------------------------------------------
(* The invariant.  A call goes through its steps with the drive in one of  *)
(* a few phases; a drive that got stuck stays so.                          *)

Pcs == {"none", "ready", "select", "command", "check", "busy", "drq", "transfer", "flush",
        "return"}
CallType == [op : {"none", "read", "write", "identify"}, lba : Lbas \cup {0}, data : Contents,
             pc : Pcs, polls : 0 .. ATA_TIMEOUT]
DriveType == [phase : {"idle", "busy", "transfer", "writing", "error", "stuck"},
              cmd : {"none", "read", "write", "identify"}, addr : Nat, data : Contents]

\* The phases a drive can be in at a step of the call.
Phases(pc) ==
    CASE pc \in {"none", "ready", "select", "command", "return"} -> {"idle", "error", "stuck"}
      [] pc \in {"check", "busy"} -> {"busy", "transfer", "error", "stuck"}
      [] pc \in {"drq", "transfer"} -> {"transfer", "error", "stuck"}
      [] pc = "flush" -> {"writing", "idle", "error", "stuck"}

\* The steps each function goes through.
Steps(op) ==
    CASE op = "none" -> {"none"}
      [] op = "read" -> {"ready", "select", "command", "busy", "drq", "transfer"}
      [] op = "write" -> {"ready", "select", "command", "busy", "drq", "transfer", "flush",
                          "return"}
      [] op = "identify" -> {"select", "command", "check", "busy", "transfer"}

\* A call is at a step of its function, and keeps its arguments.
CallInv ==
    \A c \in Callers :
        /\ call[c].pc \in Steps(call[c].op)
        /\ call[c].op = "none" => call[c] = NoCall
        /\ call[c].op # "write" => call[c].data = Nothing

\* Without a drive there is no command.
NoDriveInv == attached # "drive" => drive = NoCommand

\* The drive is in step with the call, and a wait runs out of turns only when
\* the drive is stuck.
DriveInv ==
    attached = "drive" =>
        \A c \in Callers :
            /\ drive.phase \in Phases(call[c].pc)
            /\ call[c].polls = ATA_TIMEOUT => drive.phase = "stuck"

\* The command the drive works on is the caller's.
CommandInv ==
    \A c \in Callers :
        /\ drive.phase \in {"busy", "transfer", "writing"} => drive.cmd = call[c].op
        /\ drive.phase = "writing" => drive.data = call[c].data

IInv == TypeOK /\ CallInv /\ NoDriveInv /\ DriveInv /\ CommandInv

\* The drive was given the caller's LBA, and what it hands over or writes goes
\* with that sector of the disk.
AddressInv ==
    /\ \A c \in Callers :
          /\ attached = "drive" /\ call[c].pc = "command" /\ drive.phase # "stuck" =>
                regs = Registers(call[c].lba)
          /\ drive.phase \in {"busy", "transfer", "writing"} => drive.addr = call[c].lba
    /\ drive.phase \in {"transfer", "writing"} /\ drive.cmd # "identify" =>
          drive.addr \in Sectors
    /\ drive.phase = "transfer" /\ drive.cmd = "read" => drive.data = disk[drive.addr]

-----------------------------------------------------------------------------
(* What the parts of a step do to the call.                                *)

\* The type invariant, in the terms of this module.
LEMMA Types ==
    TypeOK <=> /\ attached \in Attached /\ regs \in RegsType /\ drive \in DriveType
               /\ disk \in [Sectors -> Contents] /\ call \in [Callers -> CallType]
               /\ reply \in [Callers -> Contents]
BY DEF TypeOK, RegsType, DriveType, CallType, Pcs

\* A call that is not under way.
LEMMA NoCallFacts ==
    /\ NoCall \in CallType /\ NoCall.op = "none" /\ NoCall.pc = "none" /\ NoCall.polls = 0
    /\ NoCall.data = Nothing /\ NoCall.lba = 0
    /\ NoCommand \in DriveType /\ NoCommand.phase = "idle"
BY DiskAssumption DEF NoCall, CallType, Pcs, Contents, NoCommand, DriveType

\* A call moves on to the next of its steps.
LEMMA GotoFacts ==
    ASSUME call \in [Callers -> CallType], NEW c \in Callers, NEW p \in Pcs, Goto(c, p)
    PROVE  /\ call' \in [Callers -> CallType]
           /\ call'[c].pc = p /\ call'[c].polls = 0
           /\ call'[c].op = call[c].op /\ call'[c].lba = call[c].lba
           /\ call'[c].data = call[c].data
<1> DEFINE k == [call[c] EXCEPT !.pc = p]
           m == [k EXCEPT !.polls = 0]
<1>1. call[c] \in CallType
  OBVIOUS
<1>2. /\ k \in CallType /\ k.pc = p /\ k.op = call[c].op /\ k.lba = call[c].lba
      /\ k.data = call[c].data
  BY <1>1 DEF CallType
<1>3. call' = [call EXCEPT ![c] = m]
  BY DEF Goto
<1> HIDE DEF k
<1>4. /\ m \in CallType /\ m.pc = k.pc /\ m.polls = 0 /\ m.op = k.op /\ m.lba = k.lba
      /\ m.data = k.data
  BY <1>2, DiskAssumption DEF CallType
<1> HIDE DEF m
<1>5. call'[c] = m /\ call' \in [Callers -> CallType]
  BY <1>3, <1>4
<1> QED
  BY <1>2, <1>4, <1>5

\* A call is over.
LEMMA ReturnFacts ==
    ASSUME TypeOK, NEW c \in Callers, NEW value \in Contents, Return(c, value)
    PROVE  /\ call' \in [Callers -> CallType] /\ call'[c] = NoCall
           /\ reply' \in [Callers -> Contents] /\ reply'[c] = value
BY Types, NoCallFacts DEF Return

\* One more turn of a polling loop.
LEMMA TickFacts ==
    ASSUME call \in [Callers -> CallType], NEW c \in Callers, call[c].polls # ATA_TIMEOUT,
           call' = [call EXCEPT ![c].polls = @ + 1]
    PROVE  /\ call' \in [Callers -> CallType]
           /\ call'[c].polls = call[c].polls + 1 /\ call'[c].pc = call[c].pc
           /\ call'[c].op = call[c].op /\ call'[c].lba = call[c].lba
           /\ call'[c].data = call[c].data
<1> DEFINE n == call[c].polls + 1
           m == [call[c] EXCEPT !.polls = n]
<1>1. call[c] \in CallType /\ call[c].polls \in 0 .. ATA_TIMEOUT
  BY DEF CallType
<1>2. n \in 0 .. ATA_TIMEOUT
  BY <1>1, DiskAssumption
<1>3. call' = [call EXCEPT ![c] = m]
  OBVIOUS
<1> HIDE DEF n
<1>4. /\ m \in CallType /\ m.polls = n /\ m.pc = call[c].pc /\ m.op = call[c].op
      /\ m.lba = call[c].lba /\ m.data = call[c].data
  BY <1>1, <1>2 DEF CallType
<1> HIDE DEF m
<1>5. call'[c] = m /\ call' \in [Callers -> CallType]
  BY <1>3, <1>4
<1> QED
  BY <1>4, <1>5 DEF n

-----------------------------------------------------------------------------
(* Steps of the driver that leave the drive alone keep the invariant when  *)
(* the drive's phase is one of the next step's.                            *)

\* The step of the one caller, as the invariant sees it.
LEMMA Moved ==
    ASSUME NEW c, Callers = {c}, IInv, UNCHANGED <<attached, drive, disk, reply>>,
           regs' \in RegsType, NEW p \in Pcs, Goto(c, p), p \in Steps(call[c].op),
           call[c].op # "none", attached = "drive" => drive.phase \in Phases(p)
    PROVE  IInv'
<1>1. TypeOK /\ call \in [Callers -> CallType] /\ c \in Callers
  BY Types DEF IInv
<1>2. /\ call' \in [Callers -> CallType]
      /\ call'[c].pc = p /\ call'[c].polls = 0
      /\ call'[c].op = call[c].op /\ call'[c].lba = call[c].lba
      /\ call'[c].data = call[c].data
  BY <1>1, GotoFacts
<1>3. TypeOK'
  BY <1>1, <1>2, Types DEF TypeOK, RegsType, CallType, Pcs
<1>4. CallInv'
  BY <1>2 DEF IInv, CallInv
<1>5. NoDriveInv' /\ CommandInv'
  BY <1>2 DEF IInv, NoDriveInv, CommandInv
<1>6. DriveInv'
  BY <1>2, DiskAssumption DEF DriveInv
<1> QED
  BY <1>3, <1>4, <1>5, <1>6 DEF IInv

\* The end of the one caller's call.
LEMMA Ended ==
    ASSUME NEW c, Callers = {c}, IInv, UNCHANGED <<attached, regs, disk>>,
           NEW value \in Contents, Return(c, value), drive' \in DriveType,
           attached # "drive" => drive' = drive,
           attached = "drive" => drive'.phase \in {"idle", "error", "stuck"}
    PROVE  IInv'
<1>1. TypeOK /\ c \in Callers
  BY DEF IInv
<1>2. /\ call' \in [Callers -> CallType] /\ call'[c] = NoCall
      /\ reply' \in [Callers -> Contents]
  BY <1>1, ReturnFacts
<1>3. TypeOK'
  BY <1>1, <1>2 DEF TypeOK, DriveType, CallType, Pcs
<1>4. CallInv'
  BY <1>2, NoCallFacts DEF CallInv, Steps
<1>5. NoDriveInv'
  BY DEF IInv, NoDriveInv
<1>6. drive'.phase \in {"idle", "error", "stuck"}
  BY NoCallFacts DEF IInv, NoDriveInv
<1>7. CommandInv'
  BY <1>6 DEF CommandInv
<1>8. DriveInv'
  BY <1>2, <1>6, NoCallFacts, DiskAssumption DEF DriveInv, Phases
<1> QED
  BY <1>3, <1>4, <1>5, <1>7, <1>8 DEF IInv

\* A wait: it goes on to the next step, ends the call of a read, or takes one
\* more turn.
LEMMA Polled ==
    ASSUME NEW c, Callers = {c}, Late = FALSE, IInv, NEW done \in BOOLEAN,
           NEW failed \in BOOLEAN, NEW p \in Pcs, p \in Steps(call[c].op),
           call[c].op # "none", poll(c, done, failed, p),
           attached = "drive" /\ (done \/ drive.phase = "stuck") => drive.phase \in Phases(p),
           attached = "drive" /\ failed =>
               drive.phase \in Phases(p) /\ drive.phase \in {"idle", "error", "stuck"},
           attached = "drive" /\ ~done /\ ~failed => drive.phase \in {"busy", "writing", "stuck"}
    PROVE  IInv'
<1>1. /\ TypeOK /\ call \in [Callers -> CallType] /\ c \in Callers
      /\ UNCHANGED <<attached, regs, drive, disk>> /\ regs \in RegsType /\ drive \in DriveType
      /\ Nothing \in Contents
  BY Types DEF IInv, poll, Contents
<1>2. CASE call[c].polls = ATA_TIMEOUT \/ (~done /\ failed)
  <2>1. attached = "drive" =>
            drive.phase \in Phases(p) /\ drive.phase \in {"idle", "error", "stuck"}
    BY <1>1, <1>2 DEF IInv, DriveInv
  <2>2. WaitFailed(c, p)
    BY <1>2 DEF poll
  <2>3. CASE call[c].op = "read"
    BY <1>1, <2>1, <2>2, <2>3, Ended DEF WaitFailed
  <2>4. CASE call[c].op # "read"
    BY <1>1, <2>1, <2>2, <2>4, Moved DEF WaitFailed
  <2> QED
    BY <2>3, <2>4
<1>3. CASE call[c].polls # ATA_TIMEOUT /\ done
  <2>1. Goto(c, p) /\ UNCHANGED reply
    BY <1>3 DEF poll
  <2> QED
    BY <1>1, <1>3, <2>1, Moved
<1>4. CASE call[c].polls # ATA_TIMEOUT /\ ~done /\ ~failed
  <2>1. /\ call' = [call EXCEPT ![c].polls = @ + 1] /\ UNCHANGED reply
        /\ call[c].polls + 1 = ATA_TIMEOUT => MayBeLast
    BY <1>4 DEF poll
  <2>2. /\ call' \in [Callers -> CallType]
        /\ call'[c].polls = call[c].polls + 1 /\ call'[c].pc = call[c].pc
        /\ call'[c].op = call[c].op /\ call'[c].lba = call[c].lba
        /\ call'[c].data = call[c].data
    BY <1>1, <1>4, <2>1, TickFacts
  <2>3. TypeOK'
    BY <1>1, <2>1, <2>2 DEF TypeOK, CallType, Pcs
  <2>4. CallInv'
    BY <2>2 DEF IInv, CallInv
  <2>5. NoDriveInv' /\ CommandInv'
    BY <1>1, <2>2 DEF IInv, NoDriveInv, CommandInv
  <2>6. DriveInv'
    BY <1>1, <1>4, <2>1, <2>2 DEF IInv, DriveInv, MayBeLast, Working
  <2> QED
    BY <2>3, <2>4, <2>5, <2>6 DEF IInv
<1> QED
  BY <1>2, <1>3, <1>4

-----------------------------------------------------------------------------
(* The invariant is inductive.                                             *)

\* It holds before the first call.
LEMMA InitInv == Init => IInv
<1> SUFFICES ASSUME Init
             PROVE  IInv
  OBVIOUS
<1>1. Registers(0) \in RegsType
  BY RegistersType
<1>2. TypeOK
  BY <1>1, NoCallFacts, Types DEF Init, Sectors, Contents
<1>3. CallInv /\ NoDriveInv
  BY NoCallFacts DEF Init, CallInv, NoDriveInv, Steps
<1>4. CommandInv /\ DriveInv
  BY NoCallFacts, DiskAssumption DEF Init, CommandInv, DriveInv, Phases
<1> QED
  BY <1>2, <1>3, <1>4 DEF IInv

\* A call begins.
LEMMA Begun ==
    ASSUME NEW c, Callers = {c}, IInv, call[c] = NoCall,
           NEW k \in CallType, call' = [call EXCEPT ![c] = k],
           k.op # "none", k.pc \in Steps(k.op), k.pc \in {"ready", "select"}, k.polls = 0,
           k.op # "write" => k.data = Nothing,
           UNCHANGED <<attached, regs, drive, disk, reply>>
    PROVE  IInv'
<1>1. TypeOK /\ call \in [Callers -> CallType]
  BY Types DEF IInv
<1>2. call'[c] = k /\ call' \in [Callers -> CallType]
  BY <1>1
<1>3. TypeOK'
  BY <1>1, <1>2 DEF TypeOK, CallType, Pcs
<1>4. CallInv' /\ NoDriveInv'
  BY <1>2 DEF IInv, CallInv, NoDriveInv
<1>5. attached = "drive" => drive.phase \in {"idle", "error", "stuck"}
  BY NoCallFacts DEF IInv, DriveInv, Phases
<1>6. DriveInv'
  BY <1>2, <1>5, DiskAssumption DEF DriveInv, Phases
<1>7. CommandInv'
  BY <1>5, NoCallFacts DEF IInv, NoDriveInv, CommandInv
<1> QED
  BY <1>3, <1>4, <1>6, <1>7 DEF IInv

\* The drive changes its phase, and the call goes on as it was.
LEMMA Worked ==
    ASSUME NEW c, Callers = {c}, IInv, UNCHANGED <<attached, regs, call, reply>>,
           attached = "drive", drive' \in DriveType, disk' \in [Sectors -> Contents],
           drive'.phase \in Phases(call[c].pc), drive.phase # "stuck",
           drive'.phase \in {"busy", "transfer", "writing"} => drive'.cmd = call[c].op,
           drive'.phase = "writing" => drive'.data = call[c].data
    PROVE  IInv'
<1>1. TypeOK'
  BY DEF IInv, TypeOK, DriveType
<1>2. CallInv' /\ NoDriveInv' /\ CommandInv'
  BY DEF IInv, CallInv, NoDriveInv, CommandInv
<1>3. DriveInv'
  BY DEF IInv, DriveInv
<1> QED
  BY <1>1, <1>2, <1>3 DEF IInv

\* Every step of the driver keeps it.
LEMMA DriverInv ==
    ASSUME NEW c, Callers = {c}, Late = FALSE, IInv, Driver(c)
    PROVE  IInv'
<1>0. /\ TypeOK /\ call \in [Callers -> CallType] /\ c \in Callers /\ call[c] \in CallType
      /\ regs \in RegsType /\ drive \in DriveType /\ Nothing \in Contents
      /\ CallInv /\ NoDriveInv /\ DriveInv /\ CommandInv
  BY Types DEF IInv, Contents
<1>1. /\ call[c].op \in {"none", "read", "write", "identify"}
      /\ call[c].pc \in Steps(call[c].op)
      /\ attached = "drive" => drive.phase \in Phases(call[c].pc)
      /\ call[c].lba \in Nat /\ call[c].data \in Contents
      /\ call[c].pc # "none" => call[c].op # "none"
  BY <1>0, NoCallFacts, DiskAssumption DEF CallType, CallInv, DriveInv, Steps
<1>2. CASE wait_ready(c)
  <2>1. call[c].pc = "ready" /\ poll(c, ~BSY, FALSE, "select")
    BY <1>2 DEF wait_ready, ata_wait_bsy
  <2>2. "select" \in Steps(call[c].op) /\ "select" \in Pcs
    BY <1>1, <2>1 DEF Steps, Pcs
  <2>3. attached = "drive" => /\ drive.phase \in Phases("select")
                              /\ BSY => drive.phase \in {"busy", "writing", "stuck"}
    BY <1>1, <2>1 DEF Phases, BSY
  <2> QED
    BY <1>1, <2>1, <2>2, <2>3, Polled
<1>3. CASE select(c)
  <2>1. /\ call[c].pc = "select" /\ Goto(c, "command")
        /\ UNCHANGED <<attached, drive, disk, reply>>
    BY <1>3 DEF select
  <2>2. regs' \in RegsType
    BY <1>0, <1>1, <1>3, RegistersType DEF select
  <2>3. "command" \in Steps(call[c].op) /\ "command" \in Pcs
    BY <1>1, <2>1 DEF Steps, Pcs
  <2>4. attached = "drive" => drive.phase \in Phases("command")
    BY <1>1, <2>1 DEF Phases
  <2> QED
    BY <1>1, <2>1, <2>2, <2>3, <2>4, Moved
<1>4. CASE command(c)
  <2> DEFINE p == IF call[c].op = "identify" THEN "check" ELSE "busy"
  <2>1. call[c].pc = "command" /\ Goto(c, p) /\ UNCHANGED <<attached, regs, disk, reply>>
    BY <1>4 DEF command
  <2>2. p \in Pcs /\ p \in Steps(call[c].op) /\ p \in {"check", "busy"}
    BY <1>1, <2>1 DEF Steps, Pcs
  <2> HIDE DEF p
  <2>3. /\ call' \in [Callers -> CallType] /\ call'[c].pc = p /\ call'[c].polls = 0
        /\ call'[c].op = call[c].op /\ call'[c].data = call[c].data
    BY <1>0, <2>1, <2>2, GotoFacts
  <2>4. CASE Listens
    <3>1. /\ drive' = [phase |-> "busy", cmd |-> call[c].op, addr |-> Address(regs),
                       data |-> Nothing]
          /\ attached = "drive"
      BY <1>4, <2>4 DEF command, Listens
    <3>2. Address(regs) \in Nat
      <4>1. REG \in Nat /\ REG * REG \in Nat /\ REG * REG * REG \in Nat
        BY DiskAssumption
      <4>2. regs.low \in Nat /\ regs.mid \in Nat /\ regs.high \in Nat /\ regs.top \in Nat
        BY <1>0, DiskAssumption DEF RegsType
      <4>3. /\ REG * regs.mid \in Nat /\ REG * REG * regs.high \in Nat
            /\ REG * REG * REG * regs.top \in Nat
        BY <4>1, <4>2, Products
      <4> QED
        BY <4>2, <4>3 DEF Address
    <3>3. drive' \in DriveType
      BY <1>0, <1>1, <3>1, <3>2 DEF DriveType
    <3>4. TypeOK'
      BY <1>0, <2>1, <2>3, <3>3 DEF TypeOK, DriveType, CallType, Pcs
    <3>5. CallInv'
      BY <1>0, <1>1, <2>2, <2>3, <2>1 DEF CallInv
    <3>6. NoDriveInv' /\ CommandInv' /\ DriveInv'
      BY <1>0, <2>1, <2>2, <2>3, <3>1, DiskAssumption
         DEF NoDriveInv, CommandInv, DriveInv, Phases
    <3> QED
      BY <3>4, <3>5, <3>6 DEF IInv
  <2>5. CASE ~Listens
    <3>1. drive' = drive
      BY <1>4, <2>5 DEF command
    <3>2. attached = "drive" => drive.phase \in Phases(p)
      BY <1>1, <2>1, <2>2, <2>5 DEF Listens, BSY, DRQ, Phases
    <3> QED
      BY <1>0, <1>1, <2>1, <2>2, <3>1, <3>2, Moved
  <2> QED
    BY <2>4, <2>5
<1>5. CASE identify_check(c)
  <2>1. call[c].pc = "check" /\ UNCHANGED <<attached, regs, drive, disk>>
    BY <1>5 DEF identify_check
  <2>2. CASE attached = "none"
    BY <1>0, <1>5, <2>1, <2>2, Ended DEF identify_check
  <2>3. CASE attached # "none"
    <3>1. "busy" \in Steps(call[c].op) /\ "busy" \in Pcs
      BY <1>1, <2>1 DEF Steps, Pcs
    <3>2. attached = "drive" => drive.phase \in Phases("busy")
      BY <1>1, <2>1 DEF Phases
    <3> QED
      BY <1>0, <1>1, <1>5, <2>1, <2>3, <3>1, <3>2, Moved DEF identify_check
  <2> QED
    BY <2>2, <2>3
<1>6. CASE wait_busy(c)
  <2> DEFINE p == IF call[c].op = "identify" THEN "transfer" ELSE "drq"
  <2>1. call[c].pc = "busy" /\ poll(c, ~BSY, FALSE, p)
    BY <1>6 DEF wait_busy, ata_wait_bsy
  <2>2. p \in Steps(call[c].op) /\ p \in Pcs /\ p \in {"drq", "transfer"}
    BY <1>1, <2>1 DEF Steps, Pcs
  <2> HIDE DEF p
  <2>3. attached = "drive" =>
            /\ ~BSY \/ drive.phase = "stuck" => drive.phase \in Phases(p)
            /\ BSY => drive.phase \in {"busy", "writing", "stuck"}
    BY <1>1, <2>1, <2>2 DEF Phases, BSY
  <2> QED
    BY <1>1, <2>1, <2>2, <2>3, Polled
<1>7. CASE wait_drq(c)
  <2>1. call[c].pc = "drq" /\ poll(c, ~ERR /\ DRQ, ERR, "transfer")
    BY <1>7 DEF wait_drq, ata_wait_drq
  <2>2. "transfer" \in Steps(call[c].op) /\ "transfer" \in Pcs
    BY <1>1, <2>1 DEF Steps, Pcs
  <2>3. attached = "drive" =>
            /\ drive.phase \in Phases("transfer")
            /\ ERR => drive.phase \in {"idle", "error", "stuck"}
            /\ ~(~ERR /\ DRQ) /\ ~ERR => drive.phase \in {"busy", "writing", "stuck"}
    BY <1>1, <2>1 DEF Phases, ERR, DRQ
  <2>4. ERR \in BOOLEAN /\ (~ERR /\ DRQ) \in BOOLEAN
    BY DEF ERR, DRQ
  <2> QED
    BY <1>1, <2>1, <2>2, <2>3, <2>4, Polled
<1>8. CASE transfer_in(c)
  <2>1. /\ call[c].pc = "transfer" /\ call[c].op # "write"
        /\ drive' = (IF HandsOver THEN NoCommand ELSE drive)
        /\ UNCHANGED <<attached, regs, disk>>
    BY <1>8 DEF transfer_in
  <2>2. /\ drive.data \in Contents /\ drive' \in DriveType
        /\ attached # "drive" => drive' = drive
    BY <1>0, <2>1, NoCallFacts DEF DriveType, HandsOver
  <2>3. attached = "drive" => drive'.phase \in {"idle", "error", "stuck"}
    BY <1>0, <1>1, <2>1, NoCallFacts DEF Phases, HandsOver, CommandInv
  <2>4. PICK value \in Contents : Return(c, value)
    BY <1>0, <1>8, <2>2 DEF transfer_in
  <2> QED
    BY <2>1, <2>2, <2>3, <2>4, Ended
<1>9. CASE transfer_out(c)
  <2>1. /\ call[c].pc = "transfer" /\ call[c].op = "write" /\ Goto(c, "flush")
        /\ UNCHANGED <<attached, regs, disk, reply>>
    BY <1>9 DEF transfer_out
  <2>2. "flush" \in Steps(call[c].op) /\ "flush" \in Pcs
    BY <2>1 DEF Steps, Pcs
  <2>3. /\ call' \in [Callers -> CallType] /\ call'[c].pc = "flush" /\ call'[c].polls = 0
        /\ call'[c].op = call[c].op /\ call'[c].data = call[c].data
    BY <1>0, <2>1, <2>2, GotoFacts
  <2>4. CASE attached = "drive" /\ drive.phase = "transfer"
    <3> DEFINE d == [drive EXCEPT !.phase = "writing"]
               e == [d EXCEPT !.data = call[c].data]
    <3>1. drive' = e
      BY <1>0, <1>9, <2>1, <2>4 DEF transfer_out, CommandInv
    <3>2. d \in DriveType /\ d.phase = "writing" /\ d.cmd = drive.cmd
      BY <1>0 DEF DriveType
    <3> HIDE DEF d
    <3>3. e \in DriveType /\ e.phase = d.phase /\ e.cmd = d.cmd /\ e.data = call[c].data
      BY <1>1, <3>2 DEF DriveType
    <3> HIDE DEF e
    <3>4. TypeOK'
      BY <1>0, <2>1, <2>3, <3>1, <3>3 DEF TypeOK, DriveType, CallType, Pcs
    <3>5. CallInv' /\ NoDriveInv'
      BY <1>0, <2>1, <2>2, <2>3, <2>4 DEF CallInv, NoDriveInv
    <3>6. CommandInv'
      BY <1>0, <2>1, <2>3, <2>4, <3>1, <3>2, <3>3 DEF CommandInv
    <3>7. DriveInv'
      BY <2>1, <2>3, <3>1, <3>2, <3>3, DiskAssumption DEF DriveInv, Phases
    <3> QED
      BY <3>4, <3>5, <3>6, <3>7 DEF IInv
  <2>5. CASE ~(attached = "drive" /\ drive.phase = "transfer")
    <3>1. drive' = drive
      BY <1>9, <2>5 DEF transfer_out
    <3>2. attached = "drive" => drive.phase \in Phases("flush")
      BY <1>1, <2>1, <2>5 DEF Phases
    <3> QED
      BY <1>0, <1>1, <2>1, <2>2, <3>1, <3>2, Moved
  <2> QED
    BY <2>4, <2>5
<1>10. CASE wait_flush(c)
  <2>1. call[c].pc = "flush" /\ poll(c, ~BSY, FALSE, "return")
    BY <1>10 DEF wait_flush, ata_wait_bsy
  <2>2. "return" \in Steps(call[c].op) /\ "return" \in Pcs
    BY <1>1, <2>1 DEF Steps, Pcs
  <2>3. attached = "drive" =>
            /\ ~BSY \/ drive.phase = "stuck" => drive.phase \in Phases("return")
            /\ BSY => drive.phase \in {"busy", "writing", "stuck"}
    BY <1>1, <2>1 DEF Phases, BSY
  <2> QED
    BY <1>1, <2>1, <2>2, <2>3, Polled
<1>11. CASE write_returns(c)
  <2>1. attached = "drive" => drive.phase \in {"idle", "error", "stuck"}
    BY <1>1, <1>11 DEF write_returns, Phases
  <2> QED
    BY <1>0, <1>11, <2>1, Ended DEF write_returns
<1> QED
  BY <1>2, <1>3, <1>4, <1>5, <1>6, <1>7, <1>8, <1>9, <1>10, <1>11 DEF Driver

\* So does every step of the drive.
LEMMA DriveWorks ==
    ASSUME NEW c, Callers = {c}, IInv, NEW outcome \in {"ok"} \cup Faults,
           drive_answers(outcome) \/ drive_writes(outcome)
    PROVE  IInv' /\ attached = "drive"
<1>0. /\ TypeOK /\ call \in [Callers -> CallType] /\ call[c] \in CallType
      /\ drive \in DriveType /\ disk \in [Sectors -> Contents] /\ Nothing \in Contents
      /\ CallInv /\ NoDriveInv /\ DriveInv /\ CommandInv
  BY Types DEF IInv, Contents
<1>1. CASE drive_answers(outcome)
  <2> DEFINE ok == outcome = "ok" /\ (drive.cmd # "identify" => drive.addr < CAPACITY)
             ph == IF ok THEN "transfer" ELSE IF outcome = "stuck" THEN "stuck" ELSE "error"
             da == IF ok /\ drive.cmd = "read" THEN disk[drive.addr] ELSE Nothing
             d == [drive EXCEPT !.phase = ph]
             e == [d EXCEPT !.data = da]
  <2>1. /\ drive.phase = "busy" /\ drive' = e
        /\ UNCHANGED <<attached, regs, disk, call, reply>>
    BY <1>1 DEF drive_answers
  <2>2. da \in Contents
    <3>1. drive.addr \in Nat
      BY <1>0 DEF DriveType
    <3>2. ok /\ drive.cmd = "read" => drive.addr \in Sectors
      BY <3>1, DiskAssumption DEF Sectors
    <3> QED
      BY <1>0, <3>2
  <2>3. ph \in {"transfer", "stuck", "error"}
    OBVIOUS
  <2> HIDE DEF ph, da
  <2>4. d \in DriveType /\ d.phase = ph /\ d.cmd = drive.cmd
    BY <1>0, <2>3 DEF DriveType
  <2> HIDE DEF d
  <2>5. e \in DriveType /\ e.phase = ph /\ e.cmd = drive.cmd
    BY <2>2, <2>4 DEF DriveType
  <2> HIDE DEF e
  <2>6. attached = "drive" /\ ph \in Phases(call[c].pc)
    BY <1>0, <2>1, <2>3, NoCallFacts DEF NoDriveInv, DriveInv, Phases, CallType, Pcs
  <2>7. drive.cmd = call[c].op
    BY <1>0, <2>1 DEF CommandInv
  <2> QED
    BY <1>0, <2>1, <2>3, <2>5, <2>6, <2>7, Worked
<1>2. CASE drive_writes(outcome)
  <2>1. /\ drive.phase = "writing" /\ UNCHANGED <<attached, regs, call, reply>>
        /\ disk' = IF outcome = "ok" THEN [disk EXCEPT ![drive.addr] = drive.data] ELSE disk
    BY <1>2 DEF drive_writes
  <2>2. disk' \in [Sectors -> Contents]
    BY <1>0, <2>1 DEF DriveType
  <2>3. drive' \in DriveType /\ drive'.phase \in {"idle", "stuck", "error"}
    BY <1>0, <1>2, NoCallFacts DEF drive_writes, DriveType
  <2>4. attached = "drive" /\ drive'.phase \in Phases(call[c].pc)
    BY <1>0, <2>1, <2>3, NoCallFacts DEF NoDriveInv, DriveInv, Phases, CallType, Pcs
  <2> QED
    BY <2>1, <2>2, <2>3, <2>4, Worked
<1> QED
  BY <1>1, <1>2

\* Every step keeps the invariant.
LEMMA NextInv ==
    ASSUME NEW c, Callers = {c}, Late = FALSE, IInv, [Next]_vars
    PROVE  IInv'
<1>0. /\ TypeOK /\ call \in [Callers -> CallType] /\ regs \in RegsType
      /\ CallInv /\ NoDriveInv /\ DriveInv /\ CommandInv
  BY Types DEF IInv
<1>1. CASE disk_init \/ disk_present
  <2>1. /\ UNCHANGED <<attached, drive, disk, call, reply>>
        /\ regs' \in {regs, Registers(0), [regs EXCEPT !.top = 0]}
    BY <1>1 DEF disk_init, disk_present
  <2>2. Registers(0) \in RegsType /\ [regs EXCEPT !.top = 0] \in RegsType
    BY <1>0, RegistersType, DiskAssumption DEF RegsType
  <2>3. TypeOK'
    BY <1>0, <2>1, <2>2 DEF TypeOK, RegsType
  <2> QED
    BY <1>0, <2>1, <2>3 DEF IInv, CallInv, NoDriveInv, DriveInv, CommandInv
<1>2. ASSUME NEW lba \in Lbas, disk_read_sector(c, lba)
      PROVE  IInv'
  <2> DEFINE k == [op |-> "read", lba |-> lba, data |-> Nothing, pc |-> "ready", polls |-> 0]
  <2>1. k \in CallType /\ k.pc \in Steps(k.op)
    BY DiskAssumption DEF CallType, Pcs, Contents, Steps
  <2> QED
    BY <1>2, <2>1, Begun DEF disk_read_sector
<1>3. ASSUME NEW lba \in Lbas, NEW data \in Data, disk_write_sector(c, lba, data)
      PROVE  IInv'
  <2> DEFINE k == [op |-> "write", lba |-> lba, data |-> data, pc |-> "ready", polls |-> 0]
  <2>1. k \in CallType /\ k.pc \in Steps(k.op)
    BY DiskAssumption DEF CallType, Pcs, Contents, Steps
  <2> QED
    BY <1>3, <2>1, Begun DEF disk_write_sector
<1>4. CASE disk_identify(c)
  <2> DEFINE k == [op |-> "identify", lba |-> 0, data |-> Nothing, pc |-> "select", polls |-> 0]
  <2>1. k \in CallType /\ k.pc \in Steps(k.op)
    BY DiskAssumption DEF CallType, Pcs, Contents, Steps
  <2> QED
    BY <1>4, <2>1, Begun DEF disk_identify
<1>5. CASE Driver(c)
  BY <1>5, DriverInv
<1>6. CASE Drive
  BY <1>6, DriveWorks DEF Drive
<1>7. CASE UNCHANGED vars
  BY <1>0, <1>7 DEF vars, IInv, TypeOK, CallInv, NoDriveInv, DriveInv, CommandInv
<1> QED
  BY <1>1, <1>2, <1>3, <1>4, <1>5, <1>6, <1>7 DEF Next

\* The inductive invariant of the driver and the drive.
THEOREM Invariance ==
    ASSUME NEW c, Callers = {c}, Late = FALSE
    PROVE  Spec => []IInv
<1>1. Init => IInv
  BY InitInv
<1>2. IInv /\ [Next]_vars => IInv'
  BY NextInv
<1> QED
  BY <1>1, <1>2, PTL DEF Spec

\* Whatever is attached to the port and whichever commands fail or get stuck,
\* the polls and registers stay in range, and no call of disk.c returns with a
\* command under way or a sector waiting to be transferred: the next call does
\* not get the sector of this one.
THEOREM Soundness ==
    ASSUME NEW c, Callers = {c}, Late = FALSE
    PROVE  Spec => []DriverIsSound
<1>1. IInv => DriverIsSound
  <2> SUFFICES ASSUME IInv, call[c] = NoCall
               PROVE  drive.phase \notin {"busy", "transfer", "writing"}
    BY DEF IInv, DriverIsSound, NoTransferLeft
  <2> QED
    BY NoCallFacts DEF IInv, DriveInv, NoDriveInv, Phases
<1>2. Spec => []IInv
  BY Invariance
<1> QED
  BY <1>1, <1>2, PTL

-----------------------------------------------------------------------------
(* The driver implements a store of sectors.                               *)

\* A step of the call that changes neither its arguments nor the reply.
Silent(c) ==
    /\ UNCHANGED <<disk, reply>>
    /\ call' \in [Callers -> CallType]
    /\ call'[c].op = call[c].op /\ call'[c].lba = call[c].lba /\ call'[c].data = call[c].data

\* A step that ends the call: with the content of its sector, or with nothing.
Answers(c) ==
    /\ call[c].op # "none" /\ UNCHANGED disk
    /\ \E value \in Contents :
          /\ Return(c, value)
          /\ \/ value = Nothing
             \/ /\ call[c].op = "read" /\ call[c].lba \in Sectors
                /\ value = disk[call[c].lba]

\* A wait moves the call on, ends a read or takes a turn.
LEMMA PolledEffect ==
    ASSUME NEW c, Callers = {c}, IInv, call[c].op # "none", NEW done \in BOOLEAN,
           NEW failed \in BOOLEAN, NEW p \in Pcs, poll(c, done, failed, p)
    PROVE  /\ Silent(c) \/ Answers(c)
           /\ call'[c] = NoCall \/ call'[c].pc \in {call[c].pc, p}
<1>1. TypeOK /\ call \in [Callers -> CallType] /\ c \in Callers /\ Nothing \in Contents
      /\ UNCHANGED disk
  BY Types DEF IInv, Contents, poll
<1>2. CASE Goto(c, p) /\ UNCHANGED reply
  <2>1. /\ call' \in [Callers -> CallType] /\ call'[c].pc = p
        /\ call'[c].op = call[c].op /\ call'[c].lba = call[c].lba
        /\ call'[c].data = call[c].data
    BY <1>1, <1>2, GotoFacts
  <2> QED
    BY <1>1, <1>2, <2>1 DEF Silent
<1>3. CASE Return(c, Nothing)
  <2>1. call'[c] = NoCall
    BY <1>1, <1>3, ReturnFacts
  <2> QED
    BY <1>1, <1>3, <2>1 DEF Answers
<1>4. CASE call[c].polls # ATA_TIMEOUT /\ call' = [call EXCEPT ![c].polls = @ + 1]
           /\ UNCHANGED reply
  <2>1. /\ call' \in [Callers -> CallType] /\ call'[c].pc = call[c].pc
        /\ call'[c].op = call[c].op /\ call'[c].lba = call[c].lba
        /\ call'[c].data = call[c].data
    BY <1>1, <1>4, TickFacts
  <2> QED
    BY <1>1, <1>4, <2>1 DEF Silent
<1> QED
  BY <1>2, <1>3, <1>4 DEF poll, WaitFailed

\* AddressInv after a step that gives the drive nothing to do, or nothing new.
LEMMA AddressKept ==
    ASSUME NEW c, Callers = {c}, IInv, AddressInv, UNCHANGED <<attached, drive, disk>>,
           call'[c].pc # "command",
           \/ call'[c].lba = call[c].lba
           \/ drive.phase \notin {"busy", "transfer", "writing"}
    PROVE  AddressInv'
BY DEF AddressInv, Sectors

\* AddressInv when the drive is left with nothing to do.
LEMMA AddressIdle ==
    ASSUME NEW c, Callers = {c}, drive'.phase \notin {"busy", "transfer", "writing"},
           call'[c].pc # "command"
    PROVE  AddressInv'
BY DEF AddressInv

\* What the steps of the driver do to the call and, through the registers, to
\* the drive.
LEMMA DriverEffect ==
    ASSUME NEW c, Callers = {c}, Late = FALSE, \A l \in Lbas : l < AddressSpace,
           IInv, AddressInv, Driver(c)
    PROVE  AddressInv' /\ (Silent(c) \/ Answers(c))
<1>0. /\ TypeOK /\ call \in [Callers -> CallType] /\ c \in Callers /\ call[c] \in CallType
      /\ drive \in DriveType /\ Nothing \in Contents
      /\ CallInv /\ NoDriveInv /\ DriveInv /\ CommandInv
  BY Types DEF IInv, Contents
<1>1. /\ call[c].op \in {"none", "read", "write", "identify"}
      /\ call[c].pc \in Steps(call[c].op)
      /\ attached = "drive" => drive.phase \in Phases(call[c].pc)
      /\ call[c].lba \in Nat
      /\ call[c].pc # "none" => call[c].op # "none"
  BY <1>0, NoCallFacts, DiskAssumption DEF CallType, CallInv, DriveInv, Steps
<1>a. IInv'
  BY DriverInv
<1>b. call'[c] = NoCall =>
          drive'.phase \notin {"busy", "transfer", "writing"} /\ call'[c].pc # "command"
  BY <1>a, NoCallFacts DEF IInv, DriveInv, NoDriveInv, Phases
<1>2. ASSUME NEW done \in BOOLEAN, NEW failed \in BOOLEAN, NEW p \in Pcs,
             p # "command", call[c].pc # "command", call[c].op # "none", poll(c, done, failed, p)
      PROVE  AddressInv' /\ (Silent(c) \/ Answers(c))
  <2>1. /\ Silent(c) \/ Answers(c)
        /\ call'[c] = NoCall \/ call'[c].pc \in {call[c].pc, p}
    BY <1>2, PolledEffect
  <2>2. UNCHANGED <<attached, drive, disk>>
    BY <1>2 DEF poll
  <2>3. CASE call'[c] = NoCall
    BY <1>b, <2>1, <2>3, AddressIdle
  <2>4. CASE call'[c] # NoCall
    <3>1. Silent(c)
      BY <1>0, <2>1, <2>4, ReturnFacts DEF Answers
    <3>2. call'[c].lba = call[c].lba /\ call'[c].pc # "command"
      BY <1>2, <2>1, <2>4, <3>1 DEF Silent
    <3> QED
      BY <2>2, <3>1, <3>2, AddressKept
  <2> QED
    BY <2>3, <2>4
<1>3. CASE wait_ready(c)
  <2>1. call[c].pc = "ready" /\ poll(c, ~BSY, FALSE, "select") /\ "select" \in Pcs
    BY <1>3 DEF wait_ready, ata_wait_bsy, Pcs
  <2> QED
    BY <1>1, <1>2, <2>1
<1>4. CASE select(c)
  <2>1. /\ call[c].pc = "select" /\ Goto(c, "command") /\ "command" \in Pcs
        /\ UNCHANGED <<attached, drive, disk, reply>>
        /\ Listens => regs' = Registers(call[c].lba)
    BY <1>4 DEF select, Pcs
  <2>2. /\ call' \in [Callers -> CallType] /\ call'[c].pc = "command"
        /\ call'[c].op = call[c].op /\ call'[c].lba = call[c].lba
        /\ call'[c].data = call[c].data
    BY <1>0, <2>1, GotoFacts
  <2>3. attached = "drive" /\ drive.phase # "stuck" => Listens
    BY <1>1, <2>1 DEF Phases, Listens, BSY, DRQ
  <2>4. AddressInv'
    BY <2>1, <2>2, <2>3 DEF AddressInv, Sectors
  <2> QED
    BY <2>1, <2>2, <2>4 DEF Silent
<1>5. CASE command(c)
  <2> DEFINE p == IF call[c].op = "identify" THEN "check" ELSE "busy"
  <2>1. /\ call[c].pc = "command" /\ Goto(c, p) /\ UNCHANGED <<attached, regs, disk, reply>>
        /\ p \in Pcs /\ p # "command"
    BY <1>5 DEF command, Pcs
  <2> HIDE DEF p
  <2>2. /\ call' \in [Callers -> CallType] /\ call'[c].pc = p
        /\ call'[c].op = call[c].op /\ call'[c].lba = call[c].lba
        /\ call'[c].data = call[c].data
    BY <1>0, <2>1, GotoFacts
  <2>3. Silent(c)
    BY <2>1, <2>2 DEF Silent
  <2>4. CASE Listens
    <3>1. /\ drive' = [phase |-> "busy", cmd |-> call[c].op, addr |-> Address(regs),
                       data |-> Nothing]
          /\ attached = "drive" /\ drive.phase # "stuck"
      BY <1>5, <2>4 DEF command, Listens, BSY
    <3>2. regs = Registers(call[c].lba)
      BY <2>1, <3>1 DEF AddressInv
    <3>3. call[c].lba < AddressSpace
      <4>1. 0 < AddressSpace
        BY DiskAssumption DEF AddressSpace
      <4> QED
        BY <1>0, <4>1 DEF CallType
    <3>4. drive'.addr = call[c].lba /\ drive'.phase = "busy"
      BY <1>1, <3>1, <3>2, <3>3, AddressOfRegisters
    <3>5. AddressInv'
      BY <2>1, <2>2, <3>4 DEF AddressInv
    <3> QED
      BY <2>3, <3>5
  <2>5. CASE ~Listens
    <3>1. drive' = drive
      BY <1>5, <2>5 DEF command
    <3> QED
      BY <2>1, <2>2, <2>3, <3>1, AddressKept
  <2> QED
    BY <2>4, <2>5
<1>6. CASE identify_check(c)
  <2>1. /\ call[c].pc = "check" /\ UNCHANGED <<attached, regs, drive, disk>> /\ "busy" \in Pcs
        /\ Return(c, Nothing) \/ (Goto(c, "busy") /\ UNCHANGED reply)
    BY <1>6 DEF identify_check, Pcs
  <2>2. CASE Return(c, Nothing)
    <3>1. call'[c] = NoCall
      BY <1>0, <2>2, ReturnFacts
    <3>2. Answers(c)
      BY <1>0, <1>1, <2>1, <2>2 DEF Answers
    <3> QED
      BY <1>b, <3>1, <3>2, AddressIdle
  <2>3. CASE Goto(c, "busy") /\ UNCHANGED reply
    <3>1. /\ call' \in [Callers -> CallType] /\ call'[c].pc = "busy"
          /\ call'[c].op = call[c].op /\ call'[c].lba = call[c].lba
          /\ call'[c].data = call[c].data
      BY <1>0, <2>1, <2>3, GotoFacts
    <3>2. AddressInv'
      BY <2>1, <3>1, AddressKept
    <3> QED
      BY <2>1, <2>3, <3>1, <3>2 DEF Silent
  <2> QED
    BY <2>1, <2>2, <2>3
<1>7. CASE wait_busy(c)
  <2>1. call[c].pc = "busy" /\ \E p \in {"transfer", "drq"} : poll(c, ~BSY, FALSE, p)
    BY <1>7 DEF wait_busy, ata_wait_bsy
  <2>2. "transfer" \in Pcs /\ "drq" \in Pcs
    BY DEF Pcs
  <2> QED
    BY <1>1, <1>2, <2>1, <2>2
<1>8. CASE wait_drq(c)
  <2>1. call[c].pc = "drq" /\ poll(c, ~ERR /\ DRQ, ERR, "transfer") /\ "transfer" \in Pcs
    BY <1>8 DEF wait_drq, ata_wait_drq, Pcs
  <2>2. ERR \in BOOLEAN /\ (~ERR /\ DRQ) \in BOOLEAN
    BY DEF ERR, DRQ
  <2> QED
    BY <1>1, <1>2, <2>1, <2>2
<1>9. CASE transfer_in(c)
  <2> DEFINE value == IF HandsOver /\ call[c].op = "read" THEN drive.data ELSE Nothing
  <2>1. /\ call[c].pc = "transfer" /\ Return(c, value) /\ UNCHANGED <<attached, regs, disk>>
    BY <1>9 DEF transfer_in
  <2>2. value \in Contents
    BY <1>0 DEF DriveType
  <2>3. value = Nothing \/ /\ call[c].op = "read" /\ call[c].lba \in Sectors
                           /\ value = disk[call[c].lba]
    BY <1>0 DEF HandsOver, CommandInv, AddressInv
  <2> HIDE DEF value
  <2>4. Answers(c)
    BY <1>1, <2>1, <2>2, <2>3 DEF Answers
  <2>5. call'[c] = NoCall
    BY <1>0, <2>1, <2>2, ReturnFacts
  <2> QED
    BY <1>b, <2>4, <2>5, AddressIdle
<1>10. CASE transfer_out(c)
  <2>1. /\ call[c].pc = "transfer" /\ Goto(c, "flush") /\ "flush" \in Pcs
        /\ UNCHANGED <<attached, regs, disk, reply>>
    BY <1>10 DEF transfer_out, Pcs
  <2>2. /\ call' \in [Callers -> CallType] /\ call'[c].pc = "flush"
        /\ call'[c].op = call[c].op /\ call'[c].lba = call[c].lba
        /\ call'[c].data = call[c].data
    BY <1>0, <2>1, GotoFacts
  <2>3. Silent(c)
    BY <2>1, <2>2 DEF Silent
  <2>4. CASE drive' = drive
    BY <2>1, <2>2, <2>3, <2>4, AddressKept
  <2>5. CASE drive' # drive
    <3> DEFINE d == [drive EXCEPT !.phase = "writing"]
    <3>1. drive.phase = "transfer" /\ drive.cmd = "write"
          /\ drive' = [d EXCEPT !.data = call[c].data]
      BY <1>10, <2>5 DEF transfer_out
    <3>2. d \in DriveType /\ d.phase = "writing" /\ d.addr = drive.addr /\ d.cmd = drive.cmd
      BY <1>0 DEF DriveType
    <3> HIDE DEF d
    <3>3. drive'.phase = d.phase /\ drive'.addr = d.addr /\ drive'.cmd = d.cmd
      BY <3>1, <3>2 DEF DriveType
    <3>4. AddressInv'
      BY <2>1, <2>2, <3>1, <3>2, <3>3 DEF AddressInv, Sectors
    <3> QED
      BY <2>3, <3>4
  <2> QED
    BY <2>4, <2>5
<1>11. CASE wait_flush(c)
  <2>1. call[c].pc = "flush" /\ poll(c, ~BSY, FALSE, "return") /\ "return" \in Pcs
    BY <1>11 DEF wait_flush, ata_wait_bsy, Pcs
  <2> QED
    BY <1>1, <1>2, <2>1
<1>12. CASE write_returns(c)
  <2>1. call[c].pc = "return" /\ Return(c, Nothing) /\ UNCHANGED <<attached, regs, drive, disk>>
    BY <1>12 DEF write_returns
  <2>2. call'[c] = NoCall
    BY <1>0, <2>1, ReturnFacts
  <2>3. Answers(c)
    BY <1>0, <1>1, <2>1 DEF Answers
  <2> QED
    BY <1>b, <2>2, <2>3, AddressIdle
<1> QED
  BY <1>3, <1>4, <1>5, <1>6, <1>7, <1>8, <1>9, <1>10, <1>11, <1>12 DEF Driver

\* A call that begins.
Asks(c) ==
    /\ call[c] = NoCall /\ UNCHANGED <<attached, regs, drive, disk, reply>>
    /\ \E k \in CallType :
          /\ k.op # "none" /\ k.pc \in {"ready", "select"}
          /\ call' = [call EXCEPT ![c] = k]

\* disk_read_sector(), disk_write_sector() and disk_identify() begin that way.
LEMMA AsksEffect ==
    ASSUME NEW c, Callers = {c},
           \/ \E lba \in Lbas : disk_read_sector(c, lba)
           \/ \E lba \in Lbas, data \in Data : disk_write_sector(c, lba, data)
           \/ disk_identify(c)
    PROVE  Asks(c)
<1>1. ASSUME NEW lba \in Lbas, disk_read_sector(c, lba)
      PROVE  Asks(c)
  <2> DEFINE k == [op |-> "read", lba |-> lba, data |-> Nothing, pc |-> "ready", polls |-> 0]
  <2>1. k \in CallType /\ k.op # "none" /\ k.pc = "ready"
    BY DiskAssumption DEF CallType, Pcs, Contents
  <2> QED
    BY <1>1, <2>1 DEF disk_read_sector, Asks
<1>2. ASSUME NEW lba \in Lbas, NEW data \in Data, disk_write_sector(c, lba, data)
      PROVE  Asks(c)
  <2> DEFINE k == [op |-> "write", lba |-> lba, data |-> data, pc |-> "ready", polls |-> 0]
  <2>1. k \in CallType /\ k.op # "none" /\ k.pc = "ready"
    BY DiskAssumption DEF CallType, Pcs, Contents
  <2> QED
    BY <1>2, <2>1 DEF disk_write_sector, Asks
<1>3. CASE disk_identify(c)
  <2> DEFINE k == [op |-> "identify", lba |-> 0, data |-> Nothing, pc |-> "select", polls |-> 0]
  <2>1. k \in CallType /\ k.op # "none" /\ k.pc = "select"
    BY DiskAssumption DEF CallType, Pcs, Contents
  <2> QED
    BY <1>3, <2>1 DEF disk_identify, Asks
<1> QED
  BY <1>1, <1>2, <1>3

\* The sector of a write reaches the disk.
Commits(c) ==
    /\ call[c].op = "write" /\ call[c].lba \in Sectors
    /\ disk' = [disk EXCEPT ![call[c].lba] = call[c].data]
    /\ UNCHANGED <<call, reply>>

\* What a step of the drive does to the call and the disk.
LEMMA DriveEffect ==
    ASSUME NEW c, Callers = {c}, IInv, AddressInv, NEW outcome,
           drive_answers(outcome) \/ drive_writes(outcome)
    PROVE  AddressInv' /\ (Silent(c) \/ Commits(c))
<1>0. /\ call \in [Callers -> CallType] /\ c \in Callers /\ call[c] \in CallType
      /\ drive \in DriveType /\ drive.addr \in Nat /\ disk \in [Sectors -> Contents]
      /\ CAPACITY \in Nat /\ NoDriveInv /\ DriveInv /\ CommandInv
  BY Types, DiskAssumption DEF IInv, DriveType
<1>1. CASE drive_answers(outcome)
  <2> DEFINE ok == outcome = "ok" /\ (drive.cmd # "identify" => drive.addr < CAPACITY)
             ph == IF ok THEN "transfer" ELSE IF outcome = "stuck" THEN "stuck" ELSE "error"
             da == IF ok /\ drive.cmd = "read" THEN disk[drive.addr] ELSE Nothing
             d == [drive EXCEPT !.phase = ph]
             e == [d EXCEPT !.data = da]
  <2>1. drive.phase = "busy" /\ drive' = e /\ UNCHANGED <<attached, regs, disk, call, reply>>
    BY <1>1 DEF drive_answers
  <2>2. /\ ph = "transfer" /\ drive.cmd # "identify" => drive.addr < CAPACITY
        /\ ph = "transfer" /\ drive.cmd = "read" => da = disk[drive.addr]
        /\ ph \in {"transfer", "stuck", "error"}
    OBVIOUS
  <2> HIDE DEF ok, ph, da
  <2>3. d.phase = ph /\ d.cmd = drive.cmd /\ d.addr = drive.addr /\ d \in DriveType
    BY <1>0, <2>2 DEF DriveType
  <2> HIDE DEF d
  <2>4. e.phase = ph /\ e.cmd = drive.cmd /\ e.addr = drive.addr /\ e.data = da
    BY <2>3 DEF DriveType
  <2> HIDE DEF e
  <2>5. call[c].pc # "command"
    BY <1>0, <2>1, NoCallFacts DEF NoDriveInv, DriveInv, Phases
  <2>6. drive'.phase = "transfer" /\ drive'.cmd # "identify" => drive'.addr \in Sectors
    BY <1>0, <2>1, <2>2, <2>4 DEF Sectors
  <2>7. AddressInv'
    BY <2>1, <2>2, <2>4, <2>5, <2>6 DEF AddressInv, Sectors
  <2> QED
    BY <1>0, <2>1, <2>7 DEF Silent
<1>2. CASE drive_writes(outcome)
  <2>1. /\ drive.phase = "writing" /\ UNCHANGED <<attached, regs, call, reply>>
        /\ disk' = IF outcome = "ok" THEN [disk EXCEPT ![drive.addr] = drive.data] ELSE disk
    BY <1>2 DEF drive_writes
  <2>2. drive'.phase \in {"idle", "stuck", "error"}
    BY <1>0, <1>2, NoCallFacts DEF drive_writes, DriveType
  <2>3. call[c].pc = "flush"
    BY <1>0, <2>1, NoCallFacts DEF NoDriveInv, DriveInv, Phases, CallType, Pcs
  <2>4. call[c].op = "write"
    BY <2>3, <1>0 DEF IInv, CallInv, Steps, CallType
  <2>5. /\ drive.cmd = "write" /\ drive.data = call[c].data /\ drive.addr = call[c].lba
        /\ drive.addr \in Sectors
    BY <1>0, <2>1, <2>4 DEF CommandInv, AddressInv
  <2>6. AddressInv'
    BY <2>1, <2>2, <2>3, AddressIdle
  <2> QED
    BY <1>0, <2>1, <2>4, <2>5, <2>6 DEF Silent, Commits
<1> QED
  BY <1>1, <1>2

\* A step is seen by the callers as one of four, or not at all.
LEMMA NextEffect ==
    ASSUME NEW c, Callers = {c}, Late = FALSE, \A l \in Lbas : l < AddressSpace,
           IInv, AddressInv, [Next]_vars
    PROVE  AddressInv' /\ (Silent(c) \/ Answers(c) \/ Asks(c) \/ Commits(c))
<1>0. /\ TypeOK /\ call \in [Callers -> CallType] /\ c \in Callers
      /\ drive.phase \in Phases(call[c].pc) \/ drive = NoCommand
  BY Types DEF IInv, NoDriveInv, DriveInv
<1>1. CASE disk_init \/ disk_present
  <2>1. call[c] = NoCall /\ UNCHANGED <<attached, drive, disk, call, reply>>
    BY <1>1 DEF disk_init, disk_present
  <2>2. AddressInv'
    BY <2>1, NoCallFacts, AddressKept
  <2> QED
    BY <1>0, <2>1, <2>2 DEF Silent
<1>2. CASE \/ \E lba \in Lbas : disk_read_sector(c, lba)
           \/ \E lba \in Lbas, data \in Data : disk_write_sector(c, lba, data)
           \/ disk_identify(c)
  <2>1. Asks(c)
    BY <1>2, AsksEffect
  <2>2. PICK k \in CallType : k.pc \in {"ready", "select"} /\ call' = [call EXCEPT ![c] = k]
    BY <2>1 DEF Asks
  <2>3. drive.phase \notin {"busy", "transfer", "writing"}
    BY <1>0, <2>1, NoCallFacts DEF Asks, Phases
  <2>4. call'[c].pc # "command" /\ UNCHANGED <<attached, drive, disk>>
    BY <1>0, <2>1, <2>2 DEF Asks
  <2>5. AddressInv'
    BY <2>3, <2>4, AddressIdle
  <2> QED
    BY <2>1, <2>5
<1>3. CASE Driver(c)
  BY <1>3, DriverEffect
<1>4. CASE Drive
  BY <1>4, DriveEffect DEF Drive
<1>5. CASE UNCHANGED vars
  BY <1>0, <1>5 DEF vars, AddressInv, Silent, Sectors
<1> QED
  BY <1>1, <1>2, <1>3, <1>4, <1>5 DEF Next

\* When the registers can name every LBA that is asked for, the drive works on
\* the sector of the call and hands over the content of that sector.
THEOREM AddressInvariance ==
    ASSUME NEW c, Callers = {c}, Late = FALSE, \A l \in Lbas : l < AddressSpace
    PROVE  Spec => []AddressInv
<1>1. Init => AddressInv
  <2> SUFFICES ASSUME Init
               PROVE  AddressInv
    OBVIOUS
  <2>1. drive.phase = "idle" /\ call[c].pc = "none"
    BY NoCallFacts DEF Init
  <2> QED
    BY <2>1 DEF AddressInv
<1>2. IInv /\ AddressInv /\ [Next]_vars => AddressInv'
  BY NextEffect
<1>3. Spec => []IInv
  BY Invariance
<1> QED
  BY <1>1, <1>2, <1>3, PTL DEF Spec


\* The mapping: the sectors that the callers can name, and what they ask for.
Store == [l \in Lbas \cup {0} |-> IF l \in Sectors THEN disk[l] ELSE Nothing]
Request == [c \in Callers |-> [op |-> call[c].op, lba |-> call[c].lba, data |-> call[c].data]]

\* The arguments of a call.
Arguments(k) == [op |-> k.op, lba |-> k.lba, data |-> k.data]

\* What the mapping makes of the one caller's call.
LEMMA RequestOf ==
    ASSUME NEW c, Callers = {c}, call \in [Callers -> CallType]
    PROVE  /\ Request = [b \in Callers |-> Arguments(call[b])]
           /\ Request[c] = Arguments(call[c])
           /\ (Arguments(call[c]) = Arguments(NoCall)) => call[c].op = "none"
           /\ Arguments(NoCall) = Device!Idle
BY NoCallFacts DEF Request, Arguments, Device!Idle

\* The callers see a step of SectorDevice, or nothing.
LEMMA StepRefines ==
    ASSUME NEW c, Callers = {c}, IInv, IInv',
           Silent(c) \/ Answers(c) \/ Asks(c) \/ Commits(c)
    PROVE  [Device!Next]_(Device!devVars)
<1>0. /\ TypeOK /\ call \in [Callers -> CallType] /\ c \in Callers /\ call[c] \in CallType
      /\ call' \in [Callers -> CallType] /\ reply \in [Callers -> Contents]
      /\ disk \in [Sectors -> Contents]
  BY Types DEF IInv, TypeOK, CallType, Pcs
<1>1. Request = [b \in Callers |-> Arguments(call[b])] /\ Request[c] = Arguments(call[c])
  BY <1>0, RequestOf
<1>2. Request' = [b \in Callers |-> Arguments(call'[b])]
  BY DEF Request, Arguments
<1>3. UNCHANGED disk => UNCHANGED Store
  BY DEF Store, Sectors
<1>4. CASE Silent(c)
  <2>1. UNCHANGED <<Store, Request, reply>>
    BY <1>1, <1>2, <1>3, <1>4 DEF Silent, Arguments
  <2> QED
    BY <2>1 DEF Device!devVars, Store, Request
<1>5. CASE Asks(c)
  <2>1. PICK k \in CallType : k.op # "none" /\ call' = [call EXCEPT ![c] = k]
    BY <1>5 DEF Asks
  <2>2. Request' = [Request EXCEPT ![c] = Arguments(k)]
    BY <1>0, <1>1, <1>2, <2>1
  <2>3. UNCHANGED <<Store, reply>> /\ Request[c] = Device!Idle
    BY <1>0, <1>1, <1>3, <1>5, RequestOf DEF Asks
  <2>4. /\ k.op \in {"read", "write", "identify"} /\ k.lba \in Lbas \cup {0}
        /\ k.data \in Data \cup {Nothing}
    BY <2>1 DEF CallType, Contents
  <2>5. \E op \in {"read", "write", "identify"}, lba \in Lbas \cup {0},
           data \in Data \cup {Nothing} :
            Request' = [Request EXCEPT ![c] = [op |-> op, lba |-> lba, data |-> data]]
    BY <2>2, <2>4 DEF Arguments
  <2>6. Device!Ask(c)
    BY <2>3, <2>5 DEF Device!Ask, Store, Request
  <2> QED
    BY <1>0, <2>6 DEF Device!Next
<1>6. CASE Commits(c)
  <2>1. Request' = Request /\ UNCHANGED reply /\ Request[c].op = "write"
    BY <1>1, <1>2, <1>6 DEF Commits, Arguments
  <2>2. Store' = [Store EXCEPT ![call[c].lba] = call[c].data]
    <3>1. call[c].lba \in Sectors /\ disk' = [disk EXCEPT ![call[c].lba] = call[c].data]
      BY <1>6 DEF Commits
    <3>2. \A l \in Sectors : disk'[l] = IF l = call[c].lba THEN call[c].data ELSE disk[l]
      BY <1>0, <3>1
    <3>3. Store' = [l \in Lbas \cup {0} |-> IF l \in Sectors THEN disk'[l] ELSE Nothing]
      BY DEF Store, Sectors
    <3>4. Store' = [l \in Lbas \cup {0} |-> IF l = call[c].lba THEN call[c].data ELSE Store[l]]
      BY <3>1, <3>2, <3>3 DEF Store
    <3> QED
      BY <3>4 DEF Store
  <2>3. Request[c].lba = call[c].lba /\ Request[c].data = call[c].data
    BY <1>1 DEF Arguments
  <2>4. Device!Commit(c)
    BY <2>1, <2>2, <2>3 DEF Device!Commit, Store, Request
  <2> QED
    BY <1>0, <2>4 DEF Device!Next
<1>7. CASE Answers(c)
  <2>1. PICK value \in Contents :
            /\ Return(c, value)
            /\ \/ value = Nothing
               \/ /\ call[c].op = "read" /\ call[c].lba \in Sectors
                  /\ value = disk[call[c].lba]
    BY <1>7 DEF Answers
  <2>2. /\ call' = [call EXCEPT ![c] = NoCall] /\ reply' = [reply EXCEPT ![c] = value]
        /\ UNCHANGED disk /\ call[c].op # "none"
    BY <1>7, <2>1 DEF Return, Answers
  <2>3. Request' = [Request EXCEPT ![c] = Device!Idle] /\ UNCHANGED Store
    BY <1>0, <1>1, <1>2, <1>3, <2>2, RequestOf
  <2>4. Request[c] # Device!Idle /\ Request[c].op = call[c].op /\ Request[c].lba = call[c].lba
    BY <1>0, <1>1, <2>2, RequestOf DEF Arguments
  <2>5. CASE call[c].op = "read" /\ value = Nothing
    <3>1. Device!Fail(c)
      BY <2>2, <2>3, <2>4, <2>5 DEF Device!Fail, Store, Request
    <3> QED
      BY <1>0, <3>1 DEF Device!Next
  <2>6. CASE call[c].op # "read" \/ value # Nothing
    <3>1. value = IF call[c].op = "read" THEN Store[call[c].lba] ELSE Nothing
      BY <1>0, <2>1, <2>6 DEF Store, CallType
    <3>2. reply' = [reply EXCEPT ![c] = IF Request[c].op = "read" THEN Store[Request[c].lba]
                                       ELSE Nothing]
      BY <2>2, <2>4, <3>1
    <3>3. Request[c] # Device!Idle
      BY <2>4
    <3>4. Device!Answer(c)
      BY <2>3, <3>2, <3>3, Zenon DEF Device!Answer, Store, Request
    <3> QED
      BY <1>0, <3>4 DEF Device!Next
  <2> QED
    BY <2>5, <2>6
<1> QED
  BY <1>4, <1>5, <1>6, <1>7

\* The registers, waits and transfers of disk.c implement a store of sectors:
\* whatever is attached and whichever commands fail or hang, a read returns the
\* content of its sector or fails, and a write changes its sector or none.
THEOREM Refinement ==
    ASSUME NEW c, Callers = {c}, Late = FALSE, \A l \in Lbas : l < AddressSpace
    PROVE  Spec => ImplementsSectorDevice
<1>1. Init => Device!Init
  <2> SUFFICES ASSUME Init
               PROVE  Device!Init
    OBVIOUS
  <2>1. /\ disk = [s \in Sectors |-> Nothing] /\ call = [b \in Callers |-> NoCall]
        /\ reply = [b \in Callers |-> Nothing]
    BY DEF Init, Sectors
  <2>2. Store \in [Lbas \cup {0} -> Data \cup {Nothing}]
    BY <2>1 DEF Store
  <2>3. Request = [b \in Callers |-> Device!Idle]
    BY <2>1 DEF Request, NoCall, Device!Idle
  <2> QED
    BY <2>1, <2>2, <2>3 DEF Device!Init, Store, Request
<1>2. IInv /\ AddressInv /\ IInv' /\ [Next]_vars => [Device!Next]_(Device!devVars)
  BY NextEffect, StepRefines
<1>3. Spec => []IInv /\ []AddressInv
  BY Invariance, AddressInvariance
<1> QED
  BY <1>1, <1>2, <1>3, PTL DEF Spec, ImplementsSectorDevice, Device!Spec

=============================================================================
