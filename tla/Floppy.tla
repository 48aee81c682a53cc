------------------------------- MODULE Floppy -------------------------------
(***************************************************************************)
(* The floppy driver: src/src/kernel/drivers/fdc.c, with the channel it    *)
(* programs in src/src/kernel/hal/dma.c, over an 82077 controller modelled *)
(* from how the driver talks to it.                                        *)
(*                                                                         *)
(* A function of the driver is the sequence of the steps it takes; `todo`  *)
(* holds what a process has left to do.  A step is what the driver does    *)
(* between two places where it waits, for the lock, for time to pass or    *)
(* for the controller; the bytes of one command are one step.  fdc_lock is *)
(* the FifoLock that Mutex is shown to implement.                          *)
(***************************************************************************)
EXTENDS Integers, Sequences, SequencesExt

CONSTANTS
    Client,    \* processes that use the disk
    starter,   \* the one that runs FDC_initialize
    nobody,    \* no process
    SPT,       \* FDC_SECTOR_PER_TRACK: 18
    HEADS,     \* FDC_HEAD: 2
    SECTORS,   \* sectors of the disk: 2880
    MAXCOUNT,  \* sectors the buffer holds: 128
    TRIES,     \* attempts of FDC_seek and FDC_calibrate: 10
    Requests   \* [lba, count] asked of FDC_readSectors

ASSUME FloppyAssumption ==
    /\ starter \in Client /\ nobody \notin Client
    /\ {SPT, HEADS, SECTORS, MAXCOUNT, TRIES} \subseteq Nat \ {0}
    /\ SECTORS % (SPT * HEADS) = 0
    /\ Requests \subseteq [lba : Nat, count : Nat]

VARIABLES
    todo,    \* the steps each process still has to take in the driver
    asked,   \* the request it is in, or was in last
    holder, depth, queue,  \* fdc_lock
    fired,   \* g_irqFired
    dor,     \* the DOR: "off" (in reset), "on", "motor"
    phase,   \* of the controller: "off", "command", "exec", "result"
    cmd,     \* the command it executes
    cyl,     \* the cylinder its head is on
    irq,     \* its interrupt is pending
    dma,     \* the place in the buffer that channel 2 is set to
    buffer,  \* fdc_buffer: the sector each part of it was read from, -1: none
    astray   \* the driver went on before the controller did what it was told

lockVars == <<holder, depth, queue>>
fdcVars == <<dor, phase, cmd, cyl, irq, dma, buffer>>
floppyVars == <<todo, asked, lockVars, fired, fdcVars, astray>>

Lock == INSTANCE FifoLock

Cylinder == 0 .. SECTORS \div (SPT * HEADS) - 1

-----------------------------------------------------------------------------
(***************************************************************************)
(* The functions, as sequences of steps                                    *)
(***************************************************************************)
Step(op) == <<[op |-> op]>>
Acquire == Step("acquire")
Release == Step("release")
Wait == Step("wait")
Dor(value) == <<[op |-> "dor", value |-> value]>>
Send(c) == <<[op |-> "send", cmd |-> c]>>
Sense == Send([op |-> "sense"]) \o Step("sense")

ControlMotor(on) == Dor(IF on THEN "motor" ELSE "on") \o Step("sleep")

\* A command that moves the head to cylinder c is repeated up to n times.
Attempt(c, name, n) ==
    Send([op |-> name, cyl |-> c]) \o Wait \o Sense
        \o <<[op |-> "test", cyl |-> c, name |-> name, left |-> n - 1]>>

Seek(c) == Acquire \o Attempt(c, "seek", TRIES) \o Release

\* Mutated, to show that CallReturns can fail: the lock is kept.
CalibrateHeld ==
    Acquire \o ControlMotor(TRUE) \o Attempt(0, "calibrate", TRIES)
        \o ControlMotor(FALSE)

Calibrate ==
    Acquire \o ControlMotor(TRUE) \o Attempt(0, "calibrate", TRIES)
        \o ControlMotor(FALSE) \o Release

ResetController ==
    Acquire
        \o (Acquire \o Dor("off") \o Release)
        \o (Acquire \o Dor("on") \o Release)
        \o Wait \o Sense \o Sense \o Sense \o Sense
        \o Send([op |-> "specify"])
        \o Calibrate
        \o Release

SetCurrentDrive == Acquire \o Dor("on") \o Release

Initialize == SetCurrentDrive \o ResetController

\* fdc_lba2chs.
Chs(lba) ==
    [sector |-> (lba % SPT) + 1,
     cyl |-> (lba \div SPT) \div HEADS,
     head |-> (lba \div SPT) % HEADS]

SectorRead(chs, place) ==
    <<[op |-> "dma", place |-> place]>>
        \o Send([op |-> "read", chs |-> chs]) \o Wait
        \o <<[op |-> "result", turn |-> place]>>

\* The sector that turn i of the loop reads: lba = lba + i, each time.
LbaAt(lba, i) == lba + (i * (i + 1)) \div 2

\* Turn i of the loop, if there is one: the step that ends it turns again.
Turn(r, i) ==
    LET chs == Chs(LbaAt(r.lba, i))
    IN  IF i < r.count THEN Seek(chs.cyl) \o SectorRead(chs, i) ELSE <<>>

\* Mutated, to show that ReadsWhatWasAsked can fail: the buffer is copied
\* after the lock is given back.
ReadSectorsUnlocked(r) ==
    Acquire \o ControlMotor(TRUE) \o Turn(r, 0) \o ControlMotor(FALSE)
        \o Release \o Step("copy")

ReadSectors(r) ==
    Acquire \o ControlMotor(TRUE) \o Turn(r, 0) \o ControlMotor(FALSE)
        \o Step("copy") \o Release

-----------------------------------------------------------------------------
(***************************************************************************)
(* The driver                                                              *)
(***************************************************************************)
NoRequest == [lba |-> -1, count |-> 0]

FloppyInit ==
    /\ todo = [p \in Client |-> IF p = starter THEN Initialize ELSE <<>>]
    /\ asked = [p \in Client |-> NoRequest]
    /\ Lock!Init
    /\ fired = FALSE
    /\ dor \in {"on", "motor"} /\ phase = "command" /\ cmd = [op |-> "none"]
    /\ cyl \in Cylinder
    /\ irq = FALSE
    /\ dma = 0
    /\ buffer = [k \in 0 .. MAXCOUNT - 1 |-> -1]
    /\ astray = FALSE

\* p runs, and not in the queue of the lock, and its next step is op.
At(p, op) == todo[p] # <<>> /\ Head(todo[p]).op = op /\ p \notin ToSet(queue)

Now(p) == Head(todo[p])

\* p goes past its step, with `more` to do first.
GoOn(p, more) == todo' = [todo EXCEPT ![p] = more \o Tail(@)]

\* Nobody reads before FDC_initialize is through.
Started == todo[starter] = <<>> \/ asked[starter] # NoRequest

\* FDC_readSectors returns at once if the buffer is too small, or the disk.
Call(p) ==
    /\ todo[p] = <<>> /\ Started
    /\ \E r \in Requests :
        /\ r.count <= MAXCOUNT /\ r.lba + r.count <= SECTORS
        /\ asked' = [asked EXCEPT ![p] = r]
        /\ todo' = [todo EXCEPT ![p] = ReadSectors(r)]
    /\ UNCHANGED <<lockVars, fired, fdcVars, astray>>

TakeLock(p) ==
    /\ At(p, "acquire")
    /\ Lock!Acquire(p)
    /\ GoOn(p, <<>>)
    /\ UNCHANGED <<asked, fired, fdcVars, astray>>

GiveLock(p) ==
    /\ At(p, "release")
    /\ Lock!Release(p)
    /\ GoOn(p, <<>>)
    /\ UNCHANGED <<asked, fired, fdcVars, astray>>

\* sleep(50): the lock stays with p.
Sleep(p) ==
    /\ At(p, "sleep")
    /\ GoOn(p, <<>>)
    /\ UNCHANGED <<asked, lockVars, fired, fdcVars, astray>>

\* FDC_writeDor; a controller that leaves the reset interrupts.
WriteDor(p) ==
    /\ At(p, "dor")
    /\ dor' = Now(p).value
    /\ IF Now(p).value = "off" THEN phase' = "off" /\ UNCHANGED cmd
       ELSE IF dor = "off" THEN phase' = "exec" /\ cmd' = [op |-> "reset"]
       ELSE UNCHANGED <<phase, cmd>>
    /\ GoOn(p, <<>>)
    /\ UNCHANGED <<asked, lockVars, fired, cyl, irq, dma, buffer, astray>>

\* FDC_initializeDma and FDC_dmaRead.
ProgramDma(p) ==
    /\ At(p, "dma")
    /\ dma' = Now(p).place
    /\ GoOn(p, <<>>)
    /\ UNCHANGED <<asked, lockVars, fired, dor, phase, cmd, cyl, irq, buffer, astray>>

\* FDC_sendCommand for each byte: the controller takes them in the command
\* phase, and the driver gives up on them in any other.
SendCommand(p) ==
    /\ At(p, "send")
    /\ IF phase = "command"
       THEN /\ cmd' = Now(p).cmd
            /\ phase' = CASE Now(p).cmd.op = "sense" -> "result"
                          [] Now(p).cmd.op = "specify" -> "command"
                          [] OTHER -> "exec"
            /\ UNCHANGED astray
       ELSE astray' = TRUE /\ UNCHANGED <<cmd, phase>>
    /\ GoOn(p, <<>>)
    /\ UNCHANGED <<asked, lockVars, fired, dor, cyl, irq, dma, buffer>>

\* FDC_waitIrq finds the flag set.
\* Mutated, to show that InStep can fail: the flag is not reset.
FlagKept == fired

FlagReset == FALSE

WaitIrq(p) ==
    /\ At(p, "wait")
    /\ fired
    /\ fired' = FlagReset
    /\ GoOn(p, <<>>)
    /\ UNCHANGED <<asked, lockVars, fdcVars, astray>>

\* Its count runs out: `timeout--` wraps, and the flag is reset as if the
\* interrupt had come; only one that comes in the very last turn leaves it
\* set.  Nobody looks at the result.
WaitTimesOut(p) ==
    /\ At(p, "wait")
    /\ fired' \in {FALSE, fired}
    /\ astray' = TRUE
    /\ GoOn(p, <<>>)
    /\ UNCHANGED <<asked, lockVars, fdcVars>>

\* FDC_checkInterruptStatus reads the cylinder, the loop of FDC_seek or
\* FDC_calibrate compares it and ends, or turns; after its last turn the
\* head is elsewhere, and FDC_readSectors reads all the same.
ReadStatus(p) ==
    /\ At(p, "sense")
    /\ phase' = "command"
    /\ astray' = (astray \/ phase # "result")
    /\ GoOn(p, <<>>)
    /\ UNCHANGED <<asked, lockVars, fired, dor, cmd, cyl, irq, dma, buffer>>

TestCylinder(p) ==
    /\ At(p, "test")
    /\ \E seen \in IF astray THEN Cylinder ELSE {cyl} :
        IF seen = Now(p).cyl THEN GoOn(p, <<>>) /\ UNCHANGED astray
        ELSE IF Now(p).left = 0 THEN GoOn(p, <<>>) /\ astray' = TRUE
        ELSE GoOn(p, Attempt(Now(p).cyl, Now(p).name, Now(p).left)) /\ UNCHANGED astray
    /\ UNCHANGED <<asked, lockVars, fired, fdcVars>>

\* The seven FDC_readData that end a read; the loop turns.
ReadResult(p) ==
    /\ At(p, "result")
    /\ phase' = IF phase = "result" THEN "command" ELSE phase
    /\ astray' = (astray \/ phase # "result")
    /\ GoOn(p, Turn(asked[p], Now(p).turn + 1))
    /\ UNCHANGED <<asked, lockVars, fired, dor, cmd, cyl, irq, dma, buffer>>

\* memcpy to the caller.
Copy(p) ==
    /\ At(p, "copy")
    /\ GoOn(p, <<>>)
    /\ UNCHANGED <<asked, lockVars, fired, fdcVars, astray>>

Drives(p) ==
    \/ TakeLock(p) \/ GiveLock(p) \/ Sleep(p) \/ WriteDor(p) \/ ProgramDma(p)
    \/ SendCommand(p) \/ WaitIrq(p) \/ WaitTimesOut(p) \/ ReadStatus(p)
    \/ TestCylinder(p) \/ ReadResult(p) \/ Copy(p)

-----------------------------------------------------------------------------
(***************************************************************************)
(* The controller                                                          *)
(***************************************************************************)

\* What is at cylinder, head and sector, -1 if there is no such sector.
SectorAt(c, chs) ==
    IF chs.sector \in 1 .. SPT /\ chs.cyl = c
        THEN (c * HEADS + chs.head) * SPT + chs.sector - 1
        ELSE -1

\* A seek may miss its cylinder.
MoveHead ==
    /\ phase = "exec" /\ cmd.op \in {"seek", "calibrate"}
    /\ cyl' \in Cylinder
    /\ phase' = "command" /\ irq' = TRUE
    /\ UNCHANGED <<dor, cmd, dma, buffer>>

\* A read needs the motor, and stops at a sector that is not there.
Transfer ==
    /\ phase = "exec" /\ cmd.op = "read"
    /\ buffer' = IF dor = "motor" /\ SectorAt(cyl, cmd.chs) # -1
                 THEN [buffer EXCEPT ![dma] = SectorAt(cyl, cmd.chs)] ELSE buffer
    /\ phase' = "result" /\ irq' = TRUE
    /\ UNCHANGED <<dor, cmd, cyl, dma>>

Restart ==
    /\ phase = "exec" /\ cmd.op = "reset"
    /\ phase' = "command" /\ irq' = TRUE
    /\ UNCHANGED <<dor, cmd, cyl, dma, buffer>>

Controller ==
    /\ MoveHead \/ Transfer \/ Restart
    /\ UNCHANGED <<todo, asked, lockVars, fired, astray>>

\* FDC_interruptHandler.
Interrupt ==
    /\ irq
    /\ irq' = FALSE
    /\ fired' = TRUE
    /\ UNCHANGED <<todo, asked, lockVars, dor, phase, cmd, cyl, dma, buffer, astray>>

FloppyNext ==
    \/ \E p \in Client : Call(p) \/ Drives(p)
    \/ Controller
    \/ Interrupt

\* A process that can go on does so in the end; the controller owes nothing.
FloppySpec ==
    /\ FloppyInit /\ [][FloppyNext]_floppyVars
    /\ \A p \in Client : WF_floppyVars(Drives(p))

-----------------------------------------------------------------------------
(***************************************************************************)
(* Properties                                                              *)
(***************************************************************************)

\* As long as the controller answers in time, driver and controller agree on
\* the phase of every command, each wait is for the interrupt of its own
\* command, and the driver leaves the disk at rest: lock free, motor off.
InStep ==
    /\ ~astray => \A p \in Client :
        /\ At(p, "send") => phase = "command" /\ ~irq /\ ~fired
        /\ At(p, "wait") => phase = "exec" \/ irq \/ fired
        /\ At(p, "sense") \/ At(p, "result") => phase = "result"
    /\ (\A p \in Client : todo[p] = <<>>) =>
        /\ holder = nobody /\ depth = 0
        /\ dor = "on"
        /\ ~astray => phase = "command" /\ ~irq /\ ~fired

\* FDC_readSectors copies to its caller the sectors it was asked for, no
\* other and nobody else's.
ReadsWhatWasAsked ==
    \A p \in Client : At(p, "copy") /\ ~astray =>
        \A k \in 0 .. asked[p].count - 1 : buffer[k] = asked[p].lba + k

\* Every call returns, even if the controller never answers.
CallReturns == \A p \in Client : todo[p] # <<>> ~> todo[p] = <<>>
=============================================================================
