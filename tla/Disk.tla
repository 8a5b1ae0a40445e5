------------------------------- MODULE Disk --------------------------------
(***************************************************************************)
(* Reading a sector in the boot loader (boot/device/block): the clamp of a *)
(* partition (part.c), the command blocks of ata.c and atapi.c, and the    *)
(* programmed I/O of ide_isa.c, against two drives on one channel that may *)
(* fail at any point.                                                      *)
(*                                                                         *)
(* A sector is its drive and its number.  A byte has BYTE values and half  *)
(* a byte NIBBLE: with 256 and 16 the numbers below are those of the code. *)
(* The drives are external.                                                *)
(***************************************************************************)
EXTENDS Integers, Sequences

CONSTANTS
    BYTE, NIBBLE,
    DriveKinds,   \* which drives may be attached: functions on 0..1
    Parts,        \* partitions of a disk: records base, limit
    Lbas,         \* sectors that are asked for
    Counts,       \* how many
    MaxRequests   \* bound on the reads

Lba28 == BYTE * BYTE * BYTE * NIBBLE
UINT16_MAX == BYTE * BYTE - 1
Digit(n, i) == (n \div BYTE^i) % BYTE

VARIABLES
    attached,   \* attached[s]: "none", "ata" or "atapi"
    found,      \* found[s]: what detect_device has made of it
    regs,       \* the register block; hob: what the registers held before
    hob,
    sel,        \* the selected drive
    drive,      \* the drive that works on a command
    req,        \* the read: what was asked for and what is sent
    pc,         \* where the driver is
    buf,        \* the sectors that were read
    requests

dkvars == <<attached, found, regs, hob, sel, drive, req, pc, buf, requests>>

Idle == [bsy |-> FALSE, drq |-> FALSE, err |-> FALSE, lba |-> 0, left |-> 0,
         packet |-> FALSE]
NoRegs == [count |-> 0, sector |-> 0, low |-> 0, high |-> 0, head |-> 0]

----------------------------------------------------------------------------
(* The drives *)

\* A count of zero stands for all that the register can hold.
Count(n, all) == IF n = 0 THEN all ELSE n

Start(ext, r, h) ==
    IF ext
      THEN [Idle EXCEPT
              !.bsy = TRUE,
              !.left = Count(h.count * BYTE + r.count, BYTE * BYTE),
              !.lba = r.sector + BYTE * r.low + BYTE^2 * r.high
                      + BYTE^3 * h.sector + BYTE^4 * h.low + BYTE^5 * h.high]
      ELSE [Idle EXCEPT
              !.bsy = TRUE,
              !.left = Count(r.count, BYTE),
              !.lba = r.sector + BYTE * r.low + BYTE^2 * r.high
                      + BYTE^3 * r.head]

\* The drive has the next sector, wants the packet, or fails.
DriveReady ==
    /\ drive.bsy
    /\ drive' = [drive EXCEPT !.bsy = FALSE, !.drq = TRUE]
    /\ UNCHANGED <<attached, found, regs, hob, sel, req, pc, buf, requests>>

DriveFails ==
    /\ drive.bsy
    /\ drive' = [drive EXCEPT !.bsy = FALSE, !.err = TRUE]
    /\ UNCHANGED <<attached, found, regs, hob, sel, req, pc, buf, requests>>

\* What the data register gives, and the drive after it.
Sector == IF drive.drq THEN <<sel, drive.lba>> ELSE <<"garbage">>
Taken == IF ~drive.drq THEN drive
         ELSE [drive EXCEPT !.drq = FALSE, !.lba = @ + 1, !.left = @ - 1,
                            !.bsy = drive.left > 1]

----------------------------------------------------------------------------
(* part.c, ata.c and atapi.c *)

\* What is left of count: nothing of the last sector of the partition, and
\* for an lba behind it less than nothing, a very large number.
Clamp(p, lba, count) ==
    IF p.base + lba + count > p.limit
      THEN LET c == count - (p.base + lba + count - p.limit)
           IN  IF c < 0 THEN UINT16_MAX + 1 ELSE c
      ELSE count

\* The read of a partition: an error, nothing, or the read of the disk.
part_read(p, lba, count) ==
    CASE lba > p.limit -> [status |-> "INVALID_VALUE"]
      [] lba <= p.limit /\ Clamp(p, lba, count) < 1 -> [status |-> "SUCCESS"]
      [] OTHER -> [status |-> "go", lba |-> p.base + lba,
                   count |-> Clamp(p, lba, count)]

\* The sector number over the registers, with 28 or with 48 bits.
ata_read(slave, lba, count) ==
    LET n == IF count > UINT16_MAX THEN UINT16_MAX ELSE count
    IN  IF lba < Lba28
          THEN [ext |-> FALSE, slave |-> slave, n |-> n, packet |-> FALSE,
                hi |-> NoRegs,
                lo |-> [count |-> n % BYTE, sector |-> Digit(lba, 0),
                        low |-> Digit(lba, 1), high |-> Digit(lba, 2),
                        head |-> Digit(lba, 3) % NIBBLE]]
          ELSE [ext |-> TRUE, slave |-> slave, n |-> n, packet |-> FALSE,
                hi |-> [count |-> n \div BYTE, sector |-> Digit(lba, 3),
                        low |-> Digit(lba, 4), high |-> Digit(lba, 5),
                        head |-> 0],
                lo |-> [count |-> n % BYTE, sector |-> Digit(lba, 0),
                        low |-> Digit(lba, 1), high |-> Digit(lba, 2),
                        head |-> 0]]

\* The packet has the sector and the count in four bytes each.
atapi_read(slave, lba, count) ==
    [ext |-> FALSE, slave |-> slave, n |-> count, packet |-> TRUE,
     hi |-> NoRegs, lo |-> NoRegs,
     lba |-> [i \in 0..3 |-> Digit(lba, i)],
     count |-> [i \in 0..3 |-> Digit(count, i)]]

NoReq == [status |-> "none", slave |-> 0, lba |-> 0, count |-> 0,
          part |-> [base |-> 0, limit |-> 0], inPart |-> FALSE]

Asked(s, inPart, p, lba, count) ==
    [NoReq EXCEPT !.slave = s, !.inPart = inPart, !.part = p, !.lba = lba,
                  !.count = count, !.status = "running"]

\* A file system reads from a disk or from a partition of it.  (A medium of a
\* packet device has fewer sectors than four bytes can count.)
Read ==
    /\ pc = <<"idle">> /\ requests < MaxRequests
    /\ requests' = requests + 1
    /\ buf' = <<>>
    /\ \E s \in 0..1, lba \in Lbas, count \in Counts :
         /\ found[s] = "ata" \/ (found[s] = "atapi" /\ lba < BYTE^4)
         /\ \/ LET a == Asked(s, FALSE, NoReq.part, lba, count)
               IN  /\ req' = a
                   /\ pc' = <<"switch",
                              IF found[s] = "ata"
                                THEN ata_read(s, lba, count)
                                ELSE atapi_read(s, lba, count)>>
            \/ \E p \in Parts :
                 LET r == part_read(p, lba, count)
                     a == Asked(s, TRUE, p, lba, count)
                 IN  /\ found[s] = "ata"
                     /\ IF r.status = "go"
                          THEN /\ req' = a
                               /\ pc' = <<"switch",
                                          ata_read(s, r.lba, r.count)>>
                          ELSE /\ req' = [a EXCEPT !.status = r.status]
                               /\ pc' = <<"idle">>
    /\ UNCHANGED <<attached, found, regs, hob, sel, drive>>

----------------------------------------------------------------------------
(* ide_isa.c *)

Cmd == pc[2]
GoTo(l) == pc' = <<l, Cmd>>
Finish(status) == pc' = <<"idle">> /\ req' = [req EXCEPT !.status = status]

\* The signature a reset leaves: of a packet device, of a disk, or of a drive
\* that is not there.  Only a disk or a packet device that answers the
\* identify command is found.
detect_device ==
    /\ pc = <<"idle">>
    /\ \E s \in 0..1 :
         /\ found[s] = "unknown"
         /\ \E ok \in BOOLEAN :
              found' = [found EXCEPT ![s] =
                          IF ok /\ attached[s] # "none" THEN attached[s]
                          ELSE "none"]
         /\ sel' = s
    /\ UNCHANGED <<attached, regs, hob, drive, req, pc, buf, requests>>

\* Mutant: the drive is not selected.
drive_not_switched ==
    /\ pc[1] = "switch" /\ ~drive.bsy
    /\ GoTo(IF Cmd.packet THEN "packet" ELSE "command")
    /\ UNCHANGED <<attached, found, regs, hob, sel, drive, req, buf, requests>>

switch_device ==
    /\ pc[1] = "switch" /\ ~drive.bsy
    /\ sel' = Cmd.slave
    /\ GoTo(IF Cmd.packet THEN "packet" ELSE "command")
    /\ UNCHANGED <<attached, found, regs, hob, drive, req, buf, requests>>

\* An extended command writes every register twice, the high byte first.
send_command ==
    /\ pc[1] = "command"
    /\ regs' = Cmd.lo
    /\ hob' = IF Cmd.ext THEN Cmd.hi ELSE regs
    /\ drive' = Start(Cmd.ext, regs', hob')
    /\ GoTo("wait")
    /\ UNCHANGED <<attached, found, sel, req, buf, requests>>

WaitCommand ==
    /\ pc[1] = "wait" /\ ~drive.bsy
    /\ IF drive.err THEN Finish("HARDWARE_FAILED")
                    ELSE GoTo("data") /\ UNCHANGED req
    /\ UNCHANGED <<attached, found, regs, hob, sel, drive, buf, requests>>

\* The status is looked at before each sector, but not whether the drive has
\* one.
send_command_pio_input ==
    /\ pc[1] = "data" /\ ~drive.bsy
    /\ IF drive.err THEN GoTo("end") /\ UNCHANGED <<buf, drive>>
       ELSE /\ buf' = Append(buf, Sector)
            /\ drive' = Taken
            /\ GoTo(IF Len(buf) + 1 < Cmd.n THEN "data" ELSE "end")
    /\ UNCHANGED <<attached, found, regs, hob, sel, req, requests>>

\* The PACKET command; then the packet, when the drive wants it.
send_command_packet ==
    /\ \/ /\ pc[1] = "packet"
          /\ drive' = [Idle EXCEPT !.bsy = TRUE, !.packet = TRUE]
          /\ GoTo("send") /\ UNCHANGED req
       \/ /\ pc[1] = "send" /\ ~drive.bsy
          /\ IF drive.err THEN Finish("HARDWARE_FAILED") /\ UNCHANGED drive
             ELSE /\ drive.drq
                  /\ LET N(f) == f[0] + BYTE * f[1] + BYTE^2 * f[2]
                                 + BYTE^3 * f[3]
                     IN  drive' = [Idle EXCEPT !.bsy = TRUE,
                                               !.lba = N(Cmd.lba),
                                               !.left = N(Cmd.count)]
                  /\ GoTo("sent") /\ UNCHANGED req
       \/ /\ pc[1] = "sent" /\ ~drive.bsy
          /\ IF drive.err THEN Finish("HARDWARE_FAILED")
                          ELSE GoTo("blocks") /\ UNCHANGED req
          /\ UNCHANGED drive
    /\ UNCHANGED <<attached, found, regs, hob, sel, buf, requests>>

\* Each block is waited for.
send_command_packet_input ==
    /\ pc[1] = "blocks" /\ ~drive.bsy
    /\ IF drive.err THEN GoTo("end") /\ UNCHANGED <<buf, drive>>
       ELSE /\ drive.drq
            /\ buf' = Append(buf, Sector)
            /\ drive' = Taken
            /\ GoTo(IF Len(buf) + 1 < Cmd.n THEN "blocks" ELSE "end")
    /\ UNCHANGED <<attached, found, regs, hob, sel, req, requests>>

\* The error is checked again.
EndOfTransfer ==
    /\ pc[1] = "end"
    /\ Finish(IF drive.err THEN "HARDWARE_FAILED" ELSE "SUCCESS")
    /\ UNCHANGED <<attached, found, regs, hob, sel, drive, buf, requests>>

DkInit ==
    /\ attached \in DriveKinds
    /\ found = [s \in 0..1 |-> "unknown"]
    /\ regs = NoRegs /\ hob = NoRegs
    /\ sel \in 0..1
    /\ drive = Idle
    /\ req = NoReq
    /\ pc = <<"idle">>
    /\ buf = <<>>
    /\ requests = 0

DkNext == \/ DriveReady \/ DriveFails \/ Read \/ detect_device
          \/ switch_device \/ send_command \/ WaitCommand
          \/ send_command_pio_input \/ send_command_packet
          \/ send_command_packet_input \/ EndOfTransfer

----------------------------------------------------------------------------

\* A read that succeeds has put the sectors that were asked for into the
\* buffer, in order, from the right drive, whatever the drives, the registers
\* and the other drive's commands were before; and one through a partition,
\* from a sector of it, gives no sector from outside, whatever the count.
\* (A 28-bit command can ask for BYTE sectors: for more ata.c goes on reading
\* when the drive has finished.)  (ide_isa.c:89-281, ata.c:28-67,
\* atapi.c:29-55, part.c:22-37)
ReadGivesSectors ==
    LET base == IF req.inPart THEN req.part.base ELSE 0
        inside == ~req.inPart \/ base + req.lba <= req.part.limit
    IN  /\ req.status = "SUCCESS" /\ inside /\ req.count <= BYTE =>
             /\ \A i \in DOMAIN buf :
                   buf[i] = <<req.slave, base + req.lba + i - 1>>
             /\ req.inPart \/ Len(buf) = req.count
        /\ req.inPart /\ inside /\ req.count <= BYTE =>
             \A i \in DOMAIN buf : base + req.lba + i - 1 <= req.part.limit
=============================================================================
