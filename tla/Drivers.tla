------------------------------ MODULE Drivers ------------------------------
(***************************************************************************)
(* The boot loader's devices: the list and the tree of boot/device/        *)
(* device.c, the handlers and masks of boot/arch/i686/pc/bios/isr.c, the   *)
(* probe and remove functions of all drivers, the order in which           *)
(* boot/arch/i686/pc/bios/init.c and boot/core/main.c call them, and       *)
(* boot/core/cleanup.c, which removes everything before the kernel starts. *)
(*                                                                         *)
(* A driver is the sequence of the steps of its probe, of its error path   *)
(* and of its remove.  Every step that asks for memory or talks to the     *)
(* hardware may fail.  A device is its address; memory that was freed      *)
(* keeps what it held until it is used again.                              *)
(***************************************************************************)
EXTENDS Integers, Sequences, FiniteSets, SequencesExt

CONSTANTS
    Plans,        \* what the start-up may have to probe: sequences of drivers
    Addrs,        \* addresses of devices
    Drives,       \* floppy drives of a controller: 4
    MaxParts,     \* bound on the partitions of a disk
    MaxFaults     \* bound on the steps that fail

----------------------------------------------------------------------------
(* Steps.  "create": device_create and device_generate_name.  "data": the  *)
(* malloc of dev->data.  "mask", "unmask", "isr": the interrupt.  "hw":     *)
(* the hardware must answer.  "hw_return": a failure returns at once,       *)
(* without the error path.  "children": the children are removed.  "dev":   *)
(* device_remove.                                                           *)

Simple(base) ==
    [base |-> base, irq |-> 0, probe |-> <<"create", "data">>,
     undo |-> <<"data", "dev">>, remove |-> <<"data", "dev">>]

debugout     == Simple("dbg")
uart_isa     == Simple("ser")
ieee1284_isa == Simple("par")
floppy       == Simple("rd")
part         == Simple("p")
ansiterm     == Simple("tty")
vconsole     == Simple("console")

vga == [Simple("video") EXCEPT
          !.probe = <<"create", "data", "hw_return", "hw">>]

\* data->isr is not set before the handler is added.
rtc_isa ==
    [base |-> "rtc", irq |-> 40,
     probe |-> <<"create", "data", "mask", "isr", "unmask">>,
     undo |-> <<"unmask", "isr", "data", "dev">>,
     remove |-> <<"isr", "data", "dev">>]

i8042 ==
    [base |-> "ps2c", irq |-> 0,
     probe |-> <<"create", "data", "hw", "hw_return", "hw", "ps2_mouse",
                 "ps2_keyboard">>,
     undo |-> <<"children", "data", "dev">>,
     remove |-> <<"children", "data", "dev">>]

\* Mutant: a failure leaves the interrupt masked.
keyboard_stays_masked ==
    [base |-> "kbd", irq |-> 33,
     probe |-> <<"create", "data", "mask", "isr", "hw", "unmask">>,
     undo |-> <<"isr", "data", "dev">>,
     remove |-> <<"isr", "data", "dev">>]

ps2_keyboard ==
    [base |-> "kbd", irq |-> 33,
     probe |-> <<"create", "data", "mask", "isr", "hw", "unmask">>,
     undo |-> <<"unmask", "isr", "data", "dev">>,
     remove |-> <<"isr", "data", "dev">>]

ps2_mouse ==
    [base |-> "mouse", irq |-> 44,
     probe |-> <<"create", "data", "mask", "isr", "hw", "unmask">>,
     undo |-> <<"unmask", "isr", "data", "dev">>,
     remove |-> <<"isr", "data", "dev">>]

fdc_isa ==
    [base |-> "fdc", irq |-> 38,
     probe |-> <<"create", "data", "mask", "isr">> \o
               [i \in 1..Drives |-> "floppy"] \o <<"unmask">>,
     undo |-> <<"unmask", "isr", "children", "data", "dev">>,
     remove |-> <<"unmask", "isr", "children", "data", "dev">>]

\* Mutant: the disks of the controller are not removed.
disks_stay ==
    [base |-> "idec", irq |-> 46,
     probe |-> <<"create", "data", "mask", "isr", "disk", "disk", "unmask">>,
     undo |-> <<"unmask", "isr", "children", "data", "dev">>,
     remove |-> <<"unmask", "isr", "data", "dev">>]

\* "disk": nothing, a disk or a packet device may be there.
ide_isa ==
    [base |-> "idec", irq |-> 46,
     probe |-> <<"create", "data", "mask", "isr", "disk", "disk", "unmask">>,
     undo |-> <<"unmask", "isr", "children", "data", "dev">>,
     remove |-> <<"unmask", "isr", "children", "data", "dev">>]

\* The second table is tried when the first is not there.
ata == [Simple("fd") EXCEPT !.probe = <<"create", "data", "hw", "mbr", "gpt">>]

atapi == [Simple("rd") EXCEPT !.probe = <<"create", "data", "hw_return">>]

mbr ==
    [base |-> "pt", irq |-> 0, probe |-> <<"create", "data", "hw", "parts">>,
     undo |-> <<"children", "data", "dev">>,
     remove |-> <<"children", "data", "dev">>]

gpt ==
    [base |-> "pt", irq |-> 0, probe |-> <<"create", "data", "hw", "parts">>,
     undo |-> <<"children", "data", "dev">>,
     remove |-> <<"children", "data", "dev">>]

Drv == [debugout |-> debugout, uart_isa |-> uart_isa,
        ieee1284_isa |-> ieee1284_isa, floppy |-> floppy, part |-> part,
        ansiterm |-> ansiterm, vconsole |-> vconsole, vga |-> vga,
        rtc_isa |-> rtc_isa, i8042 |-> i8042, ps2_keyboard |-> ps2_keyboard,
        ps2_mouse |-> ps2_mouse, fdc_isa |-> fdc_isa, ide_isa |-> ide_isa,
        ata |-> ata, atapi |-> atapi, mbr |-> mbr, gpt |-> gpt]

Vectors == {Drv[d].irq : d \in DOMAIN Drv} \ {0}

\* Whether a failure of d stops who probes it: init_nonpnp_devices and
\* setup_tty give up, but not for a disk controller; i8042 and ide_isa go on;
\* a floppy drive and a partition are needed.
Needed(d) == d \notin {"ide_isa", "ps2_mouse", "ps2_keyboard", "ata",
                       "atapi", "mbr", "gpt"}

----------------------------------------------------------------------------

VARIABLES
    devices,     \* devices[a]: the memory of the device at a
    devlist,     \* from device_list_head along next
    isr_table,   \* isr_table[v]: the devices whose handlers are on vector v
    masked,      \* the vectors that are masked
    stack,       \* the probe and remove functions that are running
    plan,        \* what is still to be probed
    phase,       \* "probe", "up", "cleanup", "off" or "panic"
    cleaning,    \* cleanup's last_root_dev and dev
    faults,      \* the steps that have failed
    doubleFree   \* memory was freed twice

drvvars == <<devices, devlist, isr_table, masked, stack, plan, phase,
             cleaning, faults, doubleFree>>

NoDevice == [drv |-> "none", name |-> <<>>, parent |-> 0, first_child |-> 0,
             sibling |-> 0, data |-> "none", isr |-> FALSE, freed |-> TRUE]

Frame(d, parent, dev, mode) ==
    [drv |-> d, parent |-> parent, dev |-> dev, mode |-> mode, pc |-> 1,
     child |-> 0, parts |-> 0]

Top == stack[Len(stack)]
Below == SubSeq(stack, 1, Len(stack) - 1)
Steps(f) == CASE f.mode = "probe"  -> Drv[f.drv].probe
              [] f.mode = "undo"   -> Drv[f.drv].undo
              [] f.mode = "remove" -> Drv[f.drv].remove
              [] f.mode = "failed" -> <<>>
At(step) == /\ stack # <<>>
            /\ Top.pc <= Len(Steps(Top))
            /\ Steps(Top)[Top.pc] = step
Probing(step) == At(step) /\ Top.mode = "probe"
Undoing(step) == At(step) /\ Top.mode # "probe"

GoOn == stack' = Append(Below, [Top EXCEPT !.pc = @ + 1])
Fail == /\ faults < MaxFaults
        /\ faults' = faults + 1
        /\ stack' = Append(Below, [Top EXCEPT !.mode = "undo", !.pc = 1])
Call(f) == stack' = Append(Append(Below, Top), f)

----------------------------------------------------------------------------
(* device.c *)

\* The last of the children of p when a device has just been made at a; 0
\* when it has none.
LastChild(p, a) ==
    LET Sibling(x) == IF x = a THEN 0 ELSE devices[x].sibling
        s[i \in 0..Cardinality(Addrs)] ==
          IF i = 0 THEN devices[p].first_child
          ELSE LET c == s[i-1]
               IN  IF c = 0 \/ Sibling(c) = 0 THEN c ELSE Sibling(c)
    IN  s[Cardinality(Addrs)]

\* The number behind the largest that follows the same name.
device_generate_name(base) ==
    LET n == {devices[a].name[Len(base) + 1] :
                a \in {b \in ToSet(devlist) :
                         /\ Len(devices[b].name) = Len(base) + 1
                         /\ IsPrefix(base, devices[b].name)}}
    IN  Append(base, IF n = {} THEN 0 ELSE 1 + CHOOSE i \in n :
                                              \A j \in n : j <= i)

\* The name of a partition, or of a table, begins with that of its parent.
BaseName(f) == IF f.drv \in {"part", "mbr", "gpt"}
               THEN devices[f.parent].name \o <<Drv[f.drv].base>>
               ELSE <<Drv[f.drv].base>>

device_create ==
    /\ Probing("create")
    /\ \/ /\ Fail
          /\ UNCHANGED <<devices, devlist>>
       \/ \E a \in Addrs :
            /\ devices[a].freed
            /\ \A b \in Addrs : b < a => ~devices[b].freed
            /\ LET p == Top.parent
                   new == [NoDevice EXCEPT
                             !.drv = Top.drv, !.parent = p, !.freed = FALSE,
                             !.name = device_generate_name(BaseName(Top))]
                   last == IF p = 0 THEN 0 ELSE LastChild(p, a)
               IN  devices' =
                     [x \in Addrs |->
                        CASE x = a -> [new EXCEPT
                                         !.sibling = IF last = a THEN a ELSE 0]
                          [] x # a /\ x = last ->
                               [devices[x] EXCEPT !.sibling = a]
                          [] x # a /\ x = p /\ last = 0 ->
                               [devices[x] EXCEPT !.first_child = a]
                          [] OTHER -> devices[x]]
            /\ devlist' = Append(devlist, a)
            /\ stack' = Append(Below, [Top EXCEPT !.pc = @ + 1, !.dev = a])
            /\ UNCHANGED faults
    /\ UNCHANGED <<isr_table, masked, plan, phase, cleaning, doubleFree>>

\* The walk looks for the device before dev in the list and for the one
\* whose sibling it is.  It ends early: dev is the last device, or its
\* predecessor was met, and dev has no sibling, or the one before was met.
\* Without a predecessor dev stays: the first device leaves the list but is
\* not freed, and a last one that was not looked for far enough stays on it.
device_remove(a) ==
    LET n == Len(devlist)
        at == CHOOSE i \in 1..n : devlist[i] = a
        isLast == at = n
        Met(i) == \E j \in 1..i : devices[devlist[j]].sibling = a
        Ends(i) == /\ isLast \/ (i >= at - 1 /\ at > 1)
                   /\ devices[a].sibling = 0 \/ Met(i)
        stop == CHOOSE i \in 1..n :
                  /\ i = n - 1 \/ Ends(i) \/ n = 1
                  /\ \A j \in 1..(i - 1) : ~Ends(j) /\ j # n - 1
        found == at > 1 /\ at - 1 <= stop
        before == {k \in 1..stop : k < n /\ devices[devlist[k]].sibling = a}
        prev == IF before = {} THEN 0
                ELSE devlist[CHOOSE k \in before : \A j \in before : j <= k]
    IN  CASE a \notin ToSet(devlist) \/ (at > 1 /\ ~found) ->
               UNCHANGED <<devices, devlist>>
          [] a \in ToSet(devlist) /\ at = 1 ->
               devlist' = Tail(devlist) /\ UNCHANGED devices
          [] OTHER ->
               /\ devlist' = RemoveAt(devlist, at)
               /\ devices' = [x \in Addrs |->
                    CASE x = a -> [devices[x] EXCEPT !.freed = TRUE]
                      [] x # a /\ x = prev ->
                           [devices[x] EXCEPT !.sibling = devices[a].sibling]
                      [] OTHER -> devices[x]]

UndoDevice ==
    /\ Undoing("dev")
    /\ IF Top.dev = 0 THEN UNCHANGED <<devices, devlist>>
                      ELSE device_remove(Top.dev)
    /\ GoOn
    /\ UNCHANGED <<isr_table, masked, plan, phase, cleaning, faults,
                   doubleFree>>

----------------------------------------------------------------------------
(* dev->data and the interrupt *)

AllocateData ==
    /\ Probing("data")
    /\ \/ Fail /\ UNCHANGED devices
       \/ /\ devices' = [devices EXCEPT ![Top.dev].data = "live"]
          /\ GoOn /\ UNCHANGED faults
    /\ UNCHANGED <<devlist, isr_table, masked, plan, phase, cleaning,
                   doubleFree>>

HasData(f) == f.dev # 0 /\ devices[f.dev].data # "none"

\* The error path of a probe frees what it has; a remove frees the data of
\* the device, whatever became of it.
FreeData ==
    /\ Undoing("data")
    /\ IF HasData(Top)
         THEN /\ devices' = [devices EXCEPT ![Top.dev].data = "freed"]
              /\ doubleFree' = (doubleFree \/ devices[Top.dev].data = "freed")
         ELSE UNCHANGED <<devices, doubleFree>>
    /\ GoOn
    /\ UNCHANGED <<devlist, isr_table, masked, plan, phase, cleaning, faults>>

_pc_isr_mask_interrupt ==
    /\ Probing("mask")
    /\ masked' = masked \cup {Drv[Top.drv].irq}
    /\ GoOn
    /\ UNCHANGED <<devices, devlist, isr_table, plan, phase, cleaning, faults,
                   doubleFree>>

_pc_isr_unmask_interrupt ==
    /\ stack # <<>> /\ At("unmask")
    /\ masked' = masked \ {Drv[Top.drv].irq}
    /\ GoOn
    /\ UNCHANGED <<devices, devlist, isr_table, plan, phase, cleaning, faults,
                   doubleFree>>

\* When rtc_isa gets no handler its data->isr is what malloc found there,
\* which the error path looks for in the table and does not find.
_pc_isr_add_interrupt_handler ==
    /\ Probing("isr")
    /\ \/ Fail /\ UNCHANGED <<isr_table, devices>>
       \/ /\ isr_table' = [isr_table EXCEPT ![Drv[Top.drv].irq] =
                             Append(@, Top.dev)]
          /\ devices' = [devices EXCEPT ![Top.dev].isr = TRUE]
          /\ GoOn /\ UNCHANGED faults
    /\ UNCHANGED <<devlist, masked, plan, phase, cleaning, doubleFree>>

\* The walk starts behind the first handler of the vector, which is never
\* taken off.  (Behind the first, the handler before the one that is taken
\* off is freed; no two drivers share a vector.)
_pc_isr_remove_handler(tab, a) ==
    LET rest == {i \in 2..Len(tab) : tab[i] = a}
    IN  IF rest = {} THEN tab
        ELSE RemoveAt(tab, CHOOSE i \in rest : \A j \in rest : i >= j)

RemoveHandler ==
    /\ Undoing("isr")
    /\ isr_table' =
         IF HasData(Top) /\ devices[Top.dev].isr
           THEN [isr_table EXCEPT ![Drv[Top.drv].irq] =
                   _pc_isr_remove_handler(@, Top.dev)]
           ELSE isr_table
    /\ GoOn
    /\ UNCHANGED <<devices, devlist, masked, plan, phase, cleaning, faults,
                   doubleFree>>

\* The hardware answers, or does not.
Hardware ==
    /\ Probing("hw") \/ Probing("hw_return")
    /\ \/ GoOn /\ UNCHANGED faults
       \/ Probing("hw") /\ Fail
       \/ /\ Probing("hw_return")
          /\ faults < MaxFaults
          /\ faults' = faults + 1
          /\ stack' = Append(Below, [Top EXCEPT !.mode = "failed"])
    /\ UNCHANGED <<devices, devlist, isr_table, masked, plan, phase, cleaning,
                   doubleFree>>

----------------------------------------------------------------------------
(* Calls and returns *)

\* "disk" finds nothing or a device; "parts" goes on to the next entry of
\* the table, or meets one it cannot read.
ProbeChild ==
    /\ stack # <<>> /\ Top.mode = "probe" /\ Top.pc <= Len(Steps(Top))
    /\ LET step == Steps(Top)[Top.pc]
       IN  \/ /\ step \in DOMAIN Drv
              /\ Call(Frame(step, Top.dev, 0, "probe"))
              /\ UNCHANGED faults
           \/ /\ step = "disk"
              /\ \/ GoOn
                 \/ \E d \in {"ata", "atapi"} :
                      Call(Frame(d, Top.dev, 0, "probe"))
              /\ UNCHANGED faults
           \/ /\ step = "parts"
              /\ \/ GoOn /\ UNCHANGED faults
                 \/ Fail
                 \/ /\ Top.parts < MaxParts
                    /\ stack' = Append(Append(Below,
                          [Top EXCEPT !.parts = @ + 1]),
                          Frame("part", Top.dev, 0, "probe"))
                    /\ UNCHANGED faults
    /\ UNCHANGED <<devices, devlist, isr_table, masked, plan, phase, cleaning,
                   doubleFree>>

\* The children are removed along sibling, which is read after the remove.
RemoveChildren ==
    /\ Undoing("children")
    /\ LET next == IF Top.child = 0
                   THEN IF Top.dev = 0 THEN 0
                        ELSE devices[Top.dev].first_child
                   ELSE devices[Top.child].sibling
       IN  IF next = 0
             THEN stack' = Append(Below, [Top EXCEPT !.pc = @ + 1,
                                                     !.child = 0])
             ELSE stack' = Append(Append(Below, [Top EXCEPT !.child = next]),
                             Frame(devices[next].drv, 0, next, "remove"))
    /\ UNCHANGED <<devices, devlist, isr_table, masked, plan, phase, cleaning,
                   faults, doubleFree>>

\* What the probe below does with the status of the one that returns: a table
\* that was found ends the probe of the disk.
Resume(f, ok) ==
    LET d == Top.drv
    IN  CASE f.mode # "probe" -> f
          [] f.mode = "probe" /\ ~ok /\ Needed(d) ->
               [f EXCEPT !.mode = "undo", !.pc = 1]
          [] f.mode = "probe" /\ ok /\ d \in {"mbr", "gpt"} ->
               [f EXCEPT !.pc = Len(Steps(f)) + 1]
          [] f.mode = "probe" /\ d = "part" /\ ok -> f
          [] OTHER -> [f EXCEPT !.pc = @ + 1]

Returns == stack # <<>> /\ Top.pc > Len(Steps(Top))

Return ==
    LET ok == Top.mode \in {"probe", "remove"}
        n == Len(Below)
    IN  /\ Returns
        /\ IF n > 0
             THEN stack' = [Below EXCEPT ![n] = Resume(@, ok)]
                  /\ UNCHANGED <<plan, phase>>
             ELSE /\ stack' = <<>>
                  /\ plan' = IF phase = "probe" THEN Tail(plan) ELSE plan
                  /\ phase' = IF phase = "probe" /\ ~ok /\ Needed(Top.drv)
                              THEN "panic" ELSE phase
        /\ UNCHANGED <<devices, devlist, isr_table, masked, cleaning, faults,
                       doubleFree>>

\* init_nonpnp_devices, and then setup_tty: the console is a child of the
\* video device, the terminal of the console.
ParentOf(d) ==
    LET Named(base) == CHOOSE a \in ToSet(devlist) :
                          devices[a].name = <<base, 0>>
    IN  CASE d = "vconsole" -> Named("video")
          [] d = "ansiterm" -> Named("console")
          [] OTHER -> 0

init_nonpnp_devices ==
    /\ phase = "probe" /\ stack = <<>>
    /\ \/ /\ plan = <<>>
          /\ phase' = "up" /\ UNCHANGED stack
       \/ /\ plan # <<>>
          /\ stack' = <<Frame(Head(plan), ParentOf(Head(plan)), 0, "probe")>>
          /\ UNCHANGED phase
    /\ UNCHANGED <<devices, devlist, isr_table, masked, plan, cleaning, faults,
                   doubleFree>>

\* What follows a on the list.
NextDevice(a) ==
    LET at == {i \in DOMAIN devlist : devlist[i] = a}
    IN  IF \E i \in at : i < Len(devlist)
          THEN devlist[1 + CHOOSE i \in at : TRUE] ELSE 0

\* Each device without a parent is removed when the next one is met, the last
\* one at the end; dev->next is read after the remove.
Removal(a) == IF a = 0 THEN <<>>
              ELSE <<Frame(devices[a].drv, 0, a, "remove")>>

cleanup ==
    /\ stack = <<>>
    /\ \/ phase = "up"
       \/ phase = "cleanup"
    /\ LET d == IF phase = "up"
                THEN IF devlist = <<>> THEN 0 ELSE Head(devlist)
                ELSE NextDevice(cleaning.dev)
           root == d # 0 /\ devices[d].parent = 0
       IN  /\ phase' = IF d = 0 THEN "off" ELSE "cleanup"
           /\ cleaning' = [last |-> IF root THEN d ELSE cleaning.last,
                           dev |-> d]
           /\ stack' = IF root \/ d = 0 THEN Removal(cleaning.last) ELSE <<>>
    /\ UNCHANGED <<devices, devlist, isr_table, masked, plan, faults,
                   doubleFree>>

----------------------------------------------------------------------------

DrvInit ==
    /\ devices = [a \in Addrs |-> NoDevice]
    /\ devlist = <<>>
    /\ isr_table = [v \in Vectors |-> <<>>]
    /\ masked = {}
    /\ stack = <<>>
    /\ plan \in Plans
    /\ phase = "probe"
    /\ cleaning = [last |-> 0, dev |-> 0]
    /\ faults = 0
    /\ doubleFree = FALSE

DrvNext ==
    \/ device_create \/ UndoDevice \/ AllocateData \/ FreeData
    \/ _pc_isr_mask_interrupt \/ _pc_isr_unmask_interrupt
    \/ _pc_isr_add_interrupt_handler \/ RemoveHandler
    \/ Hardware \/ ProbeChild \/ RemoveChildren \/ Return
    \/ init_nonpnp_devices \/ cleanup

DrvSpec == DrvInit /\ [][DrvNext]_drvvars

----------------------------------------------------------------------------

\* Whatever failed in between, when no probe is running no interrupt is left
\* masked, the list holds no memory that was freed, every device with data is
\* on it, and no two devices have the same name, by which device_find tells
\* them apart (device.c:29-83, 98-123, the error paths of the drivers).
DevicesSound ==
    stack = <<>> /\ phase \in {"probe", "up"} =>
        /\ masked = {}
        /\ \A a \in ToSet(devlist) : ~devices[a].freed
        /\ \A a \in Addrs : devices[a].data = "live" /\ ~devices[a].freed =>
              a \in ToSet(devlist)
        /\ \A a, b \in ToSet(devlist) :
              devices[a].name = devices[b].name => a = b

\* Below a device whose remove function does not look for children.
BelowLeaf(a) ==
    LET p == devices[a].parent
        Leaf(x) == devices[x].drv \in {"ata", "vga", "vconsole"}
    IN  p # 0 /\ (Leaf(p) \/ (devices[p].parent # 0 /\ Leaf(devices[p].parent)))

\* When nothing failed, cleanup frees the data of every device, and frees it
\* once, though siblings are read from freed devices and device_remove gives
\* up early; only the partitions of a disk and the console and terminal of
\* the video device are forgotten (cleanup.c:10-29, device.c:52-84,
\* ata.c:189-198, vga.c:1117-1138).
CleanupReleasesAll ==
    phase = "off" /\ stack = <<>> /\ faults = 0 =>
        /\ ~doubleFree
        /\ \A a \in Addrs : devices[a].data = "live" => BelowLeaf(a)

\* A handler that is called belongs to a device whose data is there: the
\* error paths and remove functions take the handler off first, "removing
\* intrrupt handler" (isr.c:221).
HandlersLive ==
    \A v \in Vectors : \A a \in ToSet(isr_table[v]) :
        devices[a].data = "live"
=============================================================================
