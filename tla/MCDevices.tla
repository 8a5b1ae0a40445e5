----------------------------- MODULE MCDevices -----------------------------
(***************************************************************************)
(* The device drivers of the boot loader: how they come and go, the        *)
(* keyboard and the mouse, the disks, the partitions, and the screen.  A   *)
(* behaviour is of one of them.                                            *)
(***************************************************************************)
EXTENDS Drivers, Ps2, Disk, Partition, Terminal

VARIABLE scene

devicevars == <<scene, drvvars, psvars, dkvars, ptvars, tmvars>>

MCPlans ==
    {<<"i8042", "rtc_isa">>, <<"debugout", "fdc_isa">>, <<"ide_isa">>,
     <<"uart_isa", "vga", "vconsole", "ansiterm">>,
     <<"vga", "vconsole", "ansiterm">>,
     <<"rtc_isa", "ieee1284_isa", "ide_isa">>}

\* A movement, a button with a movement to the left, and two other buttons.
MCPackets == {<<8, 3, 0>>, <<25, 255, 8>>, <<46, 9, 254>>}

MCDriveKinds ==
    {[s \in 0..1 |-> IF s = 0 THEN "ata" ELSE k] :
       k \in {"none", "ata", "atapi"}}
MCParts == {[base |-> 5, limit |-> 7]}

At_(b, n) == [base |-> b, count |-> n]
Log_(a, n) == [at |-> a, count |-> n]
MCLayouts ==
    [scheme : {"mbr"}, extended : {20},
     primary : {<<>>, <<At_(10, 2)>>, <<At_(10, 1), At_(12, 5)>>},
     logical : {<<>>, <<Log_(20, 3)>>, <<Log_(20, 3), Log_(25, 2)>>}]
    \cup
    [scheme : {"gpt"}, extended : {0}, logical : {<<>>},
     primary : {[i \in 1..n |-> At_(10 * i, 5)] : n \in 0..5}]

\* A text mode of the BIOS, and one of each kind of the VESA BIOS.
MCModes ==
    [text : {TRUE}, vbe : BOOLEAN, w : {4}, h : {2}] \cup
    [text : {FALSE}, vbe : {TRUE}, w : {4}, h : {2}]

\* Narrow, wide and long characters, tabs, and control sequences for clearing,
\* colours, the place and visibility of the cursor, and scrolling.
MCItems ==
    {<<"a">>, <<"e", "W">>, <<"b", "box", "a">>, <<"nl">>, <<"tab", "bs">>,
     <<"a", "W", "nl", "b", "e", "a">>, <<"nl", "nl", "W", "W", "W">>,
     <<"esc", "[", "2", "J">>,
     <<"esc", "[", "7", "m", "e", "W", "a">>,
     <<"esc", "[", "3", "8", ";", "5", ";", "1", "m", "b">>,
     <<"esc", "[", "2", ";", "1", "H", "box">>,
     <<"esc", "[", "T">>,
     <<"esc", "[", "?", "2", "5", "h">>}

\* What a behaviour is not about begins in one way.
Still ==
    /\ scene # "drivers" => plan = <<"ide_isa">>
    /\ scene # "input" => kind = "set2" /\ ring[0] = 0
    /\ scene # "disk" => attached[1] = "none" /\ sel = 0
    /\ scene # "partitions" =>
         layout.scheme = "gpt" /\ Len(layout.primary) = 0
    /\ scene # "screen" => ~term.mode.text

MCInit ==
    /\ scene \in {"drivers", "input", "disk", "partitions", "screen"}
    /\ DrvInit /\ PsInit /\ DkInit /\ PtInit /\ TmInit
    /\ Still

MCNext ==
    \/ /\ scene = "drivers" /\ DrvNext
       /\ UNCHANGED <<scene, psvars, dkvars, ptvars, tmvars>>
    \/ /\ scene = "input" /\ PsNext
       /\ UNCHANGED <<scene, drvvars, dkvars, ptvars, tmvars>>
    \/ /\ scene = "disk" /\ DkNext
       /\ UNCHANGED <<scene, drvvars, psvars, ptvars, tmvars>>
    \/ /\ scene = "partitions" /\ PtNext
       /\ UNCHANGED <<scene, drvvars, psvars, dkvars, tmvars>>
    \/ /\ scene = "screen" /\ TmNext
       /\ UNCHANGED <<scene, drvvars, psvars, dkvars, ptvars>>

MCSpec == MCInit /\ [][MCNext]_devicevars
=============================================================================
