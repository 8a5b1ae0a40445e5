-------------------------------- MODULE Ps2 --------------------------------
(***************************************************************************)
(* The boot loader's keyboard and mouse (boot/device/hid): the rings that  *)
(* the interrupt handlers fill and the readers empty, and the translation  *)
(* of scan codes and of mouse packets to events.                           *)
(*                                                                         *)
(* The keyboard sends the scan codes of set 2, or of set 1 when it refused *)
(* set 2.  It is read through its hid interface (poll_event) or through    *)
(* its char interface (read).  A reader masks the interrupt while it takes *)
(* a byte off the ring; a byte that arrives meanwhile waits in the         *)
(* controller.  The tables are shown on the codes that are used here.      *)
(***************************************************************************)
EXTENDS Integers, Sequences, SequencesExt, TLC

CONSTANTS
    RingSize,     \* sizeof(seqbuf): 64
    Keys,         \* keys that are pressed and released
    Packets,      \* mouse packets: sequences of three bytes
    MaxStrokes,   \* bound on the strokes
    MaxPackets    \* bound on the packets

VARIABLES
    line,       \* the bytes the controller has for the driver
    ring,       \* ring[i]: seqbuf
    start,      \* seqbuf_start
    end,        \* seqbuf_end
    seq_state,  \* what the last bytes were the beginning of
    reader,     \* where the reader is: "idle", "seen" or "masked"
    events,     \* what the reader was given
    sent,       \* the strokes or packets that were sent
    dropped,    \* a byte found the ring full
    kind,       \* "set2", "set1", "read1", "read2" or "mouse"
    prev        \* prev_button_state and byte0 of the mouse

psvars == <<line, ring, start, end, seq_state, reader, events, sent, dropped,
            kind, prev>>

Masked == reader = "masked"
IsMouse == kind = "mouse"
Set == IF kind \in {"set1", "read1"} THEN 1 ELSE 2
Reading == kind \in {"read1", "read2"}

----------------------------------------------------------------------------
(* The bytes of a stroke, and the tables *)

Extended == {"UP"}
Code(key) ==
    IF Set = 2
      THEN CASE key = "A" -> 28 [] key = "ENTER" -> 90 [] key = "UP" -> 117
      ELSE CASE key = "A" -> 30 [] key = "ENTER" -> 28 [] key = "UP" -> 72
Bytes(s) ==
    LET ext == IF s.key \in Extended THEN <<224>> ELSE <<>>
    IN  IF Set = 2 THEN ext \o (IF s.brk THEN <<240>> ELSE <<>>) \o
                        <<Code(s.key)>>
        ELSE ext \o <<Code(s.key) + (IF s.brk THEN 128 ELSE 0)>>

Lookup(table, b) == IF b \in DOMAIN table THEN table[b] ELSE "NONE"

code_table_set1_noext_low == 30 :> "A" @@ 28 :> "ENTER"
code_table_set2_noext_low == 28 :> "A" @@ 90 :> "ENTER" @@ 20 :> "LEFTCTRL"
code_table_set2_ext_low == 117 :> "UP" @@ 20 :> "RIGHTCTRL"
translated_keycode_char_table == "A" :> "a" @@ "ENTER" :> "nl"

----------------------------------------------------------------------------
(* The translations: the next state, and an event or the lack of one *)

Event(key, brk) == [key |-> key, brk |-> brk, n |-> 0]
NoEvent == Event("no event", FALSE)
Result(state, ev) == [state |-> state, ev |-> ev]

\* 0xE1 is looked at before the state, so that the fourth byte of the pause
\* sequence begins it again.
PauseState(i) == <<"pause", i>>
Expect(b, byte, i) == Result(IF b = byte THEN PauseState(i) ELSE <<"default">>,
                             NoEvent)

\* Every byte of set 1 gives an event.
translate_scancode_set1(state, b) ==
    LET none == Event("NONE", FALSE)
        Got(r) == IF r.ev = NoEvent THEN Result(r.state, none) ELSE r
        key == Event(Lookup(code_table_set1_noext_low, b % 128), b >= 128)
    IN  CASE b = 224 -> Result(<<"extended">>, none)
          [] b = 225 -> Result(PauseState(1), none)
          [] b \notin {224, 225} /\ state = <<"default">> ->
               Result(<<"default">>,
                      IF b \in {241, 242, 252} THEN none ELSE key)
          [] b \notin {224, 225} /\ state = <<"extended">> ->
               IF b = 70 THEN Result(<<"ctrlpause", 1>>, none)
               ELSE Result(<<"default">>, Event("NONE", b >= 128))
          [] b \notin {224, 225} /\ state = PauseState(1) -> Got(Expect(b, 29, 2))
          [] b \notin {224, 225} /\ state = PauseState(2) -> Got(Expect(b, 69, 3))
          [] OTHER -> Result(<<"default">>, none)

\* An extended 0x7E is looked up like any other byte.
translate_scancode_set2(state, b) ==
    LET brk == state \in {<<"break">>, <<"break", "extended">>}
    IN  CASE b = 240 -> Result(IF state = <<"extended">>
                                 THEN <<"break", "extended">>
                                 ELSE <<"break">>, NoEvent)
          [] b = 224 -> Result(<<"extended">>, NoEvent)
          [] b = 225 -> Result(PauseState(1), NoEvent)
          [] b \notin {240, 224, 225} /\ state \in {<<"break">>, <<"default">>} ->
               Result(<<"default">>,
                      IF b \in {241, 242, 252} THEN NoEvent
                      ELSE Event(Lookup(code_table_set2_noext_low, b), brk))
          [] b \notin {240, 224, 225}
               /\ state \in {<<"extended">>, <<"break", "extended">>} ->
               Result(<<"default">>,
                      Event(Lookup(code_table_set2_ext_low, b), brk))
          [] b \notin {240, 224, 225} /\ state = PauseState(1) -> Expect(b, 20, 2)
          [] b \notin {240, 224, 225} /\ state = PauseState(2) -> Expect(b, 119, 3)
          [] OTHER -> Result(<<"default">>, NoEvent)

----------------------------------------------------------------------------
(* The mouse *)

Bit(b, i) == (b \div 2^i) % 2 = 1
WithBit(b, i, v) == b + (IF v /\ ~Bit(b, i) THEN 2^i ELSE 0)
                      - (IF ~v /\ Bit(b, i) THEN 2^i ELSE 0)
Button(i) == <<"L", "R", "M">>[i + 1]

\* The first button, of M, R, L, that differs; 3 when none does.
Changed(b, p) ==
    IF \E i \in 0..2 : Bit(b, i) # Bit(p, i)
      THEN CHOOSE i \in 0..2 :
             /\ Bit(b, i) # Bit(p, i)
             /\ \A j \in (i+1)..2 : Bit(b, j) = Bit(p, j)
      ELSE 3

Move(axis, b, neg) == [key |-> axis, brk |-> FALSE,
                       n |-> IF neg THEN b - 256 ELSE b]

\* Mutant: the button is not remembered.
button_forgotten(b) ==
    LET i == Changed(b, prev.buttons)
        ok == Bit(b, 3) /\ b < 64
        Go(state, ev, p, n) == [state |-> state, ev |-> ev, prev |-> p, n |-> n]
    IN  CASE seq_state = <<"default">> /\ ok /\ i < 3 ->
               Go(<<"default">>, Event(Button(i), ~Bit(b, i)), prev, 0)
          [] seq_state = <<"default">> /\ ok /\ i = 3 ->
               Go(<<"x">>, NoEvent, [prev EXCEPT !.byte0 = b], 1)
          [] seq_state = <<"default">> /\ ~ok ->
               Go(<<"default">>, NoEvent, prev, 1)
          [] seq_state = <<"x">> ->
               Go(<<"y">>, Move("x", b, Bit(prev.byte0, 4)), prev, 1)
          [] seq_state = <<"y">> ->
               Go(<<"default">>, Move("y", b, Bit(prev.byte0, 5)), prev, 1)

\* One event for each button that differs, without taking the byte; then the
\* byte is taken, and its two successors are movements.  (byte0 has no
\* overflow bit, or it would not have been accepted.)
mouse_poll_event(b) ==
    LET i == Changed(b, prev.buttons)
        ok == Bit(b, 3) /\ b < 64
        Go(state, ev, p, n) == [state |-> state, ev |-> ev, prev |-> p, n |-> n]
    IN  CASE seq_state = <<"default">> /\ ok /\ i < 3 ->
               Go(<<"default">>, Event(Button(i), ~Bit(b, i)),
                  [prev EXCEPT !.buttons = WithBit(@, i, Bit(b, i))], 0)
          [] seq_state = <<"default">> /\ ok /\ i = 3 ->
               Go(<<"x">>, NoEvent, [prev EXCEPT !.byte0 = b], 1)
          [] seq_state = <<"default">> /\ ~ok ->
               Go(<<"default">>, NoEvent, prev, 1)
          [] seq_state = <<"x">> ->
               Go(<<"y">>, Move("x", b, Bit(prev.byte0, 4)), prev, 1)
          [] seq_state = <<"y">> ->
               Go(<<"default">>, Move("y", b, Bit(prev.byte0, 5)), prev, 1)

----------------------------------------------------------------------------
(* The handlers and the readers *)

\* The device sends a stroke or a packet.  (It sends codes of the tables:
\* any byte passes the comparison with their size in bytes.)
Send ==
    /\ Len(sent) < IF IsMouse THEN MaxPackets ELSE MaxStrokes
    /\ IF IsMouse
         THEN \E p \in Packets : sent' = Append(sent, p) /\ line' = line \o p
         ELSE \E key \in Keys, brk \in BOOLEAN :
                /\ sent' = Append(sent, Event(key, brk))
                /\ line' = line \o Bytes(Event(key, brk))
    /\ UNCHANGED <<ring, start, end, seq_state, reader, events, dropped, kind,
                   prev>>

\* Mutant: a full ring is not noticed.
full_not_noticed ==
    /\ line # <<>> /\ ~Masked
    /\ line' = Tail(line)
    /\ ring' = [ring EXCEPT ![end] = Head(line)]
    /\ end' = (end + 1) % RingSize
    /\ UNCHANGED <<start, seq_state, reader, events, sent, dropped, kind, prev>>

\* keyboard_isr and mouse_isr: the byte is lost when the ring is full.
keyboard_isr ==
    /\ line # <<>> /\ ~Masked
    /\ line' = Tail(line)
    /\ LET next == (end + 1) % RingSize
       IN  IF next = start
             THEN dropped' = TRUE /\ UNCHANGED <<ring, end>>
             ELSE /\ ring' = [ring EXCEPT ![end] = Head(line)]
                  /\ end' = next
                  /\ UNCHANGED dropped
    /\ UNCHANGED <<start, seq_state, reader, events, sent, kind, prev>>

\* Something is there; then the interrupt is masked.
wait_event ==
    /\ reader = "idle" /\ start # end
    /\ reader' = "seen"
    /\ UNCHANGED <<line, ring, start, end, seq_state, events, sent, dropped,
                   kind, prev>>

_mask == /\ reader = "seen"
         /\ reader' = "masked"
         /\ UNCHANGED <<line, ring, start, end, seq_state, events, sent,
                        dropped, kind, prev>>

Give(ev) == events' = IF ev = NoEvent THEN events ELSE Append(events, ev)
Advance(n) == start' = (start + n) % RingSize

\* With set 1 poll_event falls through and translates the byte behind it, if
\* there is one or not, as a byte of set 2.
poll_event ==
    /\ reader = "masked" /\ ~IsMouse /\ ~Reading
    /\ LET r1 == translate_scancode_set1(seq_state, ring[start])
           s == IF Set = 1 THEN r1.state ELSE seq_state
           at == IF Set = 1 THEN (start + 1) % RingSize ELSE start
           r2 == translate_scancode_set2(s, ring[at])
       IN  /\ seq_state' = r2.state
           /\ Give(r2.ev)
           /\ Advance(IF Set = 1 THEN 2 ELSE 1)
    /\ reader' = "idle"
    /\ UNCHANGED <<line, ring, end, sent, dropped, kind, prev>>

\* translate_scancode, in the loop of read: the character of a key that was
\* pressed.
read ==
    /\ reader = "masked" /\ Reading
    /\ LET r == IF Set = 1 THEN translate_scancode_set1(seq_state, ring[start])
                ELSE translate_scancode_set2(seq_state, ring[start])
           ch == Lookup(translated_keycode_char_table, r.ev.key)
       IN  /\ seq_state' = r.state
           /\ Advance(1)
           /\ events' = IF r.ev = NoEvent \/ r.ev.brk \/ ch = "NONE"
                        THEN events ELSE Append(events, ch)
    /\ reader' = "idle"
    /\ UNCHANGED <<line, ring, end, sent, dropped, kind, prev>>

PollMouse ==
    /\ reader = "masked" /\ IsMouse
    /\ LET r == mouse_poll_event(ring[start])
       IN  /\ seq_state' = r.state
           /\ Give(r.ev)
           /\ Advance(r.n)
           /\ prev' = r.prev
    /\ reader' = "idle"
    /\ UNCHANGED <<line, ring, end, sent, dropped, kind>>

PsInit ==
    /\ line = <<>>
    /\ ring \in {[i \in 0..(RingSize - 1) |-> b] : b \in {0, 28}}
    /\ start = 0 /\ end = 0
    /\ seq_state = <<"default">>
    /\ reader = "idle"
    /\ events = <<>> /\ sent = <<>>
    /\ dropped = FALSE
    /\ kind \in {"set2", "set1", "read1", "read2", "mouse"}
    /\ prev \in [buttons : IF kind = "mouse" THEN {0, 5} ELSE {0}, byte0 : {0}]

PsNext == \/ Send \/ keyboard_isr \/ wait_event \/ _mask
          \/ poll_event \/ read \/ PollMouse

----------------------------------------------------------------------------

Drained == line = <<>> /\ start = end /\ reader = "idle"
PrefixOrAll(given, expected) ==
    IsPrefix(given, expected) /\ (Drained => given = expected)

\* While no byte finds the ring full, the reader gets every stroke, once, in
\* the order of the keys, and a character for every printable key that was
\* pressed, wherever the interrupts fall between its steps.  (A reader of
\* events needs a keyboard that speaks set 2, in set 1 poll_event loses every
\* other byte; the extended keys of set 1 are not known.)
\* (ps2_keyboard.c:200-571)
KeysInOrder ==
    ~dropped =>
      CASE kind = "set2" -> PrefixOrAll(events, sent)
        [] Reading ->
             LET Printable(s) == ~s.brk /\ s.key \notin Extended
                 made == SelectSeq(sent, Printable)
             IN  PrefixOrAll(events, [i \in DOMAIN made |->
                     translated_keycode_char_table[made[i].key]])
        [] OTHER -> TRUE

\* While no byte finds the ring full, the listener gets the movements of all
\* packets, once and in order, and what it makes of the button events is the
\* state of the buttons in the packet it has reached, though it may take
\* several events, and interrupts between them, to report one byte; whatever
\* prev_button_state held at first (ps2_mouse.c:42-164).
MouseInOrder ==
    IsMouse /\ ~dropped =>
      LET IsMove(e) == e.key \notin {"L", "R", "M"}
          moves == SelectSeq(events, IsMove)
          expected == FlattenSeq([i \in DOMAIN sent |->
              <<Move("x", sent[i][2], Bit(sent[i][1], 4)),
                Move("y", sent[i][3], Bit(sent[i][1], 5))>>])
          Held(i) ==
             LET last == {j \in DOMAIN events : events[j].key = Button(i)}
             IN  last # {} /\
                 ~events[CHOOSE j \in last : \A k \in last : k <= j].brk
          Reported(i) == \E j \in DOMAIN events : events[j].key = Button(i)
      IN  /\ PrefixOrAll(moves, expected)
          /\ Drained /\ sent # <<>> =>
               \A i \in 0..2 : Reported(i) =>
                   Held(i) = Bit(sent[Len(sent)][1], i)
          /\ Len(events) - Len(moves) <= 3 * Len(sent)
=============================================================================
