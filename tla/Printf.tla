------------------------------- MODULE Printf -------------------------------
(***************************************************************************)
(* Formatted output: vcprintf of the boot loader and of the kernel, which  *)
(* gives its characters to a function that may refuse one, and the         *)
(* kernel's vsnprintf, a copy of it that writes into a buffer.             *)
(*                                                                         *)
(* A format is a sequence of characters.  The types have WBYTE .. WLLONG   *)
(* bits (8 to 64 in the code).  Formats that the code neither uses nor     *)
(* can print are left out: %n, an unknown letter (a division by the base   *)
(* zero), and a width that is not positive for %c (an endless loop).       *)
(***************************************************************************)
EXTENDS Integers, Sequences, SequencesExt, FiniteSetsExt

CONSTANTS
    WBYTE, WSHORT, WINT, WLONG, WLLONG,
    Uses,       \* the conversions of a call and its arguments
    Limits      \* room for the output

VARIABLES call,   \* who was called with what
          got     \* what came out

pfvars == <<call, got>>

LEFT == "-"
PLUS == "+"
SPACE == " "
PREFIX == "#"
ZERO == "0"
ARG == -1

Decimals == <<"0", "1", "2", "3", "4", "5", "6", "7", "8", "9">>
hex_table_lower == Decimals \o <<"a", "b", "c", "d", "e", "f">>
hex_table_upper == Decimals \o <<"A", "B", "C", "D", "E", "F">>

Larger(a, b) == IF a > b THEN a ELSE b
Smaller(a, b) == IF a < b THEN a ELSE b
Times(ch, n) == [i \in 1..Larger(n, 0) |-> ch]
FirstOf(s, n) == SubSeq(s, 1, Smaller(n, Len(s)))

----------------------------------------------------------------------------
(* decode_spec *)

Chr(f, i) == IF i <= Len(f) THEN f[i] ELSE "end"
Behind(f, i, S) == CHOOSE j \in i..(Len(f) + 1) :
                     /\ \A k \in i..(j - 1) : f[k] \in S
                     /\ Chr(f, j) \notin S
ValueOf(s) == FoldLeft(LAMBDA n, ch : 10 * n + (CHOOSE d \in 1..10 :
                                                  Decimals[d] = ch) - 1, 0, s)

\* A number, or a star; and the place behind it.
Number(f, i) ==
    IF Chr(f, i) = "*" THEN [n |-> ARG, next |-> i + 1]
    ELSE LET j == Behind(f, i, ToSet(Decimals))
         IN  [n |-> ValueOf(SubSeq(f, i, j - 1)), next |-> j]

decode_flags(f, i) ==
    LET j == Behind(f, i, {LEFT, PLUS, SPACE, PREFIX, ZERO})
    IN  [flags |-> {f[k] : k \in i..(j - 1)}, next |-> j]

decode_precision(f, i) ==
    IF Chr(f, i) = "." THEN Number(f, i + 1) ELSE [n |-> 0, next |-> i]

decode_length(f, i) ==
    LET twice == Chr(f, i + 1) = Chr(f, i)
    IN  CASE Chr(f, i) = "h" -> IF twice THEN [type |-> "BYTE", next |-> i + 2]
                                ELSE [type |-> "SHORT", next |-> i + 1]
          [] Chr(f, i) = "l" -> IF twice THEN [type |-> "LLONG", next |-> i + 2]
                                ELSE [type |-> "LONG", next |-> i + 1]
          [] Chr(f, i) = "j" -> [type |-> "INTMAX", next |-> i + 1]
          [] Chr(f, i) = "z" -> [type |-> "SIZE", next |-> i + 1]
          [] Chr(f, i) = "t" -> [type |-> "PTRDIFF", next |-> i + 1]
          [] Chr(f, i) = "L" -> [type |-> "LDOUBLE", next |-> i + 1]
          [] OTHER -> [type |-> "INT", next |-> i]

\* The kind of the argument and, for numbers, the base and the case.  There
\* is no unsigned form of INTMAX and PTRDIFF, and no signed one of SIZE.
decode_specifier(ch, type, p) ==
    LET S(k, b, l) == [kind |-> k, type |-> type, base |-> b, lower |-> l,
                       prec |-> p]
        I(k, b, l) == S(CASE type = "LDOUBLE" -> "invalid"
                          [] type \in {"INTMAX", "PTRDIFF"} -> "signed"
                          [] type = "SIZE" -> "unsigned"
                          [] OTHER -> k, b, l)
        Text(k, w) == S(CASE type = "INT" -> k [] type = "LONG" -> w
                          [] OTHER -> "invalid", 0, FALSE)
    IN  CASE ch = "%" -> S("percent", 0, FALSE)
          [] ch \in {"d", "i"} -> I("signed", 10, FALSE)
          [] ch = "u" -> I("unsigned", 10, TRUE)
          [] ch = "o" -> I("unsigned", 8, TRUE)
          [] ch = "x" -> I("unsigned", 16, TRUE)
          [] ch = "X" -> I("unsigned", 16, FALSE)
          [] ch = "c" -> Text("char", "wide")
          [] ch = "s" -> Text("str", "wide")
          [] ch = "p" -> [S(IF type = "INT" THEN "unsigned" ELSE "invalid",
                            16, FALSE)
                            EXCEPT !.type = "LONG",
                                   !.prec = IF @ = 0 THEN WLONG \div 4 ELSE @]
          [] ch \in {"f", "e", "g", "a"} ->
               S(IF type \in {"INT", "LDOUBLE"} THEN "float" ELSE "invalid",
                 0, FALSE)

decode_spec(f, i) ==
    LET Spec(a, w, l, s) ==
          [kind |-> s.kind, type |-> s.type, base |-> s.base, lower |-> s.lower,
           prec |-> s.prec, flags |-> a.flags, width |-> w.n,
           next |-> l.next + 1]
        Length(a, w, p, l) ==
          Spec(a, w, l, decode_specifier(Chr(f, l.next), l.type, p.n))
        Precision(a, w, p) == Length(a, w, p, decode_length(f, p.next))
        Width(a, w) == Precision(a, w, decode_precision(f, w.next))
        Flags(a) == Width(a, Number(f, a.next))
    IN  Flags(decode_flags(f, i))

----------------------------------------------------------------------------
(* Printing one argument: a number n or a text s *)

NumberArg(n) == [n |-> n, s |-> <<>>]
TextArg(s) == [n |-> 0, s |-> s]

\* Width and precision from the arguments, before the value of a character or
\* a string and after the value of a number.
Extra(s, args) ==
    LET w == IF s.width = ARG THEN 1 ELSE 0
        p == IF s.prec = ARG THEN 1 ELSE 0
    IN  [n |-> w + p, width |-> IF w = 1 THEN args[1].n ELSE s.width,
         prec |-> IF p = 1 THEN args[w + 1].n ELSE s.prec]

\* The null pointer in place of a string.
NULL == <<"NULL">>
StrArg(v) == IF v # NULL THEN v ELSE <<"(", "n", "u", "l", "l", ")">>

Left(s) == LEFT \in s.flags
Padded(s, text, n) == IF Left(s) THEN text \o Times(" ", n)
                      ELSE Times(" ", n) \o text

print_char(s, e, ch) ==
    Padded(s, <<ch>>, (IF s.width = 0 THEN 1 ELSE e.width) - 1)

\* vsnprintf: never wider than the room, and the character last in it.
print_char_vsn(s, e, ch, room) ==
    Padded(s, <<ch>>, Smaller(IF s.width = 0 THEN 1 ELSE e.width, room) - 1)

\* Of the widths and precisions in the format itself the kernel knows nothing.
print_str_kernel(s, e, str) ==
    LET width == Larger(IF s.width = ARG THEN e.width ELSE 0, Len(str))
        all == IF s.prec = ARG /\ e.prec < Len(str) THEN e.prec ELSE width
    IN  Padded(s, FirstOf(str, all), all - Len(str))

print_str(s, e, str) ==
    LET width == Larger(e.width, Len(str))
        all == IF s.prec # 0 /\ e.prec < Len(str) THEN e.prec ELSE width
    IN  Padded(s, FirstOf(str, all), all - Len(str))

\* vsnprintf: a width cuts the string off.
print_str_vsn(e, str, room) ==
    FirstOf(str, Smaller(room, IF e.width > 0 THEN e.width ELSE Len(str)))

Repr(num, base, table) ==
    LET n == CHOOSE k \in 1..(WLLONG + 1) :
               num < base^k /\ (k = 1 \/ num >= base^(k - 1))
    IN  [i \in 1..n |-> table[((num \div base^(n - i)) % base) + 1]]

\* The sign, spaces, zeroes and the digits, in this order.
do_print_int(num, s) ==
    LET neg == s.kind = "signed" /\ s.base = 10 /\ num >= 2^(WLLONG - 1)
        zero == ZERO \in s.flags
        prec == IF zero THEN Larger(s.width, s.prec) ELSE s.prec
        Digits(digits, n, sign) ==
          LET pad == (IF zero THEN 0 ELSE s.width - Larger(s.prec, n))
                     - Len(sign)
          IN  sign \o (IF Left(s) THEN <<>> ELSE Times(" ", pad))
              \o Times("0", prec - n) \o digits
              \o (IF Left(s) THEN Times(" ", pad) ELSE <<>>)
        Signed(digits) ==
          Digits(digits, Len(digits),
                 CASE neg -> <<"-">>
                   [] ~neg /\ SPACE \in s.flags -> <<" ">>
                   [] ~neg /\ s.flags \cap {SPACE, PLUS} = {PLUS} -> <<"+">>
                   [] OTHER -> <<>>)
    IN  Signed(Repr(IF neg THEN 2^WLLONG - num ELSE num, s.base,
                    IF s.lower THEN hex_table_lower ELSE hex_table_upper))

Bits(type) == CASE type = "BYTE" -> WBYTE [] type = "SHORT" -> WSHORT
                [] type = "INT" -> WINT
                [] type \in {"LLONG", "INTMAX"} -> WLLONG
                [] OTHER -> WLONG
\* Mutant: the arguments of char and short are printed as the int they are.
no_narrowing(s, v) == v % 2^WLLONG

\* The argument as a number of its type, extended to the longest one.
NumArg(s, v) ==
    LET m == v % 2^Bits(s.type)
        neg == s.kind = "signed" /\ m >= 2^(Bits(s.type) - 1)
    IN  (IF neg THEN m - 2^Bits(s.type) ELSE m) % 2^WLLONG

\* The prefix needs a width, and is in front of the spaces.
print_int(s, e, v, width) ==
    LET pre == IF PREFIX \notin s.flags \/ s.base = 10 THEN <<>>
               ELSE FirstOf(<<"0">> \o (IF s.base # 16 THEN <<>>
                                        ELSE <<IF s.lower THEN "x" ELSE "X">>),
                            Larger(width, 0))
    IN  pre \o do_print_int(NumArg(s, v),
                            [s EXCEPT !.width = width - Len(pre),
                                      !.prec = e.prec])

\* vsnprintf: the width is cut to the room before anything is printed.
print_int_vsn(s, e, v, room) ==
    FirstOf(print_int(s, e, v, Smaller(e.width, room)), room)

----------------------------------------------------------------------------
(* The whole format *)

\* What one specification prints, and how many arguments it takes.  Wide
\* characters and floating point are taken and not printed.
PrintOne(who, s, args, room) ==
    LET first == s.kind \in {"char", "str"}
        vsn == who = "vsnprintf"
        Text(e, v) ==
          CASE s.kind = "char" ->
                 IF vsn THEN print_char_vsn(s, e, v.s[1], room)
                 ELSE print_char(s, e, v.s[1])
            [] s.kind = "str" ->
                 (CASE who = "boot" -> print_str(s, e, StrArg(v.s))
                    [] who = "kernel" -> print_str_kernel(s, e, StrArg(v.s))
                    [] vsn -> print_str_vsn(e, StrArg(v.s), room))
            [] s.kind \in {"signed", "unsigned"} ->
                 IF vsn THEN print_int_vsn(s, e, v.n, room)
                 ELSE print_int(s, e, v.n, e.width)
            [] OTHER -> <<>>
        Take(e) == [text |-> Text(e, IF first THEN args[e.n + 1] ELSE args[1]),
                    taken |-> e.n + 1]
    IN  CASE s.kind = "percent" -> [text |-> <<"%">>, taken |-> 0]
          [] s.kind = "invalid" -> [text |-> <<>>, taken |-> 0]
          [] OTHER -> Take(Extra(s, IF first THEN args ELSE Tail(args)))

RECURSIVE Rest(_, _, _, _, _)
Rest(who, f, i, args, room) ==
    LET GoOn(s, p) == p.text \o Rest(who, f, s.next,
                                     SubSeq(args, p.taken + 1, Len(args)),
                                     room - Len(p.text))
        Convert(s) == GoOn(s, PrintOne(who, s, args, room))
    IN  CASE i > Len(f) \/ (who = "vsnprintf" /\ room = 0) -> <<>>
          [] /\ i <= Len(f) /\ Chr(f, i) # "%"
             /\ who = "vsnprintf" => room > 0 ->
               <<f[i]>> \o Rest(who, f, i + 1, args, room - 1)
          [] OTHER -> Convert(decode_spec(f, i + 1))

\* The function that takes the characters refuses one when there is no room.
write_buffer(all, limit) == FirstOf(all, limit)

\* The characters up to the limit; the zero behind them if there is room; and
\* how many were printed.
vcprintf(who, f, args, limit) ==
    LET Result(all) == [out |-> write_buffer(Append(all, "nul"), limit),
                        count |-> Len(write_buffer(all, limit))]
    IN  Result(Rest(who, f, 1, args, limit))

vsnprintf(f, args, limit) ==
    LET Result(all) == [out |-> IF Len(all) < limit THEN Append(all, "nul")
                                ELSE all,
                        count |-> Len(all)]
    IN  Result(Rest("vsnprintf", f, 1, args, limit))

----------------------------------------------------------------------------
(* Calls: "[", a conversion, perhaps "|" and another one, and "]" *)

LengthText(l) == CASE l = "hh" -> <<"h", "h">> [] l = "ll" -> <<"l", "l">>
                   [] l = "" -> <<>> [] OTHER -> <<l>>
NumberText(n) == IF n = ARG THEN <<"*">>
                 ELSE IF n = 0 THEN <<>> ELSE Repr(n, 10, Decimals)
SpecText(c) == <<"%">> \o SetToSeq(c.flags) \o NumberText(c.width)
               \o (IF c.prec = 0 THEN <<>> ELSE <<".">> \o NumberText(c.prec))
               \o LengthText(c.length) \o <<c.conv>>
FormatText(use) ==
    <<"[">> \o SpecText(use.first)
    \o (IF use.second.conv = "none" THEN <<>>
        ELSE <<"|">> \o SpecText(use.second)) \o <<"]">>

NoSpec == [flags |-> {}, width |-> 0, prec |-> 0, length |-> "",
           conv |-> "none"]
NoCall == [who |-> "nobody", use |-> [first |-> NoSpec, second |-> NoSpec,
                                      args |-> <<>>], limit |-> 0]
PfInit == call = NoCall /\ got = [out |-> <<>>, count |-> 0]

Format == /\ call = NoCall
          /\ \E who \in {"boot", "kernel", "vsnprintf"}, use \in Uses,
                limit \in Limits :
               /\ call' = [who |-> who, use |-> use, limit |-> limit]
               /\ got' = IF who = "vsnprintf"
                         THEN vsnprintf(FormatText(use), use.args, limit)
                         ELSE vcprintf(who, FormatText(use), use.args, limit)

PfNext == Format

----------------------------------------------------------------------------
(* What C prints *)

Fill(c, text, width) == Padded(c, text, width - Len(text))

CBits(c) == CASE c.conv = "p" -> WLONG
              [] c.length = "hh" -> WBYTE [] c.length = "h" -> WSHORT
              [] c.length = "" -> WINT [] c.length \in {"ll", "j"} -> WLLONG
              [] OTHER -> WLONG
CInt(c, v, width) ==
    LET m == v % 2^CBits(c)
        signed == c.conv \in {"d", "i"}
        neg == signed /\ m >= 2^(CBits(c) - 1)
        base == CASE c.conv = "o" -> 8 [] c.conv \in {"d", "i", "u"} -> 10
                  [] OTHER -> 16
        sign == CASE neg -> <<"-">>
                  [] ~neg /\ signed /\ PLUS \in c.flags -> <<"+">>
                  [] OTHER -> <<>>
        least == CASE c.conv = "p" -> WLONG \div 4
                   [] c.conv # "p" /\ ZERO \in c.flags ->
                        width - Len(sign)
                   [] OTHER -> c.prec
        Filled(digits) ==
          Fill(c, sign \o Times("0", least - Len(digits)) \o digits, width)
    IN  Filled(Repr(IF neg THEN 2^CBits(c) - m ELSE m, base,
                    IF c.conv = "x" THEN hex_table_lower
                    ELSE hex_table_upper))

\* The text of a conversion, and the arguments it takes.
CText(c, args) ==
    LET star == c.width = ARG
        width == IF star THEN args[1].n ELSE c.width
        v == args[IF star THEN 2 ELSE 1]
    IN  [text |-> CASE c.conv = "c" -> Fill(c, <<v.s[1]>>, width)
                    [] c.conv = "s" ->
                         LET all == StrArg(v.s)
                         IN  Fill(c, IF c.prec = 0 THEN all
                                     ELSE FirstOf(all, c.prec), width)
                    [] OTHER -> CInt(c, v.n, width),
         taken |-> IF star THEN 2 ELSE 1]

CAll(use) ==
    LET And(a, b) ==
          <<"[">> \o a.text
          \o (IF use.second.conv = "none" THEN <<>> ELSE <<"|">> \o b.text)
          \o <<"]">>
        First(a) == And(a, CText(use.second,
                                 SubSeq(use.args, a.taken + 1, Len(use.args))))
    IN  First(CText(use.first, use.args))

\* The conversions that each printer knows: a string with a width is padded
\* by the boot loader alone unless the width is an argument, and cut off by
\* the kernel's vsnprintf; a sign goes in front of the spaces, and zeroes
\* make room for none; a plus is printed for an unsigned number too.
Knows(who, c) ==
    IF c.conv \in {"s", "c"}
    THEN \/ c.conv = "c"
         \/ c.width = 0 /\ c.prec = 0
         \/ who = "boot" /\ (c.prec = 0 \/ c.width = 0)
         \/ who = "kernel" /\ c.prec = 0 /\ c.width = ARG
    ELSE /\ c.width # ARG
         /\ PLUS \in c.flags <=> c.conv \in {"d", "i"} /\ PLUS \in c.flags
         /\ c.width > 0 => c.conv \notin {"d", "i"}
         /\ ZERO \in c.flags => c.prec = 0 /\ LEFT \notin c.flags
         /\ c.length = "z" => c.conv \notin {"d", "i"}
         /\ c.length \in {"j", "t"} => c.conv # "u"
         /\ c.length = "t" => c.conv \in {"d", "i"}
\* Signed numbers that are not negative are padded as they should be.
Plain(c, args) == /\ c.conv \in {"d", "i"} /\ PLUS \notin c.flags
                  /\ c.width # ARG /\ c.length \in {"", "l", "ll"}
                  /\ ZERO \in c.flags => c.prec = 0 /\ LEFT \notin c.flags
                  /\ args[1].n >= 0
KnowsCall(who, use) ==
    /\ Knows(who, use.first) \/ Plain(use.first, use.args)
    /\ use.second.conv # "none" => Knows(who, use.second)

(* What a call prints is what C says the format means, for the conversions  *)
(* its printer knows, cut off where the room ends, and the number returned  *)
(* is the number of characters that were written: the three printers agree  *)
(* although each is a copy that went its own way.  The kernel's vsnprintf   *)
(* is held to it when everything fits.                                      *)
FormatAsC ==
    LET Printed(all, room) ==
          (call.who = "vsnprintf" => Len(all) <= room) =>
            /\ got.out = FirstOf(Append(all, "nul"), room)
            /\ got.count = Smaller(Len(all), room)
    IN  call # NoCall /\ KnowsCall(call.who, call.use) =>
          Printed(CAll(call.use), call.limit)
=============================================================================
