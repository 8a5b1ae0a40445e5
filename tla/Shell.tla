------------------------------- MODULE Shell -------------------------------
(***************************************************************************)
(* The shell of the boot loader: how a line becomes the arguments of a     *)
(* command, and the variables.  A line is a sequence of characters.  sh is *)
(* the shell's instance: [vars, wild], vars the list of [key, value], wild *)
(* when something undefined has been used: a list element whose next field *)
(* was never set, or a buffer filled to the last byte, without the 0.      *)
(***************************************************************************)
EXTENDS Integers, Sequences, SequencesExt

CONSTANTS
    LineMax, ElemMax, ArgMax,  \* sizes of line_buf, elem_buf and newargv
    Commands,                  \* commands other than set and exit
    CharOfCode(_)              \* the character with a number

VARIABLE zeroed   \* whether the heap's memory is 0 where a next field lies

NotInKey == {"\"", "'", "\\", " ", "\t", "$", "/", ".", ":", "?", "-"}
NewShell == [vars |-> <<>>, wild |-> FALSE]

\* strncmp with the length of the variable: the key may go on.
SameKey(e, key) ==
    Len(e.key) <= Len(key) /\ SubSeq(key, 1, Len(e.key)) = e.key
Find(sh, key) ==
    LET at == {i \in DOMAIN sh.vars : SameKey(sh.vars[i], key)}
    IN  IF at = {} THEN 0 ELSE CHOOSE i \in at : \A j \in at : i <= j

\* A search that does not find the key reads the next field of the last one.
RunsOff(sh, key) == Find(sh, key) = 0 /\ sh.vars # <<>> /\ ~zeroed

shell_get_variable(sh, key) ==
    LET i == Find(sh, key)
    IN  [value |-> IF i = 0 THEN <<>> ELSE sh.vars[i].value,
         wild |-> sh.wild \/ RunsOff(sh, key)]

shell_set_variable(sh, key, value) ==
    LET i == Find(sh, key)
        e == [key |-> key, value |-> value]
    IN  [vars |-> IF i = 0 THEN Append(sh.vars, e)
                  ELSE [sh.vars EXCEPT ![i] = e],
         wild |-> sh.wild \/ RunsOff(sh, key)]

\* The key after a $: up to the first character that cannot be part of it.
KeyEnd(line, c) ==
    LET stops == {i \in c..Len(line) : line[i] \in NotInKey}
    IN  IF stops = {} THEN Len(line) + 1
        ELSE CHOOSE i \in stops : \A j \in stops : i <= j

RECURSIVE expand_from(_, _, _, _)
expand_from(sh, line, c, out) ==
    LET end == KeyEnd(line, c + 1)
        Insert(v) == expand_from([sh EXCEPT !.wild = v.wild], line, end,
                                 out \o v.value)
    IN  CASE c > Len(line) -> [sh |-> sh, text |-> out]
          [] c < Len(line) /\ line[c] = "\\" /\ line[c + 1] = "$" ->
               expand_from(sh, line, c + 2, Append(out, "$"))
          [] c <= Len(line) /\ line[c] = "$" ->
               Insert(shell_get_variable(sh, SubSeq(line, c + 1, end - 1)))
          [] OTHER -> expand_from(sh, line, c + 1, Append(out, line[c]))

\* ok is FALSE when the line does not fit.
shell_expand(sh, line) ==
    LET Result(r) ==
          [sh |-> [r.sh EXCEPT !.wild = @ \/ Len(r.text) = LineMax],
           text |-> r.text, ok |-> Len(r.text) <= LineMax]
    IN  Result(expand_from(sh, line, 1, <<>>))

Octal == {"0", "1", "2", "3", "4", "5", "6", "7"}
Control == {"a", "b", "e", "f", "n", "r", "t", "v"}
HexDigits == <<"0", "1", "2", "3", "4", "5", "6", "7", "8", "9",
               "a", "b", "c", "d", "e", "f">>
IsDigitOf(base, ch) == \E i \in 1..base : HexDigits[i] = ch

\* strtol: the number at c and where it ends.
RECURSIVE strtol(_, _, _, _)
strtol(line, c, base, n) ==
    IF c <= Len(line) /\ IsDigitOf(base, line[c])
    THEN strtol(line, c + 1, base,
                base * n + (CHOOSE i \in 1..16 : HexDigits[i] = line[c]) - 1)
    ELSE [n |-> n, at |-> c]

\* After a backslash: what is added, and where the line goes on.  A letter
\* that stands for a control character is not passed over.
escape(line, c) ==
    LET ch == IF c <= Len(line) THEN line[c] ELSE "end"
        Coded(num) == [add |-> <<CharOfCode(num.n)>>, at |-> num.at]
    IN  CASE ch \in {"\\", "'", "\"", "?", " ", "\t"} ->
               [add |-> <<ch>>, at |-> c + 1]
          [] ch \in Control -> [add |-> <<"ctl">>, at |-> c]
          [] ch \in Octal \cup {"x"} ->
               Coded(IF ch = "x" THEN strtol(line, c + 1, 16, 0)
                     ELSE strtol(line, c, 8, 0))
          [] OTHER -> [add |-> <<>>, at |-> c]

\* One element from c on; a quote of the other kind takes the place of the
\* one that is open.
RECURSIVE element(_, _, _, _)
element(line, c, quote, out) ==
    LET ch == line[c]
        GoOn(x) == element(line, x.at, quote, out \o x.add)
    IN  IF c > Len(line) \/ (ch \in {" ", "\t"} /\ quote = "")
        THEN [at |-> c, text |-> out]
        ELSE CASE ch \in {"\"", "'"} ->
                    element(line, c + 1, IF quote = ch THEN "" ELSE ch, out)
               [] ch = "\\" -> GoOn(escape(line, c + 1))
               [] OTHER -> GoOn([at |-> c + 1, add |-> <<ch>>])

RECURSIVE blanks(_, _)
blanks(line, c) ==
    IF c <= Len(line) /\ line[c] \in {" ", "\t"} THEN blanks(line, c + 1)
    ELSE c

\* found is FALSE at the end of the line and when the element does not fit.
shell_parse(line, i, buflen) ==
    LET None == [found |-> FALSE, at |-> i, text |-> <<>>]
        Fit(e) == IF Len(e.text) > buflen THEN None
                  ELSE [found |-> TRUE, at |-> e.at, text |-> e.text]
        From(c) == IF c > Len(line) THEN None
                   ELSE Fit(element(line, c, "", <<>>))
    IN  From(blanks(line, i))

\* newargv; the element that fills the buffer has no 0.
RECURSIVE arguments(_, _, _, _)
arguments(line, c, room, argv) ==
    LET Add(e) ==
          CASE ~e.found -> [argv |-> argv, wild |-> FALSE]
            [] e.found /\ Len(e.text) = room ->
                 [argv |-> Append(argv, e.text), wild |-> TRUE]
            [] OTHER -> arguments(line, e.at, room - Len(e.text) - 1,
                                  Append(argv, e.text))
    IN  IF Len(argv) = ArgMax THEN [argv |-> argv, wild |-> FALSE]
        ELSE Add(shell_parse(line, c, room))

SET == <<"s", "e", "t">>
EXIT == <<"e", "x", "i", "t">>

set_handler(sh, argv) ==
    IF Len(argv) # 3 THEN sh ELSE shell_set_variable(sh, argv[2], argv[3])

\* run: the arguments of the handler that is called, if any.
shell_execute(sh, line) ==
    LET Dispatch(s, argv) ==
          LET no == [sh |-> s, run |-> <<>>, exit |-> FALSE]
          IN  CASE argv = <<>> -> no
                [] argv # <<>> /\ argv[1] = EXIT -> [no EXCEPT !.exit = TRUE]
                [] argv # <<>> /\ argv[1] = SET ->
                     [no EXCEPT !.sh = set_handler(s, argv), !.run = <<argv>>]
                [] argv # <<>> /\ argv[1] \in Commands ->
                     [no EXCEPT !.run = <<argv>>]
                [] OTHER -> no   \* command not found
        Parsed(s, a) == Dispatch([s EXCEPT !.wild = @ \/ a.wild], a.argv)
        Expanded(x) ==
          IF ~x.ok THEN [sh |-> x.sh, run |-> <<>>, exit |-> FALSE]
          ELSE Parsed(x.sh, arguments(x.text, 1, ElemMax, <<>>))
    IN  Expanded(shell_expand(sh, line))

\* shell_execute for one line after the other.
execute_all(sh, lines) ==
    LET Then(a, r) == [sh |-> r.sh, run |-> a.run \o r.run]
    IN  FoldLeft(LAMBDA a, line : Then(a, shell_execute(a.sh, line)),
                 [sh |-> sh, run |-> <<>>], lines)

\* The keys up to Enter; a backspace takes the last character back, and a
\* character that has no room is not taken.
RECURSIVE shell_readline(_, _, _)
shell_readline(keys, buf, len) ==
    IF keys = <<>> THEN buf
    ELSE LET k == keys[1]
             b == CASE k = "bs" -> SubSeq(buf, 1, Len(buf) - 1)
                    [] k # "bs" /\ Len(buf) < len - 1 -> Append(buf, k)
                    [] OTHER -> buf
         IN  shell_readline(Tail(keys), b, len)
=============================================================================
