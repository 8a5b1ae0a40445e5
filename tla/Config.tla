------------------------------- MODULE Config -------------------------------
(***************************************************************************)
(* What the boot loader does after its devices are there: it reads         *)
(* boot.json with its own parser, takes the settings out of it, and shows  *)
(* the menu until an option is chosen whose scripts the shell runs, and    *)
(* leaves the rest to an interactive shell.                                *)
(* text is a sequence of characters.  b is the text and the byte that lies *)
(* after it in memory, len the length of the text, c the cursor (from 1).  *)
(***************************************************************************)
EXTENDS Shell

CONSTANTS
    Configs,     \* [value, style, sound]: what is in the file, how it is
                 \* written, and whether every menu in it is complete
    Serialize(_, _),   \* the text of a value in a style
    Keys,        \* what the keyboard reports
    MaxPicks,    \* how often Enter is pressed on an option
    Typed,       \* [keys, line]: what may be typed, and what it leaves
    MaxLines,    \* how many lines are typed
    ReadMax,     \* the size of the line buffer of the interactive shell
    Words        \* lines -> the words their author means: sequences of
                 \* characters and <<"$", key>>

VARIABLES
    config,      \* the file: a member of Configs
    phase,       \* "start", "menu", "shell", "panic", or "wild" when
                 \* something undefined was used
    parsed,      \* config_data
    settings,    \* [password, timezone, utc]
    menus,       \* the calls of show_menu: [menu, root, selection]
    global_inst, \* the shell that runs the scripts
    session,     \* the interactive one
    ran,         \* the arguments the commands were called with
    screen,      \* the menu as drawn: [names, lit], lit the line in reverse
    picked,      \* history: the lines in reverse when Enter was pressed
    typed        \* history: the lines typed

shvars == <<zeroed, global_inst, session, ran>>
cfvars == <<config, phase, parsed, settings, menus, shvars, screen, picked,
            typed>>

Blank == {" ", "\n"}
Digits == <<"0", "1", "2", "3", "4", "5", "6", "7", "8", "9">>
DigitOf(ch) == (CHOOSE i \in 1..10 : Digits[i] = ch) - 1
IsDigit(ch) == \E i \in 1..10 : Digits[i] = ch

\* struct json_value
Json(t, n, s, es) == [type |-> t, num |-> n, str |-> s, elems |-> es]
JNull == Json("null", 0, <<>>, <<>>)
JNum(n) == Json("num", n, <<>>, <<>>)
JBool(n) == Json("bool", n, <<>>, <<>>)
JStr(s) == Json("str", 0, s, <<>>)
JObj(es) == Json("obj", 0, <<>>, es)   \* es: [key, value]
JArr(es) == Json("arr", 0, <<>>, es)   \* the key of an element is empty
Elem(k, v) == [key |-> k, value |-> v]

Ok(c, v) == [st |-> "ok", at |-> c, value |-> v]
Syntax == [st |-> "syntax", at |-> 0, value |-> JNull]
Panic == [st |-> "panic", at |-> 0, value |-> JNull]

skip_whitespace(b, len, c) ==
    IF c > len THEN c
    ELSE CHOOSE j \in c..(len + 1) : /\ \A k \in c..(j - 1) : b[k] \in Blank
                                     /\ j > len \/ b[j] \notin Blank

\* The character after a backslash is passed over with it.
RECURSIVE literal(_, _, _, _)
literal(b, len, c, s) ==
    CASE c > len -> Syntax
      [] c <= len /\ b[c] = "\\" -> literal(b, len, c + 2, s)
      [] c <= len /\ b[c] = "\"" ->
           IF c + 1 > len THEN Syntax ELSE Ok(c + 1, JStr(s))
      [] OTHER -> literal(b, len, c + 1, Append(s, b[c]))

parse_string_literal(b, len, i) ==
    LET c == skip_whitespace(b, len, i)
    IN  IF b[c] # "\"" \/ c + 1 > len THEN Syntax
        ELSE literal(b, len, c + 1, <<>>)

\* The digits may go on after the text.
RECURSIVE digits(_, _, _)
digits(b, c, n) ==
    IF IsDigit(b[c]) THEN digits(b, c + 1, 10 * n + DigitOf(b[c]))
    ELSE Ok(c, JNum(n))

parse_number(b, len, c) ==
    LET neg == b[c] = "-"
        d == digits(b, IF neg THEN c + 1 ELSE c, 0)
    IN  IF c + 1 > len THEN Syntax
        ELSE IF neg THEN [d EXCEPT !.value.num = -@] ELSE d

parse_other(b, len, c) ==
    LET is(word) == c + Len(word) <= len
                    /\ SubSeq(b, c, c + Len(word) - 1) = word
    IN  CASE is(<<"t", "r", "u", "e">>) -> Ok(c + 4, JBool(1))
          [] is(<<"f", "a", "l", "s", "e">>) -> Ok(c + 5, JBool(0))
          [] is(<<"n", "u", "l", "l">>) -> Ok(c + 4, JNull)
          [] OTHER -> Syntax

RECURSIVE parse_value(_, _, _), members(_, _, _, _), items(_, _, _, _)

\* After an element: the end, or a comma and the character after it.
AfterElem(b, len, c, close) ==
    CASE b[c] = close /\ c + 1 <= len -> [end |-> TRUE, at |-> c + 1]
      [] b[c] = "," /\ c + 2 <= len -> [end |-> FALSE, at |-> c + 2]
      [] OTHER -> [end |-> TRUE, at |-> 0]

members(b, len, i, es) ==
    LET Add(k, v, n) ==
          CASE n.at = 0 -> Panic
            [] n.at # 0 /\ n.end ->
                 Ok(n.at, JObj(Append(es, Elem(k.value.str, v.value))))
            [] OTHER -> members(b, len, n.at,
                                Append(es, Elem(k.value.str, v.value)))
        Value(k, v) ==
          IF v.st # "ok" THEN Panic
          ELSE Add(k, v, AfterElem(b, len, skip_whitespace(b, len, v.at), "}"))
        Colon(k, c) ==
          IF b[c] # ":" \/ c + 1 > len THEN Panic
          ELSE Value(k, parse_value(b, len, c + 1))
        Key(k) == IF k.st # "ok" THEN Panic
                  ELSE Colon(k, skip_whitespace(b, len, k.at))
    IN  Key(parse_string_literal(b, len, i))

items(b, len, i, es) ==
    LET Add(v, n) ==
          CASE n.at = 0 -> Syntax
            [] n.at # 0 /\ n.end ->
                 Ok(n.at, JArr(Append(es, Elem(<<>>, v.value))))
            [] OTHER -> items(b, len, n.at, Append(es, Elem(<<>>, v.value)))
        Value(v) ==
          IF v.st # "ok" THEN v
          ELSE Add(v, AfterElem(b, len, skip_whitespace(b, len, v.at), "]"))
    IN  Value(parse_value(b, len, i))

\* An object that cannot be parsed stops the loader.
parse_object(b, len, c) ==
    IF c + 1 > len THEN Syntax ELSE members(b, len, c + 1, <<>>)
parse_array(b, len, c) ==
    IF c + 1 > len THEN Syntax ELSE items(b, len, c + 1, <<>>)

parse_value(b, len, i) ==
    LET At(c) ==
          CASE b[c] = "{" -> parse_object(b, len, c)
            [] b[c] = "[" -> parse_array(b, len, c)
            [] b[c] = "\"" -> parse_string_literal(b, len, c)
            [] b[c] = "-" \/ IsDigit(b[c]) -> parse_number(b, len, c)
            [] b[c] \in {"t", "f", "n"} -> parse_other(b, len, c)
            [] OTHER -> Syntax
    IN  At(skip_whitespace(b, len, i))

\* beyond is the byte after the text, which is not terminated.
json_parse(text, beyond) ==
    parse_value(text \o <<beyond, "?">>, Len(text), 1)

\* The first element with the key; <<>> if there is none.
json_object_find_value(v, key) ==
    LET es == SelectSeq(v.elems, LAMBDA e : e.key = key)
    IN  IF es = <<>> THEN <<>> ELSE <<es[1].value>>
Has(v, key) == json_object_find_value(v, key) # <<>>
Get(v, key) == json_object_find_value(v, key)[1]
json_array_get_element_count(v) == Len(v.elems)
json_array_find_value(v, i) == v.elems[i + 1].value

----------------------------------------------------------------------------
(* read_config and show_menu *)

PASSWORD == <<"p">>
TIMEZONE == <<"z">>
UTC == <<"u">>
START == <<"s">>
MENU == <<"m">>
TITLE == <<"t">>
TIMEOUT == <<"w">>
DEFAULT == <<"d">>
OPTIONS == <<"o">>
NAME == <<"n">>
SCRIPT == <<"x">>
SUBMENU == <<"y">>

\* Absent, or of one of the types.
Fits(v, key, types) == Has(v, key) => Get(v, key).type \in types

\* The scripts of a string or an array, up to the first element that is not a
\* string; ok says whether there was none.
Scripts(v, key) ==
    LET x == Get(v, key)
        bad == {i \in DOMAIN x.elems : x.elems[i].value.type # "str"}
        n == IF bad = {} THEN Len(x.elems)
             ELSE (CHOOSE i \in bad : \A j \in bad : i <= j) - 1
    IN  CASE ~Has(v, key) -> [run |-> <<>>, ok |-> TRUE]
          [] Has(v, key) /\ x.type = "str" -> [run |-> <<x.str>>, ok |-> TRUE]
          [] Has(v, key) /\ x.type = "arr" ->
               [run |-> [i \in 1..n |-> x.elems[i].value.str],
                ok |-> bad = {}]
          [] OTHER -> [run |-> <<>>, ok |-> FALSE]

Unset == [password |-> <<>>, timezone |-> 0, utc |-> 0]
Defaults == [Unset EXCEPT !.utc = 1]
\* A time zone that is a string is not used yet.
Settings(v) ==
    [password |-> IF Has(v, PASSWORD) THEN <<Get(v, PASSWORD).str>> ELSE <<>>,
     timezone |-> IF Has(v, TIMEZONE) THEN Get(v, TIMEZONE).num ELSE 0,
     utc |-> IF Has(v, UTC) THEN Get(v, UTC).num ELSE 1]
SettingsFit(v) ==
    /\ Fits(v, PASSWORD, {"str"}) /\ Fits(v, TIMEZONE, {"str", "num"})
    /\ Fits(v, UTC, {"bool"})

MenuFits(m) ==
    /\ Fits(m, TITLE, {"str"}) /\ Fits(m, TIMEOUT, {"num"})
    /\ Fits(m, DEFAULT, {"num"}) /\ Has(m, OPTIONS)
    /\ Get(m, OPTIONS).type = "arr"
    \* drawn before the first key
    /\ \A i \in DOMAIN Get(m, OPTIONS).elems :
         LET o == Get(m, OPTIONS).elems[i].value
         IN  o.type = "obj" /\ Has(o, NAME) /\ Get(o, NAME).type = "str"
DefaultOf(m) == IF Has(m, DEFAULT) THEN Get(m, DEFAULT).num ELSE 0
Count(m) == json_array_get_element_count(Get(m, OPTIONS))
Call(m, root) == [menu |-> m, root |-> root, selection |-> DefaultOf(m)]

\* The names, "Go Back" below them unless this is the first menu, and the
\* line whose number is the selection.
GoBackLine == <<"<">>
draw(call) ==
    LET os == Get(call.menu, OPTIONS).elems
        names == [i \in DOMAIN os |-> Get(os[i].value, NAME).str]
        lines == IF call.root THEN names ELSE Append(names, GoBackLine)
    IN  [names |-> lines,
         lit |-> IF call.selection + 1 \in DOMAIN lines
                 THEN lines[call.selection + 1] ELSE <<>>]

\* selection is compared with option_count as an unsigned number.
moved(call, key) ==
    LET last == IF call.root THEN Count(call.menu) - 1 ELSE Count(call.menu)
        s == call.selection
    IN  CASE key = "up" /\ s > 0 -> [call EXCEPT !.selection = s - 1]
          [] key = "down" /\ s >= 0 /\ s < last ->
               [call EXCEPT !.selection = s + 1]
          [] OTHER -> call

Show(call) == screen' = draw(call)
BlankScreen == [names |-> <<>>, lit |-> <<>>]

----------------------------------------------------------------------------

CfInit ==
    /\ config \in Configs
    /\ phase = "start" /\ parsed = JNull /\ settings = Unset
    /\ menus = <<>> /\ screen = BlankScreen /\ picked = <<>> /\ typed = <<>>
    /\ zeroed \in BOOLEAN
    /\ global_inst = NewShell /\ session = NewShell /\ ran = <<>>

Stop ==
    /\ phase' = "panic"
    /\ UNCHANGED <<parsed, settings, menus, shvars, screen>>

\* The scripts, one after the other; what follows depends on their end.
Execute(lines, next) ==
    /\ \E r \in {execute_all(global_inst, lines)} :
         /\ global_inst' = r.sh /\ ran' = ran \o r.run
         /\ phase' = IF r.sh.wild THEN "wild" ELSE next
    /\ UNCHANGED <<zeroed, session>>

\* No file: the shell is started with the defaults.
NoConfig ==
    /\ phase = "start"
    /\ phase' = "shell" /\ settings' = Defaults
    /\ UNCHANGED <<config, parsed, menus, shvars, screen, picked, typed>>

\* The scripts of the file or of an option, and then its menu, if it has one:
\* where the loader goes from there.
After(script, v, key) ==
    CASE ~script.ok \/ ~Fits(v, key, {"obj"}) -> "panic"
      [] script.ok /\ ~Has(v, key) -> "shell"
      [] OTHER -> IF MenuFits(Get(v, key)) THEN "menu" ELSE "panic"
Enter(calls, call) == menus' = Append(calls, call) /\ Show(call)
Follow(script, v, key, root) ==
    \E next \in {After(script, v, key)} :
      /\ Execute(script.run, next)
      /\ \/ next = "menu" /\ Enter(menus, Call(Get(v, key), root))
         \/ next # "menu" /\ UNCHANGED <<menus, screen>>

\* read_config, and main up to the first key.
ReadConfig(beyond) ==
    /\ phase = "start"
    /\ \E r \in {json_parse(Serialize(config.value, config.style), beyond)} :
         LET v == r.value
             fits == r.st = "ok" /\ v.type = "obj" /\ SettingsFit(v)
         IN  \/ ~fits /\ Stop
             \/ /\ fits
                /\ parsed' = v /\ settings' = Settings(v)
                /\ \E start \in {Scripts(v, START)} :
                     Follow(start, v, MENU, TRUE)
    /\ UNCHANGED <<config, picked, typed>>

Top == menus[Len(menus)]
Below == SubSeq(menus, 1, Len(menus) - 1)

\* A key that is released, or an error, only draws the menu again.
Move(key) ==
    /\ phase = "menu" /\ key # "enter"
    /\ \E call \in {moved(Top, key)} : Enter(Below, call)
    /\ UNCHANGED <<config, phase, parsed, settings, shvars, picked, typed>>

\* The parent begins again with its default.
GoBack ==
    /\ phase = "menu" /\ Top.selection = Count(Top.menu)
    /\ \/ Len(menus) = 1 /\ phase' = "shell" /\ UNCHANGED <<menus, screen>>
       \/ /\ Len(menus) > 1
          /\ \E up \in {Below[Len(Below)]} :
               Enter(SubSeq(menus, 1, Len(menus) - 2), Call(up.menu, up.root))
          /\ UNCHANGED phase
    /\ UNCHANGED <<config, parsed, settings, shvars, picked, typed>>

\* Mutant: the option after the highlighted one.
next_option(call) ==
    json_array_find_value(Get(call.menu, OPTIONS),
                          (call.selection + 1) % Count(call.menu))

selected(call) ==
    json_array_find_value(Get(call.menu, OPTIONS), call.selection)

\* Every call of show_menu returns 0, and the shell follows.
Choose ==
    /\ phase = "menu" /\ Top.selection # Count(Top.menu)
    /\ Len(picked) < MaxPicks
    /\ picked' = Append(picked, screen.lit)
    /\ \/ /\ Top.selection \notin 0..(Count(Top.menu) - 1)
          /\ phase' = "panic" /\ UNCHANGED <<menus, shvars, screen>>
       \/ /\ Top.selection \in 0..(Count(Top.menu) - 1)
          /\ \E o \in {selected(Top)} : \E s \in {Scripts(o, SCRIPT)} :
               Follow(s, o, SUBMENU, FALSE)
    /\ UNCHANGED <<config, parsed, settings, typed>>

\* shell_handler: a line is read and executed; main starts the shell again
\* when it is left.
TypeLine(t) ==
    /\ phase = "shell" /\ Len(typed) < MaxLines
    /\ typed' = Append(typed, t.line)
    /\ \E r \in {shell_execute(session,
                               shell_readline(t.keys, <<>>, ReadMax))} :
         /\ session' = IF r.exit THEN NewShell ELSE r.sh
         /\ ran' = ran \o r.run
         /\ phase' = IF r.sh.wild THEN "wild" ELSE "shell"
    /\ UNCHANGED <<config, parsed, settings, menus, zeroed, global_inst,
                   screen, picked>>

CfNext ==
    \/ NoConfig
    \/ \E beyond \in {"?", "7", "}"} : ReadConfig(beyond)
    \/ \E key \in Keys : Move(key)
    \/ GoBack
    \/ Choose
    \/ \E t \in Typed : TypeLine(t)

----------------------------------------------------------------------------

\* The options of a menu and of the menus below it.
RECURSIVE OptionsIn(_)
OptionsIn(m) ==
    LET es == Get(m, OPTIONS).elems
        os == {es[i].value : i \in DOMAIN es}
    IN  os \cup UNION {OptionsIn(Get(o, SUBMENU)) :
                         o \in {x \in os : Has(x, SUBMENU)}}
ScriptsNamed(v, name) ==
    LET os == {o \in OptionsIn(Get(v, MENU)) : Get(o, NAME).str = name}
    IN  IF os = {} THEN <<>> ELSE Scripts(CHOOSE o \in os : TRUE, SCRIPT).run
RECURSIVE RunFor(_, _)
RunFor(v, names) ==
    IF names = <<>> THEN Scripts(v, START).run
    ELSE LET n == Len(names)
         IN  RunFor(v, SubSeq(names, 1, n - 1)) \o ScriptsNamed(v, names[n])

\* What lines mean, one after the other: the words, with every variable
\* replaced by what it was last set to in this shell.  store: <<key, value>>.
ValueIn(store, key) ==
    LET at == {i \in DOMAIN store : store[i][1] = key}
    IN  IF at = {} THEN <<>>
        ELSE store[CHOOSE i \in at : \A j \in at : j <= i][2]
RECURSIVE Spelled(_, _)
Spelled(store, word) ==
    IF word = <<>> THEN <<>>
    ELSE (IF Len(word[1]) = 1 THEN word[1] ELSE ValueIn(store, word[1][2]))
         \o Spelled(store, Tail(word))
RECURSIVE Meant(_, _)
Meant(store, lines) ==
    IF lines = <<>> THEN <<>>
    ELSE LET ws == Words[lines[1]]
             argv == [i \in DOMAIN ws |-> Spelled(store, ws[i])]
             after == CASE argv[1] = SET -> Append(store, Tail(argv))
                        [] argv[1] = EXIT -> <<>>
                        [] OTHER -> store
             run == IF argv[1] \in Commands \cup {SET} THEN <<argv>> ELSE <<>>
         IN  run \o Meant(after, Tail(lines))

(***************************************************************************)
(* boot.json means what its author wrote: when it is laid out one element  *)
(* to a line and complete, the loader never stops, its settings and its    *)
(* menus are those of the file, and the commands called are those of the   *)
(* start script, then of the lines that were in reverse on the screen each *)
(* time Enter was pressed, through submenus and back, then of the lines    *)
(* typed, each with the words and the variables that were written.  (If    *)
(* the heap's memory is not zero the second variable is found through a    *)
(* field that was never set: boot/shell/variable.c:37.)                    *)
(***************************************************************************)
ConfigFollowed ==
    /\ zeroed /\ (\A i \in DOMAIN typed : typed[i] \in DOMAIN Words) =>
         phase # "wild"
    /\ config.style = "lines" /\ config.sound =>
         /\ phase # "panic"
         /\ phase = "menu" => screen.lit # <<>>
         /\ parsed # JNull =>
              parsed = config.value /\ settings = Settings(config.value)
         /\ /\ parsed # JNull /\ phase # "wild"
            /\ \A i \in DOMAIN typed : typed[i] \in DOMAIN Words
            => ran = Meant(<<>>, RunFor(config.value, picked))
                     \o Meant(<<>>, typed)
=============================================================================
