------------------------------ MODULE MCSystem ------------------------------
(***************************************************************************)
(* The layers above the devices, in small: formatted output, the file      *)
(* systems of the boot loader, the kernel's FAT driver, modules and the    *)
(* start of the kernel, paths and the working directory, and boot.json     *)
(* with its menu.  A behaviour is of one of them.                          *)
(***************************************************************************)
EXTENDS Printf, Files, KernelFat, Modules, Path, Config

VARIABLE scene

sysvars ==
    <<scene, pfvars, fivars, kfvars, bootvars, mdvars, pavars, cfvars>>

----------------------------------------------------------------------------
(* printf *)

Conv(f, w, p, l, c) ==
    [flags |-> f, width |-> w, prec |-> p, length |-> l, conv |-> c]
Numbers ==
    {Conv(f, w, p, l, c) :
       f \in SUBSET {LEFT, PLUS, ZERO}, w \in {0, 4}, p \in {0, 2},
       l \in {"", "hh", "ll", "z"}, c \in {"d", "u", "x", "X", "o"}}
    \cup {Conv({}, w, 0, "", "p") : w \in {0, 4}}
Strings ==
    {Conv(f, w, p, "", "s") : f \in SUBSET {LEFT}, w \in {0, 4}, p \in {0, 2}}
StarStrings == {Conv(f, ARG, 0, "", "s") : f \in SUBSET {LEFT}}
Characters == {Conv(f, w, 0, "", "c") : f \in SUBSET {LEFT}, w \in {0, 3}}
Then == Conv({ZERO}, 2, 0, "", "x")
Use(a, b, args) == [first |-> a, second |-> b, args |-> args]
Abc == <<"a", "b", "c">>
MCUses ==
    {Use(n, b, <<NumberArg(v), NumberArg(11)>>) :
       n \in Numbers, v \in {0, 9, -3, 28}, b \in {NoSpec, Then}}
    \cup {Use(n, Then, <<TextArg(v), NumberArg(11)>>) :
            n \in Strings, v \in {<<>>, Abc, NULL}}
    \cup {Use(n, Then, <<NumberArg(w), TextArg(v), NumberArg(11)>>) :
            n \in StarStrings, w \in {0, 4}, v \in {<<>>, Abc}}
    \cup {Use(n, Then, <<TextArg(<<"x">>), NumberArg(11)>>) :
            n \in Characters}

----------------------------------------------------------------------------
(* Volumes for the boot loader's file systems *)

Dirent(k, b, x, c, n) ==
    [NoEntry EXCEPT !.kind = k, !.base = b, !.ext = x, !.cluster = c,
                    !.size = n]
LongName(f, i, l) ==
    [NoEntry EXCEPT !.kind = "lfn", !.frag = f, !.index = i, !.last = l]
Content(id, n) == [i \in 1..n |-> id * 50 + i]

\* The bytes of a table whose entries are t.
Nibble(v, i) == (v \div 16^i) % 16
EntryOf(t, c) == IF c \in DOMAIN t THEN t[c] ELSE 0
TableBytes(type, t) ==
    CASE type = "fat12" ->
           LET nib(k) == Nibble(EntryOf(t, k \div 3), k % 3)
           IN  [i \in 1..40 |-> nib(2 * i - 2) + 16 * nib(2 * i - 1)]
      [] type = "fat16" ->
           [i \in 1..40 |-> Byte(EntryOf(t, (i - 1) \div 2), (i - 1) % 2)]
      [] type = "fat32" ->
           [i \in 1..80 |-> Byte(EntryOf(t, (i - 1) \div 4), (i - 1) % 4)]

SectorOf(bytes, ents) ==
    [bytes |-> [i \in 1..SectorSize |->
                  IF i <= Len(bytes) THEN bytes[i] ELSE 0],
     ents |-> ents, head |-> "none"]
Headed(h) == [SectorOf(<<>>, <<>>) EXCEPT !.head = h]
Part(b, k, n) == SubSeq(b, k * n + 1, Least(Len(b), (k + 1) * n))
LastInChain(type) ==
    CASE type = "fat12" -> 4095 [] type = "fat16" -> 65535
      [] type = "fat32" -> 268435455

\* A chain of clusters with its bytes or its entries.
Chain(at, bytes, ents) == [at |-> at, bytes |-> bytes, ents |-> ents]

\* A volume with clusters of spc sectors, two sectors reserved, one table.
FatVolume(type, spc, root, chains, files, faulty) ==
    LET fatsec == IF type = "fat32" THEN 6 ELSE 3
        rs == IF type = "fat32" THEN 0
              ELSE (Len(root) + 1 + PerSector) \div PerSector
        begin == 2 + fatsec
        used == UNION {ToSet(ch.at) : ch \in chains}
        t == [c \in used |->
                LET ch == CHOOSE x \in chains : c \in ToSet(x.at)
                    i == CHOOSE j \in DOMAIN ch.at : ch.at[j] = c
                IN  IF i = Len(ch.at) THEN LastInChain(type)
                    ELSE ch.at[i + 1]]
        bytes == TableBytes(type, t)
        first(c) == (c - 2) * spc + begin + rs
        content(ch, k) == SectorOf(Part(ch.bytes, k, SectorSize),
                                   Part(ch.ents, k, PerSector))
        sector(l) ==
          CASE l = 1 -> Headed("fsinfo")
            [] l \in 2..(begin - 1) ->
                 SectorOf(Part(bytes, l - 2, SectorSize), <<>>)
            [] l \in begin..(begin + rs - 1) ->
                 SectorOf(<<>>, Part(root, l - begin, PerSector))
            [] OTHER ->
                 LET c == (l - begin - rs) \div spc + 2
                     ch == CHOOSE x \in chains : c \in ToSet(x.at)
                     i == CHOOSE j \in DOMAIN ch.at : ch.at[j] = c
                 IN  content(ch, (i - 1) * spc + (l - first(c)))
        lbas == 1..(begin + rs - 1)
                \cup UNION {first(c)..(first(c) + spc - 1) : c \in used}
    IN  [block |-> 512, pathtbl |-> 0, rootdir |-> 0,
         bpb |-> [signature |-> TRUE, fs_type |-> TRUE, spc |-> spc,
                  root_entries |-> rs * PerSector, reserved |-> 2, fats |-> 1,
                  fat_size |-> fatsec, fsinfo |-> 1, root_cluster |-> 2,
                  total |-> CASE type = "fat12" -> 100
                              [] type = "fat16" -> 9000
                              [] type = "fat32" -> 140000],
         sectors |-> [l \in lbas |-> sector(l)],
         files |-> files, faulty |-> faulty]

\* a.t in the clusters at, in the directory s a file with a long name.
InDirectory ==
    <<Dirent("dir", ".", "", 6, 0), Dirent("dir", "..", "", 0, 0),
      Dirent("label", "v", "", 0, 0), Dirent("deleted", "b", "", 4, 3),
      LongName("ng", 2, TRUE), LongName("lo", 1, FALSE),
      Dirent("file", "LO", "", 7, 5)>>
InRoot(n) == <<Dirent("file", "a", "t", 3, n), Dirent("dir", "s", "", 6, 0)>>
FilesOf(n, long) ==
    [p \in {<<<<"a", ".", "t">>>>, <<<<"s">>, long>>} |->
       IF Len(p) = 1 THEN Content(1, n) ELSE Content(2, 5)]
MCFat(type, spc, n, at, faulty) ==
    FatVolume(type, spc, IF type = "fat32" THEN <<>> ELSE InRoot(n),
              {Chain(at, Content(1, n), <<>>),
               Chain(<<6, 8, 9, 10>>, <<>>, InDirectory),
               Chain(<<7>>, Content(2, 5), <<>>)}
              \cup IF type = "fat32" THEN {Chain(<<2>>, <<>>, InRoot(n))}
                   ELSE {},
              FilesOf(n, <<"lo", "ng">>), faulty)

IsoSectors ==
    [l \in {16, 17, 18, 20, 21, 22, 23, 24, 25} |->
       CASE l = 16 -> Headed("svd") [] l = 17 -> Headed("pvd")
         [] l = 18 -> Headed("term") [] l = 20 -> SectorOf(<<>>, <<>>)
         [] l = 21 -> SectorOf(<<>>, <<Dirent("dir", ".", "", 21, 8),
                                       Dirent("file", "a", "t", 23, 12),
                                       Dirent("dir", "s", "", 22, 8),
                                       Dirent("file", "x", "", 25, 5)>>)
         [] l = 22 -> SectorOf(<<>>, <<Dirent("dir", ".", "", 22, 8),
                                       Dirent("dir", "..", "", 21, 8),
                                       Dirent("file", "lo", "", 25, 5)>>)
         [] l = 23 -> SectorOf(Content(1, 12), <<>>)
         [] l = 24 -> SectorOf(SubSeq(Content(1, 12), 9, 12), <<>>)
         [] l = 25 -> SectorOf(Content(2, 5), <<>>)]
IsoVolume ==
    LET fs == FilesOf(12, <<"lo">>)
    IN  [block |-> 2048, pathtbl |-> 20, rootdir |-> 21,
         bpb |-> [signature |-> FALSE, fs_type |-> FALSE, spc |-> 1,
                  root_entries |-> 0, reserved |-> 0, fats |-> 0,
                  fat_size |-> 0, total |-> 0, fsinfo |-> 0,
                  root_cluster |-> 0],
         sectors |-> IsoSectors,
         files |-> [p \in DOMAIN fs \cup {<<<<"x">>>>} |->
                      IF p \in DOMAIN fs THEN fs[p] ELSE Content(2, 5)],
         faulty |-> {17, 22, 24}]
AfsVolume ==
    [IsoVolume EXCEPT !.block = 512, !.bpb.reserved = 2, !.faulty = {0, 2},
                      !.sectors = [l \in {0} |-> Headed("afs")]]
\* A fragmented file, one of whole clusters, and one that ends with a sector.
MCVolumes ==
    {MCFat("fat12", 1, 20, <<3, 5, 4>>, {0, 4, 5}),
     MCFat("fat12", 2, 32, <<3, 5>>, {3, 14}),
     MCFat("fat16", 1, 11, <<3, 4>>, {3}),
     MCFat("fat32", 2, 20, <<3, 12>>, {1, 2, 3}), IsoVolume, AfsVolume}
MCPaths ==
    {<<<<"a", ".", "t">>>>, <<<<"s">>, <<".">>, <<"lo", "ng">>>>,
     <<<<"s">>, <<"lo">>>>, <<<<"s">>, <<>>>>, <<<<"s">>>>,
     <<<<"s">>, <<"..">>, <<"a", ".", "t">>>>, <<<<"..">>, <<"x">>>>}
MCReads == {<<1, 9>>, <<7, 2>>, <<30, 1>>}
MCSeeks ==
    {<<0, "set">>, <<5, "set">>, <<-3, "cur">>, <<9, "cur">>, <<0, "end">>}

----------------------------------------------------------------------------
(* Volumes for the kernel's FAT driver *)

KVolume(total, size, root) ==
    [signature |-> TRUE, fs_type |-> TRUE, spc |-> 1, root_entries |-> root,
     reserved |-> 2, fat_count |-> 2, fat_size |-> size, total |-> total,
     fsinfo |-> 1, fsinfo_ok |-> TRUE, faulty |-> {0, 1, 3}]
MCKVolumes ==
    {KVolume(100, 3, 1), KVolume(9000, 3, 1), KVolume(90000, 6, 0),
     [KVolume(90000, 6, 0) EXCEPT !.fsinfo_ok = FALSE],
     [KVolume(100, 3, 1) EXCEPT !.signature = FALSE]}
MCKFats == -1..2   \* a copy before, the two there are, and one after
MCBlocks == 0..20

----------------------------------------------------------------------------
(* Modules and kernels *)

Rel(t, o, y) == [type |-> t, offset |-> o, sym |-> y]
Segment(t, v, n, ws) == [type |-> t, vaddr |-> v, memsz |-> n, words |-> ws]
Symbol(n, d, v) == [name |-> n, defined |-> d, value |-> v]
Note(k, t) == [key |-> k, type |-> t]
Good ==
    [name |-> "a", ident |-> TRUE, type |-> "DYN", entry |-> "works",
     command |-> TRUE,
     sections |-> {".strtab", ".symtab", ".note.eboot", ".init_array",
                   ".fini_array"},
     phdrs |-> <<Segment("LOAD", 0, 3, <<1, 9, 4>>),
                 Segment("NOTE", 0, 1, <<>>), Segment("DYNAMIC", 3, 1, <<>>)>>,
     syms |-> [GOT |-> Symbol("GOT", TRUE, 3),
               puts |-> Symbol("puts", FALSE, 0),
               own |-> Symbol("own", TRUE, 2)],
     rels |-> <<<<Rel("RELATIVE", 0, "own"), Rel("GLOB_DAT", 1, "puts"),
                  Rel("PC32", 2, "puts")>>>>,
     note |-> <<Note(<<"v">>, 2), Note(<<"n", "a", "m", "e">>, 1)>>]
Other ==
    [Good EXCEPT !.name = "b", !.phdrs = <<Segment("LOAD", 0, 2, <<3, 5>>)>>,
                 !.rels = <<<<Rel("32", 0, "own"),
                              Rel("JMP_SLOT", 1, "own")>>>>]
MCModuleFiles ==
    {Good, Other, [Good EXCEPT !.entry = "fails"],
     [Good EXCEPT !.rels[1][3].sym = "GOT", !.syms.GOT.defined = FALSE,
                  !.syms.GOT.name = "?"],
     [Good EXCEPT !.note = <<Note(<<"v">>, 1)>>],
     [Other EXCEPT !.sections = @ \ {".init_array"}],
     [Other EXCEPT !.type = "EXEC"], [Other EXCEPT !.ident = FALSE],
     [Other EXCEPT !.rels[1][2].type = "COPY"]}
Kernel ==
    [ident |-> TRUE, type |-> "EXEC", sections |-> {".strtab", ".symtab"},
     phdrs |-> <<Segment("LOAD", 24, 3, <<6, 7>>),
                 Segment("STACK", 24, 0, <<>>), Segment("LOAD", 28, 3, <<8>>)>>]
MCKernels ==
    {Kernel, [Kernel EXCEPT !.type = "DYN"],
     [Kernel EXCEPT !.phdrs = <<Segment("LOAD", 28, 3, <<8>>),
                                Segment("LOAD", 25, 1, <<6>>)>>]}
MCBootMaps ==
    {<<[base |-> 0, size |-> 2, free |-> TRUE],
       [base |-> 2, size |-> n, free |-> TRUE]>> : n \in {8, 14}}
MCExported == [puts |-> 5]

----------------------------------------------------------------------------
(* Paths *)

MCPathTexts ==
    {pre \o q : pre \in {<<>>, <<"f", ":">>},
                q \in UNION {[1..n -> {"a", ".", "/"}] : n \in 0..5}}
MCFsNames == {<<"f">>, <<"g">>}
MCDirs ==
    {<<>>, <<<<"a">>>>, <<<<"b">>>>, <<<<"b">>, <<"a">>>>,
     <<<<"b">>, <<"a">>, <<"a">>>>}
MCCdTexts ==
    {<<"f", ":">>, <<"/">>, <<"f", ":", "/", "b">>,
     <<"g", ":", "/", "b", "/", "a">>, <<"h", ":", "/">>,
     <<"/", "b", "/", ".", ".", "/", "a">>, <<".">>, <<".", "/">>, <<"a">>,
     <<"b">>, <<".", ".">>, <<"b", "/", "a", "/", ".", ".">>,
     <<".", "/", "b">>, <<".", ".", "/", "b", "/">>}
MCCwd == <<<<"c">>, <<"d">>>>

----------------------------------------------------------------------------
(* boot.json *)

Quoted(s) == <<"\"">> \o s \o <<"\"">>
Literal(n) ==
    CASE n < 0 -> <<"-", Digits[1 - n]>>
      [] n \in 0..9 -> <<Digits[n + 1]>>
      [] n > 9 -> <<Digits[n \div 10 + 1], Digits[(n % 10) + 1]>>

\* One element to a line, or with nothing between them.
RECURSIVE Text(_, _), Listed(_, _, _)
Listed(es, keyed, style) ==
    LET key(e) == IF keyed THEN Quoted(e.key) \o <<":">> ELSE <<>>
        one(e) == key(e) \o Text(e.value, style)
        sep == IF style = "lines" THEN <<",", "\n">> ELSE <<",">>
    IN  CASE es = <<>> -> <<>>
          [] Len(es) = 1 -> one(es[1])
          [] Len(es) > 1 ->
               one(es[1]) \o sep \o Listed(Tail(es), keyed, style)
Text(v, style) ==
    CASE v.type = "num" -> Literal(v.num)
      [] v.type = "bool" -> IF v.num = 1 THEN <<"t", "r", "u", "e">>
                            ELSE <<"f", "a", "l", "s", "e">>
      [] v.type = "null" -> <<"n", "u", "l", "l">>
      [] v.type = "str" -> Quoted(v.str)
      [] v.type = "obj" -> <<"{">> \o Listed(v.elems, TRUE, style) \o <<"}">>
      [] v.type = "arr" -> <<"[">> \o Listed(v.elems, FALSE, style) \o <<"]">>
MCSerialize(v, style) ==
    Text(v, style) \o IF style = "lines" THEN <<"\n">> ELSE <<>>

\* Lines, and the words they are written for.
L == <<"l", " ">>
SetTo(key, x) == SET \o <<" ", key, " ", x>>
UseK == L \o <<"'", " ", "'", "$", "k", "/">>
Mixed == <<" ">> \o L \o <<"\"", "a", " ", "b", "\"", "$", "m", "$", "k">>
Escaped == L \o <<"\\", "$", "k", "\\", " ", "\\", "x", "2", "0", "'", "'">>
Long == L \o [i \in 1..18 |-> "a"]
Chars(line) == [i \in DOMAIN line |-> <<line[i]>>]
Var(key) == <<<<"$", <<key>>>>>>
MCWords ==
    [line \in {L \o <<x>> : x \in {"1", "2", "3", "4", "5"}}
              \cup {SetTo("k", "v"), SetTo("k", "w"), SetTo("m", "z")}
              \cup {UseK, Mixed, Escaped, EXIT, <<"q">>} |->
       CASE Len(line) = 3 -> <<Chars(<<"l">>), Chars(<<line[3]>>)>>
         [] Len(line) > 3 /\ SubSeq(line, 1, 3) = SET ->
              <<Chars(SET), Chars(<<line[5]>>), Chars(<<line[7]>>)>>
         [] line = UseK ->
              <<Chars(<<"l">>), Chars(<<" ">>) \o Var("k") \o Chars(<<"/">>)>>
         [] line = Mixed ->
              <<Chars(<<"l">>),
                Chars(<<"a", " ", "b">>) \o Var("m") \o Var("k")>>
         [] line = Escaped ->
              <<Chars(<<"l">>), Chars(<<"$", "k", " ", " ">>)>>
         [] OTHER -> <<Chars(line)>>]
MCCommands == {<<"l">>}
MCCharOfCode(n) == IF n = 32 THEN " " ELSE "?"
\* With a mistake that is taken back, and with a key too many.
MCTyped ==
    {[keys |-> line, line |-> line] :
       line \in {SetTo("k", "w"), Mixed, Escaped, EXIT, <<"q">>, Long}}
    \cup {[keys |-> <<"bs">> \o SET \o <<" ", "k", "bs", "m", " ", "z">>,
           line |-> SetTo("m", "z")]}

Str(ch) == JStr(<<ch>>)
Line(x) == JStr(L \o <<x>>)
List(es) == JArr([i \in DOMAIN es |-> Elem(<<>>, es[i])])
Option(n, rest) == JObj(<<Elem(NAME, Str(n))>> \o rest)
Menu(os, rest) == JObj(<<Elem(OPTIONS, List(os))>> \o rest)
Running(s) == <<Elem(SCRIPT, s)>>
Submenu ==
    Menu(<<Option("c", Running(Line("3"))), Option("e", <<>>)>>,
         <<Elem(TITLE, Str("q"))>>)
DeepMenu ==
    Menu(<<Option("g", <<Elem(SUBMENU, Submenu)>>),
           Option("h", Running(List(<<JStr(SetTo("k", "w")), JStr(UseK)>>)))>>,
         <<Elem(DEFAULT, JNum(1))>>)
MainMenu(d, sub) ==
    Menu(<<Option("a", Running(List(<<Line("1"), Line("2")>>))),
           Option("b", Running(Line("4")) \o <<Elem(SUBMENU, sub)>>),
           Option("i", Running(JStr(UseK)))>>,
         <<Elem(TIMEOUT, JNum(12)), Elem(DEFAULT, JNum(d))>>)
AllSettings ==
    <<Elem(PASSWORD, Str("k")), Elem(TIMEZONE, JNum(-9)),
      Elem(UTC, JBool(0)), Elem(START, List(<<JStr(SetTo("k", "v"))>>))>>
With(m) == JObj(Append(AllSettings, Elem(MENU, m)))
SoundConfigs ==
    {JObj(AllSettings), With(MainMenu(0, Submenu)),
     With(MainMenu(2, DeepMenu)),
     JObj(<<Elem(MENU, MainMenu(1, DeepMenu)), Elem(TIMEZONE, Str("r"))>>)}
\* A default that is not an option, values of the wrong type, empty lists.
OddConfigs ==
    {With(MainMenu(d, Submenu)) : d \in {3, -1, 7}} \cup
    {With(MainMenu(0, Str("j"))), With(Menu(<<JNum(4)>>, <<>>)),
     With(Menu(<<Option("a", Running(JNull))>>, <<>>)),
     With(Menu(<<Option("a", Running(List(<<Line("5"), JNum(1)>>)))>>, <<>>)),
     With(Menu(<<>>, <<>>)), With(Str("a")), JObj(<<Elem(START, JNum(1))>>),
     JObj(<<Elem(PASSWORD, JNull)>>), JObj(<<>>),
     List(<<JNum(1), JNum(23)>>), JNum(4), Str("\\")}
MCConfigs ==
    [value : SoundConfigs, style : {"lines", "compact"}, sound : {TRUE}] \cup
    [value : OddConfigs, style : {"lines", "compact"}, sound : {FALSE}]

----------------------------------------------------------------------------

\* What a behaviour is not about begins in one way.
Still ==
    /\ scene # "files" => vol.block = 2048
    /\ scene # "kernelfat" => ~kvol.signature
    /\ scene # "modules" => smap[2].size = 8
    /\ scene # "menu" =>
         config.value.type = "num" /\ config.style = "lines" /\ zeroed

MCInit ==
    /\ scene \in {"printf", "files", "kernelfat", "modules", "paths", "menu"}
    /\ PfInit /\ FiInit /\ KfInit /\ MdInit /\ PaInit /\ CfInit
    /\ Still

MCNext ==
    \/ /\ scene = "printf" /\ PfNext
       /\ UNCHANGED <<scene, fivars, kfvars, bootvars, mdvars, pavars, cfvars>>
    \/ /\ scene = "files" /\ FiNext
       /\ UNCHANGED <<scene, pfvars, kfvars, bootvars, mdvars, pavars, cfvars>>
    \/ /\ scene = "kernelfat" /\ KfNext
       /\ UNCHANGED <<scene, pfvars, fivars, bootvars, mdvars, pavars, cfvars>>
    \/ /\ scene = "modules" /\ MdNext
       /\ UNCHANGED <<scene, pfvars, fivars, kfvars, pavars, cfvars>>
    \/ /\ scene = "paths" /\ PaNext
       /\ UNCHANGED <<scene, pfvars, fivars, kfvars, bootvars, mdvars, cfvars>>
    \/ /\ scene = "menu" /\ CfNext
       /\ UNCHANGED <<scene, pfvars, fivars, kfvars, bootvars, mdvars, pavars>>

MCSpec == MCInit /\ [][MCNext]_sysvars
=============================================================================
