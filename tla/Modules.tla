------------------------------ MODULE Modules -------------------------------
(***************************************************************************)
(* The boot loader's modules and the kernel it starts: elf.c reads a file, *)
(* module.c gives a module its pages, relocates it, runs its constructors  *)
(* and its entry point, and the command bootemos loads the kernel and      *)
(* writes the table it is started with.  The pages are those of            *)
(* BootMemory, and what they hold is kept by frame.                        *)
(*                                                                         *)
(* s is threaded through the functions: the memory m of BootMemory, the    *)
(* next page number, the frames' words, the shell's commands, the open     *)
(* files and the status.                                                   *)
(***************************************************************************)
EXTENDS BootMemory, SequencesExt

CONSTANTS
    ModuleFiles,   \* see ElfOpens and module_load for the fields
    Kernels,
    PageWords,     \* words in a page
    Exported,      \* symbols of the loader: name -> address
    Modulus,       \* words are numbers below it
    MaxLoads       \* bound: calls of module_load

VARIABLES
    mods,      \* mod_list: [file, base, pages]
    ram,       \* frames -> words
    cmds,      \* command_list: [cmd, at]; the first one is the loader's own
    elfs,      \* ELF files that are open
    lost,      \* of these, the ones nobody knows any more
    loads,
    handoff    \* what the kernel is started with

mdvars == <<mods, ram, cmds, elfs, lost, loads, handoff>>

PageOf(a) == a \div PageWords
PagesFor(n) == (n + PageWords - 1) \div PageWords

Frame(s, a) == s.m.tab[PageOf(a)].pfn
Peek(s, a) == s.ram[Frame(s, a)][a % PageWords]
Poke(s, a, w) == [s EXCEPT !.ram[Frame(s, a)][a % PageWords] = w % Modulus]
\* memcpy and memset
Store(s, at, words) ==
    FoldLeft(LAMBDA t, i : Poke(t, at + i - 1, words[i]), s,
             [i \in DOMAIN words |-> i])

Failed(s, st) == [s EXCEPT !.st = st]
\* The next step of several that give up at the first failure.
IfOk(s, F(_)) == IF s.st = "ok" THEN F(s) ELSE s

----------------------------------------------------------------------------
(* elf.c *)

\* The file is closed again when it is not one the loader can read.
ElfOpens(f) == f.ident /\ {".strtab", ".symtab"} \subseteq f.sections
elf_open(s, f) ==
    IF ElfOpens(f) THEN [s EXCEPT !.st = "ok", !.elfs = @ + 1]
    ELSE Failed(s, "format")
elf_close(s) == [s EXCEPT !.elfs = @ - 1]

\* at is where the segment goes.  The rest of it is cleared, but where the
\* file says it is, and not where it went.
elf_load_program(s, p, at) ==
    LET filesz == Len(p.words)
        Copy(a) ==
          IF ~a.ok THEN [s EXCEPT !.m = a.m, !.st = "memory"]
          ELSE Store(Store([s EXCEPT !.m = a.m], at, p.words),
                     p.vaddr + filesz, [i \in 1..(p.memsz - filesz) |-> 0])
    IN  Copy(mm_allocate_pages_to(s.m, PageOf(at),
                                  PagesFor((at % PageWords) + p.memsz)))

elf_find_symbol(f, name) == name \in DOMAIN f.syms
elf_find_section(f, name) == name \in f.sections

----------------------------------------------------------------------------
(* module.c *)

Loaded(f) == SelectSeq(f.phdrs, LAMBDA p : p.type \in {"LOAD", "DYNAMIC"})
ProgramSize(f) ==
    Max({0} \cup {Loaded(f)[i].vaddr + Loaded(f)[i].memsz :
                    i \in DOMAIN Loaded(f)})

\* A symbol of the module, or of the loader.
Resolves(sym) == sym.defined \/ sym.name \in DOMAIN Exported
resolve_symbol_addr(sym, base) ==
    IF sym.defined THEN base + sym.value ELSE Exported[sym.name]

\* What one relocation does.  For R_386_32 no symbol is looked up: sym and S
\* are those of the relocation before.
apply(s, rel, sym, S, base, got) ==
    LET P == base + rel.offset
        A == Peek(s, P)
    IN  CASE rel.type = "32" ->
               Poke(s, P, IF sym.defined THEN S + A ELSE base + A)
          [] rel.type = "PC32" /\ ~sym.defined -> Poke(s, P, S + A - P)
          [] rel.type = "GOT32" -> Poke(s, A + got, S)
          [] rel.type \in {"GLOB_DAT", "JMP_SLOT"} -> Poke(s, P, S)
          [] rel.type = "RELATIVE" -> Poke(s, P, base + A)
          [] rel.type = "GOTOFF" /\ ~sym.defined -> Poke(s, P, S + A - got)
          [] rel.type = "GOTPC" /\ ~sym.defined -> Poke(s, P, got + A - P)
          [] rel.type = "COPY" -> Failed(s, "panic")
          [] OTHER -> s

\* junk is what sym and S hold before the first symbol is looked up.
relocate_section(s, f, rels, base, junk) ==
    LET got == base + f.syms["GOT"].value
        Step(p, rel, looks) ==
          LET sym == IF looks THEN f.syms[rel.sym] ELSE p.sym
              S == IF looks THEN resolve_symbol_addr(sym, base) ELSE p.S
          IN  CASE p.s.st # "ok" -> p
                [] p.s.st = "ok" /\ looks /\ ~Resolves(f.syms[rel.sym]) ->
                     [p EXCEPT !.s.st = "symbol"]
                [] OTHER -> [s |-> apply(p.s, rel, sym, S, base, got),
                             sym |-> sym, S |-> S]
    IN  FoldLeft(LAMBDA p, rel :
                   Step(p, rel, rel.type \notin {"RELATIVE", "32"}),
                 [s |-> s, sym |-> junk, S |-> junk.value], rels).s

\* shell_command_register and shell_command_unregister
register(s, c) == [s EXCEPT !.cmds = Append(@, c)]
unregister(s, c) ==
    LET at == {i \in 2..Len(s.cmds) : s.cmds[i] = c}
    IN  IF at = {} THEN s
        ELSE [s EXCEPT !.cmds = SubSeq(@, 1, Max(at) - 1)
                                \o SubSeq(@, Max(at) + 1, Len(@))]

\* The constructor and the destructor of a module with a command.
Command(f, base) == [cmd |-> f.name, at |-> base]
run_init_array(s, f, base) ==
    IF ~elf_find_section(f, ".init_array") THEN Failed(s, "not found")
    ELSE IF f.command THEN register(s, Command(f, base)) ELSE s
run_fini_array(s, f, base) ==
    IF elf_find_section(f, ".fini_array") /\ f.command
    THEN unregister(s, Command(f, base)) ELSE s

\* Any key that "name" begins with is taken for it.
NoteName(f) ==
    LET name == <<"n", "a", "m", "e">>
        hit == {i \in DOMAIN f.note : Len(f.note[i].key) <= 4
                  /\ f.note[i].key = SubSeq(name, 1, Len(f.note[i].key))}
    IN  IF hit = {} \/ f.note[Min(hit)].type # 1 THEN "" ELSE f.name

load_segments(s, f, base) ==
    FoldLeft(LAMBDA t, p :
               IfOk(t, LAMBDA u : elf_load_program(u, p, base + p.vaddr)),
             s, Loaded(f))

relocate(s, f, base, junk) ==
    FoldLeft(LAMBDA t, rels :
               IfOk(t, LAMBDA u : relocate_section(u, f, rels, base, junk)),
             s, f.rels)

\* From the segments to the name; then the constructors and the entry point.
prepare(s, f, base, junk) ==
    LET Named(r) ==
          IF elf_find_section(f, ".note.eboot") /\ NoteName(f) # "" THEN r
          ELSE Failed(r, "note")
    IN  IfOk(load_segments(s, f, base), LAMBDA l :
          IF ~elf_find_symbol(f, "GOT") THEN Failed(l, "not found")
          ELSE IfOk(relocate(l, f, base, junk), Named))

\* Mutant: the destructors are left out when the entry point fails.
no_destructors(s, f, vpn, n, started) ==
    elf_close([s EXCEPT !.m = unmap_pages(s.m, vpn, n)])

\* has_error of module_load, once the file is open and the pages are there
undo_load(s, f, vpn, n, started) ==
    LET t == IF started THEN run_fini_array(s, f, vpn * PageWords) ELSE s
    IN  elf_close([t EXCEPT !.m = unmap_pages(t.m, vpn, n)])

module_load(s, f, junk) ==
    LET n == PagesFor(ProgramSize(f))
        vpn == s.alloc
        base == vpn * PageWords
        Start(c) ==
          IF c.st # "ok" THEN undo_load(c, f, vpn, n, FALSE)
          ELSE IF f.entry = "fails"
          THEN undo_load(Failed(c, "entry"), f, vpn, n, TRUE) ELSE c
        Construct(p) ==
          CASE p.st = "panic" -> p
            [] p.st = "ok" -> Start(run_init_array(p, f, base))
            [] OTHER -> undo_load(p, f, vpn, n, FALSE)
        Fill(t, ok) ==   \* without pages the file stays open
          IF ~ok THEN [t EXCEPT !.st = "memory", !.lost = @ + 1]
          ELSE Construct(prepare(t, f, base, junk))
        Allocated(o, a) ==
          Fill([o EXCEPT !.m = a.m, !.alloc = alloc_virt_page(n)], a.ok)
    IN  IfOk(elf_open(s, f), LAMBDA o :
          IF f.type # "DYN" THEN Failed(elf_close(o), "type")
          ELSE Allocated(o, mm_allocate_pages_to(o.m, vpn, n)))

module_unload(s, i) ==
    LET m == mods[i]
        t == run_fini_array(s, m.file, m.base * PageWords)
    IN  elf_close([t EXCEPT !.m = unmap_pages(t.m, m.base, m.pages)])

----------------------------------------------------------------------------
(* The command bootemos *)

\* Where the kernel begins and how long it is, from every program header.
Extent(k) ==
    LET x[i \in 0..Len(k.phdrs)] ==
          IF i = 0 THEN [load |-> 0, size |-> 0]
          ELSE LET p == k.phdrs[i]
                   load == IF x[i-1].load = 0 \/ x[i-1].load > p.vaddr
                           THEN p.vaddr ELSE x[i-1].load
               IN  [load |-> load,
                    size |-> IF load + x[i-1].size < p.vaddr + p.memsz
                             THEN p.vaddr + p.memsz - load ELSE x[i-1].size]
    IN  x[Len(k.phdrs)]

load_kernel(s, k, x) ==
    LET Begin(a) == [s EXCEPT !.m = a.m, !.st = IF a.ok THEN "ok" ELSE "memory"]
    IN  FoldLeft(LAMBDA t, p :
                   IfOk(t, LAMBDA u : elf_load_program(u, p, p.vaddr)),
                 Begin(mm_allocate_pages_to(s.m, PageOf(x.load),
                                            PagesFor(x.size))),
                 SelectSeq(k.phdrs, LAMBDA p : p.type = "LOAD"))

count_smap_entry == Len(smap)
UsedTables(s) == {d \in DOMAIN s.m.dir : s.m.dir[d] # 0}
count_pagetable_frame(s) == 1 + Cardinality(UsedTables(s))
\* The page directory is in the loader's image.
fill_pagetable_frame_entries(s) ==
    {BootLow} \cup {s.m.dir[d] : d \in UsedTables(s)}

\* Mutant: a last page that is not full is not counted.
full_pages(x) == x.size \div PageWords

kernel_frame_count(x) == PagesFor(x.size)
KernelPages(x) == {PageOf(x.load + i * PageWords) :
                     i \in 0..(kernel_frame_count(x) - 1)}
fill_kernel_frame_entries(s, x) == {s.m.tab[v].pfn : v \in KernelPages(x)}

Align16(n) == 16 * ((n + 15) \div 16)
EntrySizeOf(body) == Align16(12) + Align16(body)
Total(ns) == LET t[i \in 0..Len(ns)] == IF i = 0 THEN 0 ELSE t[i-1] + ns[i]
             IN  t[Len(ns)]

\* The first pass: the size of the header with its strings, and of the table.
StringBytes(args) == Total([i \in DOMAIN args |-> args[i] + 1]) + 7 + 7 + 9
HeaderSize(args) == Align16(16 + StringBytes(args))
TableSize(args, ranges, frames) ==
    HeaderSize(args)
    + EntrySizeOf(4 + 4 * Len(args)) + EntrySizeOf(16)
    + EntrySizeOf(4 + 24 * ranges) + EntrySizeOf(24) + EntrySizeOf(30)
    + EntrySizeOf(4 + 8 * frames) + EntrySizeOf(8)

\* The second pass: each entry is put at the end of the one before.
TableEntries(args, ranges, frames) ==
    LET bodies == <<[type |-> "COMMAND_ARGS", body |-> 4 + 4 * Len(args)],
                    [type |-> "LOADER_INFO", body |-> 16],
                    [type |-> "MEMORY_MAP", body |-> 4 + 24 * ranges],
                    [type |-> "ACPI_RSDP", body |-> 24],
                    [type |-> "FRAMEBUFFER", body |-> 30],
                    [type |-> "UNAVAILABLE_FRAMES", body |-> 4 + 8 * frames],
                    [type |-> "PAGETABLE_VPN", body |-> 8]>>
        size[i \in 1..7] == EntrySizeOf(bodies[i].body)
        at[i \in 1..7] == IF i = 1 THEN HeaderSize(args)
                          ELSE at[i-1] + size[i-1]
    IN  [i \in 1..7 |-> [type |-> bodies[i].type, at |-> at[i],
                         end |-> at[i] + Align16(12) + bodies[i].body]]

NoHandoff == [kernel |-> <<>>, args |-> <<>>, frames |-> {}, size |-> 0,
              entries |-> <<>>]
\* fault says which of the services the command needs fails.  The file and
\* the kernel's pages are not given back then.
bootemos_handler(s, k, args, fault) ==
    LET Leave(t, st) == [s |-> [t EXCEPT !.st = st, !.lost = @ + 1],
                         handoff |-> NoHandoff]
        Table(frames, count) ==
          [kernel |-> k, args |-> args, frames |-> frames,
           size |-> TableSize(args, count_smap_entry, count),
           entries |-> TableEntries(args, count_smap_entry, count)]
        Handoff(l, x) ==
          CASE l.st # "ok" -> Leave(l, l.st)
            [] l.st = "ok" /\ fault # "none" -> Leave(l, fault)
            [] OTHER ->
                 [s |-> l,
                  handoff |-> Table(fill_pagetable_frame_entries(l)
                                      \cup fill_kernel_frame_entries(l, x),
                                    count_pagetable_frame(l)
                                      + kernel_frame_count(x))]
        Load(o, x) == Handoff(load_kernel(o, k, x), x)
        Opened(o) ==
          CASE o.st # "ok" -> [s |-> o, handoff |-> NoHandoff]
            [] o.st = "ok" /\ k.type # "EXEC" -> Leave(o, "type")
            [] OTHER -> Load(o, Extent(k))
    IN  Opened(elf_open(s, k))

----------------------------------------------------------------------------

Loader == [m |-> BM, alloc |-> alloc_vpn, ram |-> ram, cmds |-> cmds,
           elfs |-> elfs, lost |-> lost, st |-> "ok"]
SetLoader(s) ==
    /\ SetBM(s.m) /\ alloc_vpn' = s.alloc
    /\ ram' = s.ram /\ cmds' = s.cmds /\ elfs' = s.elfs /\ lost' = s.lost
    /\ UNCHANGED <<smap, pma_available, held>>

MdInit ==
    /\ BootInit
    /\ mods = <<>> /\ cmds = <<[cmd |-> "set", at |-> 0]>>
    /\ ram = [f \in 0..(LimitPfn) |-> [o \in 0..(PageWords - 1) |-> 0]]
    /\ elfs = 0 /\ lost = 0 /\ loads = 0
    /\ handoff = NoHandoff

\* The loader sets up its memory first.
Prepare == (init_pma \/ init_page_directory) /\ UNCHANGED mdvars

LoadModule(f, junk) ==
    /\ stage = "paging" /\ loads < MaxLoads
    /\ \E s \in {module_load(Loader, f, junk)} :
         /\ SetLoader(s)
         /\ mods' = IF s.st # "ok" THEN mods
                    ELSE Append(mods, [file |-> f, base |-> alloc_vpn,
                                       pages |-> PagesFor(ProgramSize(f))])
         /\ stage' = IF s.st = "panic" THEN "failed" ELSE stage
    /\ loads' = loads + 1
    /\ UNCHANGED handoff

\* The head of the list has no predecessor, and is not unloaded.
UnloadModule(i) ==
    /\ stage = "paging" /\ i > 1
    /\ \E s \in {module_unload(Loader, i)} : SetLoader(s)
    /\ mods' = SubSeq(mods, 1, i - 1) \o SubSeq(mods, i + 1, Len(mods))
    /\ UNCHANGED <<stage, loads, handoff>>

Bootemos(k, args, fault) ==
    /\ stage = "paging" /\ loads < MaxLoads
    /\ \E r \in {bootemos_handler(Loader, k, args, fault)} :
         /\ SetLoader(r.s)
         /\ handoff' = r.handoff
         /\ stage' = IF r.handoff.size = 0 THEN stage ELSE "kernel"
    /\ loads' = loads + 1
    /\ UNCHANGED mods

\* What uninitialised locals hold: an undefined or a defined symbol.
Junk == {[name |-> "", defined |-> d, value |-> 7] : d \in BOOLEAN}

MdNext ==
    \/ Prepare
    \/ \E f \in ModuleFiles, junk \in Junk : LoadModule(f, junk)
    \/ \E i \in DOMAIN mods : UnloadModule(i)
    \/ \E k \in Kernels, args \in {<<>>, <<5>>, <<1, 12>>},
          fault \in {"none", "video"} : Bootemos(k, args, fault)

----------------------------------------------------------------------------

Word(a) == ram[page_tab[PageOf(a)].pfn][a % PageWords]
\* The words of the file, at their place in the program.
Image(f) ==
    UNION {{<<f.phdrs[i].vaddr + j - 1, f.phdrs[i].words[j]>> :
              j \in DOMAIN f.phdrs[i].words} : i \in DOMAIN f.phdrs}
Rels(f) == UNION {{f.rels[i][j] : j \in DOMAIN f.rels[i]} :
                    i \in DOMAIN f.rels}
\* What the i386 ABI says a word of the program has to be.
Abi(f, base, w) ==
    LET rels == {r \in Rels(f) : r.offset = w[1]}
        r == CHOOSE x \in rels : TRUE
        S == resolve_symbol_addr(f.syms[r.sym], base)
        P == base + w[1]
        GOT == base + f.syms["GOT"].value
    IN  IF rels = {} THEN w[2]
        ELSE CASE r.type = "RELATIVE" -> (base + w[2]) % Modulus
               [] r.type \in {"GLOB_DAT", "JMP_SLOT"} -> S
               [] r.type = "PC32" /\ ~f.syms[r.sym].defined ->
                    (S + w[2] - P) % Modulus
               [] r.type = "GOTOFF" /\ ~f.syms[r.sym].defined ->
                    (S + w[2] - GOT) % Modulus
               \* resolved by the linker
               [] OTHER -> w[2]
\* The words that R_386_32 and R_386_GOT32 write are not looked at.
Checked(f) == {w \in Image(f) :
                 ~\E r \in Rels(f) :
                    \/ r.type = "32" /\ r.offset = w[1]
                    \/ r.type = "GOT32" /\ f.syms["GOT"].value <= w[1]}

(* A module that is listed stays as it was loaded, whatever is loaded,      *)
(* refused or unloaded after it: its pages are there, its words are those   *)
(* of the file relocated to its place, and its command is registered.  And  *)
(* nothing is left of the others: no command of a module that was refused,  *)
(* or whose entry point failed, can still be called, and no page or file of *)
(* it is kept, except when there was no memory for it.                      *)
LoadedIntact ==
    /\ \A i \in DOMAIN mods :
         LET f == mods[i].file
             base == mods[i].base * PageWords
         IN  /\ \A v \in mods[i].base..(mods[i].base + mods[i].pages - 1) :
                   page_tab[v].pfn # 0
             /\ \A w \in Checked(f) : Word(base + w[1]) = Abi(f, base, w)
             /\ f.command => \E j \in DOMAIN cmds : cmds[j] = Command(f, base)
    /\ \A j \in 2..Len(cmds) : \E i \in DOMAIN mods :
         cmds[j] = Command(mods[i].file, mods[i].base * PageWords)
    /\ stage = "paging" =>
         /\ elfs = Len(mods) + lost
         /\ lost = 0 => \A v \in BootTable..(BootTable * BootTables - 1) :
              page_tab[v].pfn # 0 => \E i \in DOMAIN mods :
                v \in mods[i].base..(mods[i].base + mods[i].pages - 1)

\* Program headers the handler can measure: the first one is the lowest and
\* begins a page, and none has address 0.
Measured(k) ==
    /\ k.phdrs[1].vaddr % PageWords = 0
    /\ \A i \in DOMAIN k.phdrs : k.phdrs[i].vaddr >= k.phdrs[1].vaddr

(* The kernel is started with all it has to know: every frame that holds a  *)
(* word of it, and every page table, page tables made while it was loaded   *)
(* included, is listed as unavailable; the words are those of its file, the *)
(* rest of a segment is clear; and the entries of the table follow one      *)
(* another and end where the size that was computed before ends.            *)
HandoffComplete ==
    stage = "kernel" =>
    LET k == handoff.kernel
        es == handoff.entries
        seg == {k.phdrs[i] : i \in {j \in DOMAIN k.phdrs :
                                       k.phdrs[j].type = "LOAD"}}
        addrs == UNION {p.vaddr..(p.vaddr + p.memsz - 1) : p \in seg}
    IN  /\ \A d \in DOMAIN page_dir :
             page_dir[d] # 0 => page_dir[d] \in handoff.frames
        /\ Measured(k) => \A a \in addrs :
             page_tab[PageOf(a)].pfn \in handoff.frames
        /\ \A p \in seg : \A o \in 0..(p.memsz - 1) :
             Word(p.vaddr + o) = IF o < Len(p.words) THEN p.words[o + 1] ELSE 0
        /\ \A i \in 1..(Len(es) - 1) :
             es[i].end <= es[i+1].at /\ es[i+1].at < es[i].end + 16
        /\ es[Len(es)].end <= handoff.size
        /\ handoff.size < es[Len(es)].end + 16
=============================================================================
