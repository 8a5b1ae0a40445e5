-------------------------------- MODULE Path --------------------------------
(***************************************************************************)
(* The path functions of the boot loader, and the command cd that keeps a  *)
(* directory and its path together with them.  A path is a sequence of     *)
(* characters: "fs:" may come first, "/" separates the elements.  What     *)
(* has been written to the buffer is a sequence too; end is the index      *)
(* dest_end of its last byte.                                              *)
(***************************************************************************)
EXTENDS Integers, Sequences, SequencesExt

CONSTANTS
    PathTexts,   \* paths that are normalised and joined
    BufferSizes,
    Cwd,         \* the elements of the directory a relative path starts in
    FsNames, Dirs,   \* file systems, and the directories they all have
    CdTexts,     \* arguments of cd
    PathMax

VARIABLES
    asked,       \* [op, src, dest, len]
    written,     \* [text, ended]
    inst,        \* the shell: [fs, dir, open, path]; dir is the directory
                 \* working_dir is a handle of
    handles      \* directories that are open

pavars == <<asked, written, inst, handles>>

\* strchr: the index of the first c from i on, 0 if there is none
IndexFrom(p, c, i) ==
    LET at == {j \in i..Len(p) : p[j] = c}
    IN  IF at = {} THEN 0 ELSE CHOOSE j \in at : \A k \in at : j <= k
Colon(p) == IndexFrom(p, ":", 1)

\* element is the name of the file system, next the index of what follows
path_iter_init(p) ==
    IF Colon(p) = 0 THEN [element |-> <<>>, sep |-> FALSE, next |-> 1]
    ELSE [element |-> SubSeq(p, 1, Colon(p) - 1), sep |-> FALSE,
          next |-> Colon(p) + 1]

path_iter_next(p, it) ==
    LET sep == it.next <= Len(p) /\ p[it.next] = "/"
        from == IF sep THEN it.next + 1 ELSE it.next
        slash == IndexFrom(p, "/", from)
        to == IF slash = 0 THEN Len(p) + 1 ELSE slash
    IN  IF from > Len(p)
        THEN [element |-> <<>>, sep |-> sep, next |-> from, last |-> TRUE]
        ELSE [element |-> SubSeq(p, from, to - 1), sep |-> sep, next |-> to,
              last |-> to > Len(p)]

\* A full buffer has no room for the terminator.
path_join(dest, len, src) ==
    LET all == dest \o <<"/">> \o src
    IN  [text |-> IF Len(all) > len THEN SubSeq(all, 1, len) ELSE all,
         ended |-> Len(all) < len]

Push(w, end, c) == IF Len(w) < end THEN Append(w, c) ELSE w
PushTwo(w, end) == IF Len(w) + 2 < end THEN w \o <<".", ".">> ELSE w

\* Back over a last "/", and on to the "/" before it, but not below low.  The
\* indices of C begin at 0.
LastSep(w, low) ==
    LET from == IF w[Len(w)] = "/" THEN Len(w) - 2 ELSE Len(w) - 1
        at == {i \in (low + 1)..from : w[i + 1] = "/"}
    IN  IF at # {} THEN CHOOSE i \in at : \A k \in at : k <= i
        ELSE IF from <= low THEN from ELSE low

\* Mutant: the first letters of the last element stay.
drop_last_letter(w, end, fs) ==
    IF Len(w) = 0 THEN w ELSE SubSeq(w, 1, Len(w) - 1)

\* ".." after an absolute path
up_absolute(w, end, fs) ==
    LET sep == LastSep(w, 0)
        colon == Colon(w) - 1
    IN  CASE Len(w) = 0 -> w
          [] Len(w) > 0 /\ fs /\ sep <= colon + 1 ->
               Push(SubSeq(w, 1, colon + 1), end, "/")
          [] Len(w) > 0 /\ ~fs /\ sep <= 0 -> Push(<<>>, end, "/")
          [] OTHER -> SubSeq(w, 1, sep + 1)

\* ".." after "fs:", without a "/"
up_in_fs(w, end) ==
    LET colon == Colon(w) - 1
        sep == LastSep(w, colon + 1)
    IN  IF Len(w) > colon + 1
        THEN SubSeq(w, 1, IF sep <= colon + 1 THEN colon + 1 ELSE sep + 1)
        ELSE PushTwo(w, end)

\* An element that does not fit is left out.
add_element(w, end, e) ==
    LET v == IF Len(w) > 0 /\ w[Len(w)] # "/" THEN Push(w, end, "/") ELSE w
    IN  IF Len(v) + Len(e) < end THEN v \o e ELSE v

one_element(w, end, fs, absolute, e) ==
    CASE e \in {<<>>, <<".">>} -> w
      [] e = <<".", ".">> /\ absolute -> up_absolute(w, end, fs)
      [] e = <<".", ".">> /\ ~absolute /\ fs -> up_in_fs(w, end)
      [] e = <<".", ".">> /\ ~absolute /\ ~fs ->
           PushTwo(IF Len(w) > 0 THEN Push(w, end, "/") ELSE w, end)
      [] OTHER -> add_element(w, end, e)

\* The elements, until path_iter_next says it was the last one, and whether
\* a "/" comes before the first.
iterate(src) ==
    LET Take(p, it, i) ==
          [it |-> it, es |-> Append(p.es, it.element), done |-> it.last,
           absolute |-> IF i = 1 THEN it.sep ELSE p.absolute]
    IN  FoldLeft(LAMBDA p, i : IF p.done THEN p
                               ELSE Take(p, path_iter_next(src, p.it), i),
                 [it |-> path_iter_init(src), es |-> <<>>,
                  absolute |-> FALSE, done |-> FALSE],
                 \* there are no more elements
                 [i \in 1..(Len(src) + 1) |-> i])

elements(x, w, end, fs) ==
    FoldLeft(LAMBDA v, e : one_element(v, end, fs, x.absolute, e),
             IF x.absolute THEN Push(w, end, "/") ELSE w, x.es)

path_normalize(src, len) ==
    LET end == len - 1
        Trimmed(x, fs) ==
          IF /\ Len(x) > 1 /\ x[Len(x)] = "/"
             /\ fs => Len(x) > Colon(x) + 1
          THEN SubSeq(x, 1, Len(x) - 1) ELSE x
        OrDot(w, fs) == IF ~fs /\ w = <<>> /\ end > 0 THEN <<".">> ELSE w
        In(name, fs) ==
          IF fs /\ Len(name) + 1 >= end THEN <<>>
          ELSE Trimmed(OrDot(elements(iterate(src),
                                      IF fs THEN name \o <<":">> ELSE <<>>,
                                      end, fs), fs), fs)
        Named(name) == In(name, name # <<>>)
    IN  Named(path_iter_init(src).element)

path_is_absolute(p) ==
    \/ Len(p) > 0 /\ p[1] = "/"
    \/ Colon(p) # 0 /\ (Colon(p) = Len(p) \/ p[Colon(p) + 1] = "/")

----------------------------------------------------------------------------
(* cd *)

NoShell == [fs |-> <<>>, dir |-> <<>>, open |-> FALSE, path |-> <<>>]

\* open_directory of a file system; bad is an element that cannot be read
open_dir(dir, e, bad) ==
    LET d == IF e = <<".", ".">> THEN SubSeq(dir, 1, Len(dir) - 1)
             ELSE Append(dir, e)
    IN  [ok |-> e # bad /\ (e = <<".", ".">> => dir # <<>>) /\ d \in Dirs,
         dir |-> d]

\* The directories along the path are opened one after the other, each one
\* closes the one before; own says whether the first one may be closed.
walk(dir, es, bad, own) ==
    LET named == SelectSeq(es, LAMBDA e : e \notin {<<>>, <<".">>})
        Step(p, o) == [dir |-> o.dir, ok |-> o.ok, own |-> TRUE,
                       handles |-> p.handles + (IF o.ok THEN 1 ELSE 0)
                                   - (IF p.own THEN 1 ELSE 0)]
    IN  FoldLeft(LAMBDA p, e : IF ~p.ok THEN p
                               ELSE Step(p, open_dir(p.dir, e, bad)),
                 [dir |-> dir, ok |-> TRUE, handles |-> 0, own |-> own], named)

chdir_absolute(s, arg, bad) ==
    LET name == path_iter_init(arg).element
        Change(fs, w) ==
          CASE fs \notin FsNames -> [s |-> s, opened |-> 0]
            [] fs \in FsNames /\ ~w.ok -> [s |-> s, opened |-> 1 + w.handles]
            [] OTHER ->
                 [s |-> [fs |-> fs, dir |-> w.dir, open |-> TRUE,
                         path |-> path_normalize(
                           IF Colon(arg) = 0 THEN fs \o <<":">> \o arg
                           ELSE arg, PathMax)],
                  opened |-> 1 + w.handles - (IF s.open THEN 1 ELSE 0)]
    IN  Change(IF name # <<>> THEN name ELSE s.fs,
               walk(<<>>, iterate(arg).es, bad, TRUE))

\* Without an element to open, the directory that is closed at the end is the
\* one the shell goes on with.
change_from(s, w, full) ==
    CASE s.fs = <<>> -> [s |-> s, opened |-> 0]
      [] s.fs # <<>> /\ ~w.ok -> [s |-> s, opened |-> w.handles]
      [] OTHER -> [s |-> [s EXCEPT !.dir = w.dir, !.open = w.own,
                                   !.path = path_normalize(full, PathMax)],
                   opened |-> w.handles - 1]

\* Mutant: the path is not completed with the directory it starts in.
path_from_root(s, arg, bad) ==
    change_from(s, walk(s.dir, iterate(arg).es, bad, FALSE),
                s.fs \o <<":", "/">> \o arg)

chdir_relative(s, arg, bad) ==
    change_from(s, walk(s.dir, iterate(arg).es, bad, FALSE),
                path_join(s.path, PathMax, arg).text)

chdir_handler(s, arg, bad) ==
    IF path_is_absolute(arg) THEN chdir_absolute(s, arg, bad)
    ELSE chdir_relative(s, arg, bad)

----------------------------------------------------------------------------

PaInit ==
    /\ asked = [op |-> "none", src |-> <<>>, dest |-> <<>>, len |-> 0]
    /\ written = [text |-> <<>>, ended |-> TRUE]
    /\ inst = NoShell /\ handles = 0

Normalize(p, len) ==
    /\ asked.op = "none" /\ inst = NoShell
    /\ asked' = [op |-> "normalize", src |-> p, dest |-> <<>>, len |-> len]
    /\ written' = [text |-> path_normalize(p, len), ended |-> TRUE]
    /\ UNCHANGED <<inst, handles>>

\* What the commands do with a path that is not absolute.
Complete(dir, p, len) ==
    /\ asked.op = "none" /\ inst = NoShell
    /\ ~path_is_absolute(p) /\ Len(dir) < len
    /\ asked' = [op |-> "join", src |-> p, dest |-> dir, len |-> len]
    /\ written' = path_join(dir, len, p)
    /\ UNCHANGED <<inst, handles>>

\* A handle that is closed and used again is undefined: nothing follows.
Cd(arg, bad) ==
    /\ asked.op = "none"
    /\ inst.fs # <<>> => inst.open
    /\ \E r \in {chdir_handler(inst, arg, bad)} :
         inst' = r.s /\ handles' = handles + r.opened
    /\ UNCHANGED <<asked, written>>

CdDirs == {<<"f", ":", "/">>, <<"f", ":", "/", "b">>}
PaNext ==
    \/ \E p \in PathTexts, len \in BufferSizes : Normalize(p, len)
    \/ \E p \in PathTexts, dir \in CdDirs, len \in BufferSizes :
         Complete(dir, p, len)
    \/ \E arg \in CdTexts, bad \in {<<"-">>, <<"a">>} : Cd(arg, bad)

----------------------------------------------------------------------------
(* The place a path means: the elements between slashes, from the root, or *)
(* from the directory Cwd if there is no root; the parent of the root is   *)
(* the root.                                                               *)
Split(p) ==
    LET cut == {0, Len(p) + 1} \cup {i \in DOMAIN p : p[i] = "/"}
        next(i) == CHOOSE j \in cut : j > i /\ ~\E k \in cut : i < k /\ k < j
        s[i \in 0..Len(p)] ==   \* the elements from index i + 1 on
          IF i \notin cut THEN <<>>
          ELSE <<SubSeq(p, i + 1, next(i) - 1)>>
               \o (IF next(i) > Len(p) THEN <<>> ELSE s[next(i)])
    IN  s[0]
Place(p) ==
    LET rest == SubSeq(p, Colon(p) + 1, Len(p))
        es == Split(rest)
        rooted == Colon(p) > 1 \/ (rest # <<>> /\ rest[1] = "/")
        g[i \in 0..Len(es)] ==
          IF i = 0 THEN IF rooted THEN <<>> ELSE Cwd
          ELSE CASE es[i] \in {<<>>, <<".">>} -> g[i-1]
                 [] es[i] = <<".", ".">> ->
                      IF g[i-1] = <<>> THEN <<>>
                      ELSE SubSeq(g[i-1], 1, Len(g[i-1]) - 1)
                 [] OTHER -> Append(g[i-1], es[i])
    IN  <<SubSeq(p, 1, Colon(p)), g[Len(es)]>>

(* Normalising a path changes no place: in a buffer that has room for the   *)
(* path and a "/" the result means what the path means, whatever "." and    *)
(* ".." it has, with a file system or without, and in a smaller one         *)
(* path_normalize still stays inside.  A path joined to a directory means   *)
(* the path seen from there, or does not fit.                               *)
PathsNormal ==
    /\ Len(written.text) <= asked.len
    /\ asked.op = "normalize" =>
         /\ asked.len > 0 => Len(written.text) < asked.len
         /\ asked.len > Len(asked.src) + 3 =>
              Place(written.text) = Place(asked.src)
    /\ asked.op = "join" =>
         /\ written.ended = (Len(asked.dest) + 1 + Len(asked.src) < asked.len)
         /\ written.ended /\ path_is_absolute(asked.dest) =>
              Place(path_normalize(written.text, asked.len + 9))
                = Place(asked.dest \o <<"/">> \o asked.src)

(* The path the shell shows, and completes relative paths with, is the path *)
(* of the directory it has open, after any sequence of cd with absolute and *)
(* relative paths, with "..", a missing directory or an error on the way;   *)
(* and no other directory stays open.  (cd with a relative path of nothing  *)
(* but "." closes the directory itself.)                                    *)
WorkingDirAgrees ==
    /\ inst.fs # <<>> =>
         Place(inst.path) = <<inst.fs \o <<":">>, inst.dir>>
    /\ handles = (IF inst.open THEN 1 ELSE 0)

(***************************************************************************)
(* The two together: the text that the shell shows as its directory, and   *)
(* every text that path_normalize and path_join make, mean the place that  *)
(* was meant (boot/core/path.c:54-222, boot/shell/commands/chdir.c).       *)
(***************************************************************************)
PathsAgree == PathsNormal /\ WorkingDirAgrees
=============================================================================
