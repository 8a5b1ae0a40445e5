------------------------------ MODULE Liballoc ------------------------------
(***************************************************************************)
(* The heap of the kernel (kernel/lib/liballoc/liballoc.c; the boot loader *)
(* has the same file).  The system gives blocks of pages, the majors, that *)
(* are kept in a list; each begins with a header and holds minors, one for *)
(* each pointer that is in use, in the order of their addresses.           *)
(*                                                                         *)
(* A major is the record of its size, the bytes in use and its minors; a   *)
(* minor is the record of where its header starts in the major, its size   *)
(* and the size that was asked for.  prev and next are the positions in    *)
(* the sequences.  A pointer is <<major, start>>; NULL is <<>>.            *)
(***************************************************************************)
EXTENDS Integers, Sequences, FiniteSets, SequencesExt

CONSTANTS
    MajorHdr,    \* sizeof(struct liballoc_major)
    MinorHdr,    \* sizeof(struct liballoc_minor)
    AlignRoom,   \* ALIGNMENT + ALIGN_INFO
    l_pageSize, l_pageCount,
    Sizes,       \* the sizes callers ask for
    MaxMajors    \* bound on the blocks the system has given

VARIABLES
    lib,         \* l_memRoot's list of majors [id, size, usage, minors],
                 \* l_bestBet (an id, 0 for NULL), l_allocated, l_inuse
    nextId,      \* blocks get addresses that were never used before
    fault        \* the NULL of a malloc that failed was written to

heapvars == <<lib, nextId, fault>>

\* What a request takes up in a major.
Need(req) == req + AlignRoom + MinorHdr

FreeIn(maj) == maj.size - maj.usage

IndexOf(h, id) == CHOOSE i \in DOMAIN h.majors : h.majors[i].id = id

Pointers(h) == UNION {{<<maj.id, mn.start>> : mn \in Range(maj.minors)} :
                        maj \in Range(h.majors)}

----------------------------------------------------------------------------

\* Room for a minor behind the k-th one, or in front of all of them.
GapStart(maj, k) ==
    IF k = 0 THEN MajorHdr
    ELSE maj.minors[k].start + MinorHdr + maj.minors[k].size

\* Mutant: the size of the minor in front is not taken off.
gap_forgets_size(maj, k) ==
    (IF k = Len(maj.minors) THEN maj.size ELSE maj.minors[k + 1].start)
      - (IF k = 0 THEN MajorHdr ELSE maj.minors[k].start + MinorHdr)

Gap(maj, k) ==
    (IF k = Len(maj.minors) THEN maj.size ELSE maj.minors[k + 1].start)
      - GapStart(maj, k)

\* Cases 2 to 4: the first gap that is large enough.
Fits(maj, req) == {k \in 0..Len(maj.minors) : Gap(maj, k) >= Need(req)}

First(S) == CHOOSE k \in S : \A j \in S : k <= j

Squeeze(maj, k, req) ==
    [maj EXCEPT
       !.usage = @ + Need(req),
       !.minors = InsertAt(@, k + 1,
          [start |-> GapStart(maj, k), size |-> req + AlignRoom,
           req |-> req])]

\* Pages for a block that holds the request, l_pageCount at least.
allocate_new_page(req) ==
    LET st == (req + AlignRoom + MajorHdr + MinorHdr + l_pageSize - 1)
                 \div l_pageSize
        pages == IF st < l_pageCount THEN l_pageCount ELSE st
    IN  [id |-> nextId, size |-> pages * l_pageSize, usage |-> MajorHdr,
         minors |-> <<>>]

BestSize(h) ==
    IF h.bestBet = 0 THEN 0 ELSE FreeIn(h.majors[IndexOf(h, h.bestBet)])

\* Mutant: the blocks before the best bet are not visited.
no_restart(h, req) ==
    LET all == [i \in 1..Len(h.majors) |-> i]
    IN  IF BestSize(h) > Need(req)
          THEN SubSeq(all, IndexOf(h, h.bestBet), Len(all))
          ELSE all

\* The majors the search visits: if the best bet has more than enough room it
\* starts there, and comes back to the root when it gets to the end.
Visits(h, req) ==
    LET all == [i \in 1..Len(h.majors) |-> i]
    IN  IF BestSize(h) > Need(req)
          THEN SubSeq(all, IndexOf(h, h.bestBet), Len(all)) \o all
          ELSE all

\* Case 1 passes over a major without the room, case 5 over one whose room
\* is not in one piece.
Hits(h, req) ==
    {v \in DOMAIN Visits(h, req) :
        LET maj == h.majors[Visits(h, req)[v]]
        IN  FreeIn(maj) >= Need(req) /\ Fits(maj, req) # {}}

\* On its way the search remembers the roomiest major: <<id, room>>.
Better(bet, maj) ==
    IF bet[2] < FreeIn(maj) THEN <<maj.id, FreeIn(maj)>> ELSE bet

BestOf(h, req, last) ==
    LET b[v \in 0..last] ==
          IF v = 0 THEN <<h.bestBet, BestSize(h)>>
          ELSE Better(b[v-1], h.majors[Visits(h, req)[v]])
    IN  b[last]

\* A pointer into a major that is there.
FromMajor(h, req) ==
    LET v == First(Hits(h, req))
        i == Visits(h, req)[v]
        k == First(Fits(h.majors[i], req))
    IN  [p |-> <<h.majors[i].id, GapStart(h.majors[i], k)>>,
         h |-> [h EXCEPT !.majors[i] = Squeeze(@, k, req),
                         !.bestBet = BestOf(h, req, v)[1],
                         !.inuse = @ + req + AlignRoom]]

\* A pointer into a new major at the end of the list.  The first one and case
\* 5 go round the loop with it, and so may bet on it; case 1 does not.
FromNewMajor(h, req) ==
    LET maj == allocate_new_page(req)
        b   == BestOf(h, req, Len(Visits(h, req)))
        bet == \/ h.majors = <<>>
               \/ FreeIn(Last(h.majors)) >= Need(req)
    IN  [p |-> <<maj.id, MajorHdr>>,
         h |-> [majors |-> Append(h.majors, Squeeze(maj, 0, req)),
                bestBet |-> IF bet THEN Better(b, maj)[1] ELSE b[1],
                allocated |-> h.allocated + maj.size,
                inuse |-> h.inuse + req + AlignRoom]]

\* Without pages for another major: NULL.
NoMajor(h, req) ==
    [p |-> <<>>,
     h |-> [h EXCEPT !.bestBet = BestOf(h, req, Len(Visits(h, req)))[1]]]

\* pages: whether the system has pages for another block.
Malloc(h, req, pages) ==
    CASE Hits(h, req) # {}           -> FromMajor(h, req)
      [] Hits(h, req) = {} /\ pages  -> FromNewMajor(h, req)
      [] Hits(h, req) = {} /\ ~pages -> NoMajor(h, req)

----------------------------------------------------------------------------

MinorAt(maj, start) ==
    CHOOSE k \in DOMAIN maj.minors : maj.minors[k].start = start

\* Mutant: a major that goes back to the system stays the best bet.
bet_stays(h, i, left) ==
    IF left.minors # <<>> /\ h.bestBet # 0 /\ FreeIn(left) > BestSize(h)
      THEN left.id ELSE h.bestBet

\* The best bet once major i has become left.
BetAfterFree(h, i, left) ==
    CASE left.minors = <<>> /\ h.bestBet = left.id -> 0
      [] left.minors # <<>> /\ h.bestBet # 0 /\ FreeIn(left) > BestSize(h) ->
           left.id
      [] OTHER -> h.bestBet

\* Callers give back what malloc returned.  A major without minors leaves the
\* list and its pages go back to the system.
Free(h, p) ==
    LET i == IndexOf(h, p[1])
        k == MinorAt(h.majors[i], p[2])
        size == h.majors[i].minors[k].size
        left == [h.majors[i] EXCEPT !.usage = @ - (size + MinorHdr),
                                    !.minors = RemoveAt(@, k)]
        gone == left.minors = <<>>
    IN  [majors |-> IF gone THEN RemoveAt(h.majors, i)
                    ELSE [h.majors EXCEPT ![i] = left],
         bestBet |-> BetAfterFree(h, i, left),
         allocated |-> h.allocated - (IF gone THEN left.size ELSE 0),
         inuse |-> h.inuse - size]

----------------------------------------------------------------------------

\* Blocks that were handed out are not counted again.
Ids(h) == {maj.id : maj \in Range(h.majors)}
Count == nextId' = nextId + Cardinality(Ids(lib') \ Ids(lib))

\* Whether the system has pages for another block.
CanGrow == IF nextId <= MaxMajors THEN BOOLEAN ELSE {FALSE}

malloc(req) ==
    \E pages \in CanGrow :
        /\ lib' = Malloc(lib, req, pages).h
        /\ Count
        /\ UNCHANGED fault

\* The memory is cleared, even when malloc returned NULL.
calloc(req) ==
    \E pages \in CanGrow :
        LET r == Malloc(lib, req, pages)
        IN  /\ lib' = r.h
            /\ Count
            /\ fault' = (r.p = <<>>)

free(p) ==
    /\ lib' = Free(lib, p)
    /\ UNCHANGED <<nextId, fault>>

\* A size that is not larger is noted.  For a larger one a new pointer takes
\* over what the old one holds, even when malloc returned NULL, and the old
\* one is freed.
realloc(p, req) ==
    LET i == IndexOf(lib, p[1])
        k == MinorAt(lib.majors[i], p[2])
    IN  \/ /\ lib.majors[i].minors[k].req >= req
           /\ lib' = [lib EXCEPT !.majors[i].minors[k].req = req]
           /\ UNCHANGED <<nextId, fault>>
        \/ /\ lib.majors[i].minors[k].req < req
           /\ \E pages \in CanGrow :
                LET r == Malloc(lib, req, pages)
                IN  /\ lib' = IF r.p = <<>> THEN r.h ELSE Free(r.h, p)
                    /\ Count
                    /\ fault' = (r.p = <<>>)

HeapInit ==
    /\ lib = [majors |-> <<>>, bestBet |-> 0, allocated |-> 0, inuse |-> 0]
    /\ nextId = 1
    /\ fault = FALSE

HeapNext ==
    /\ ~fault
    /\ \/ \E req \in Sizes : malloc(req) \/ calloc(req)
       \/ \E p \in Pointers(lib) : free(p)
       \/ \E p \in Pointers(lib), req \in Sizes : realloc(p, req)

HeapSpec == HeapInit /\ [][HeapNext]_heapvars

----------------------------------------------------------------------------

Sum(s) == FoldFunction(LAMBDA a, b : a + b, 0, s)

\* After any sequence of calls the minors of a major are in order, do not
\* overlap and stay inside it, and usage, l_inuse and l_allocated, which
\* decide where malloc looks and bets, say exactly what they take up
\* (liballoc.c:396, 435, 482, 523, 679-681, 700).
HeapSound ==
    /\ \A maj \in Range(lib.majors) :
         /\ maj.minors # <<>>
         /\ GapStart(maj, Len(maj.minors)) <= maj.size
         /\ \A k \in DOMAIN maj.minors :
              maj.minors[k].start >= GapStart(maj, k - 1)
         /\ \A mn \in Range(maj.minors) : mn.req + AlignRoom <= mn.size
         /\ maj.usage = MajorHdr +
              Sum([k \in DOMAIN maj.minors |-> maj.minors[k].size + MinorHdr])
    /\ lib.allocated = Sum([i \in DOMAIN lib.majors |-> lib.majors[i].size])
    /\ lib.inuse = Sum([i \in DOMAIN lib.majors |->
            lib.majors[i].usage - MajorHdr
              - MinorHdr * Len(lib.majors[i].minors)])

\* l_bestBet never points to a major that went back to the system
\* (liballoc.c:323-330, 697).
BestBetLive == lib.bestBet \in Ids(lib) \cup {0}

\* The heap asks the system for another block, or fails, only when no major
\* has a gap for the request: starting at the best bet misses no major
\* (liballoc.c:323-378, 550-573).
GrowOnlyWhenFull ==
    [][\A req \in Sizes :
         malloc(req) /\ (Pointers(lib') = Pointers(lib) \/ nextId' > nextId)
           =>
             \A maj \in Range(lib.majors) : Fits(maj, req) = {}]_heapvars
=============================================================================
