------------------------------- MODULE CacheFlush -------------------------------
(***************************************************************************)
(* The cache routines of the HAL on one cache of the processor, which is   *)
(* external: direct-mapped, a memory line in the set of its number.  While *)
(* a routine goes through its region line by line, interrupt handlers go   *)
(* on using the cache for data of their own.                               *)
(***************************************************************************)
EXTENDS Integers

CONSTANTS
    LINE_SIZE, SETS,   \* bytes of a line, lines of the cache
    LINES,             \* lines of memory
    None

VARIABLES
    kind,              \* "data" or "instruction" cache
    cache,             \* the memory line in each set
    dirty,             \* lines that were written and not written back
    lost,              \* history: lines whose writes the call has thrown away
    pc,
    op, start, len,    \* the routine and its arguments
    end, i             \* its locals

vars == <<kind, cache, dirty, lost, pc, op, start, len, end, i>>
args == <<op, start, len>>

Sets == 0..(SETS - 1)
SIZE == SETS * LINE_SIZE
Set(l) == l % SETS

\* The lines that hold one of n bytes from a on.
Region(a, n) == {l \in 0..(LINES - 1) : l * LINE_SIZE < a + n /\ a < (l + 1) * LINE_SIZE}

Init == /\ kind \in {"data", "instruction"}
        /\ cache = [s \in Sets |-> None] /\ dirty = {} /\ lost = {}
        /\ pc = "main" /\ op = "none"
        /\ start = 0 /\ len = 0 /\ end = 0 /\ i = 0

\* A load, a store or a fetch; the line that was there is written back.
Access(l, stores) ==
    /\ pc = "main" \/ l \notin Region(start, len)
    /\ stores => kind = "data"
    /\ cache' = [cache EXCEPT ![Set(l)] = l]
    /\ dirty' = (IF cache[Set(l)] = l THEN dirty ELSE dirty \ {cache[Set(l)]})
                   \cup (IF stores THEN {l} ELSE {})
    /\ UNCHANGED <<kind, lost, pc, args, end, i>>

\* alt_icache_flush() goes no further than the cache is large.
Capped(n) == IF n > SIZE THEN SIZE ELSE n

Call(o, a, n) ==
    /\ pc = "main" /\ a + n <= LINES * LINE_SIZE
    /\ o = "dcache_flush_all" => a = 0 /\ n = SIZE
    /\ (kind = "instruction") <=> (o = "icache_flush")
    /\ pc' = "loop" /\ op' = o /\ start' = a /\ len' = n
    /\ i' = a
    /\ end' = a + IF o = "icache_flush" THEN Capped(n) ELSE n
    /\ lost' = {}
    /\ UNCHANGED <<kind, cache, dirty>>

\* flushda and initda look for the line, flushi and flushd take what is in the
\* set.
WholeSet == op \in {"icache_flush", "dcache_flush_all"}

FlushLine(l) ==
    IF WholeSet \/ cache[Set(l)] = l
    THEN /\ cache' = [cache EXCEPT ![Set(l)] = None]
         /\ dirty' = dirty \ {cache[Set(l)]}
         /\ lost' = IF op = "dcache_flush_no_writeback"
                    THEN lost \cup (dirty \cap {l}) ELSE lost
    ELSE UNCHANGED <<cache, dirty, lost>>

Loop == /\ pc = "loop" /\ i < end
        /\ FlushLine(i \div LINE_SIZE)
        /\ i' = i + LINE_SIZE
        /\ UNCHANGED <<kind, pc, args, end>>

\* "For an unaligned flush request, we've got one more line left."
NeverOneMore  == FALSE                                              \* mutant
OneMore       == start % LINE_SIZE # 0

LastLine == /\ pc = "loop" /\ i >= end
            /\ IF OneMore THEN FlushLine(i \div LINE_SIZE)
               ELSE UNCHANGED <<cache, dirty, lost>>
            /\ pc' = "main"
            /\ op' = "none" /\ start' = 0 /\ len' = 0 /\ end' = 0 /\ i' = 0
            /\ UNCHANGED kind

\* alt_icache_flush_all() is alt_icache_flush() of the cache's size.
Routines == {"dcache_flush", "dcache_flush_no_writeback", "dcache_flush_all",
             "icache_flush"}

Next == \/ \E l \in 0..(LINES - 1), stores \in BOOLEAN : Access(l, stores)
        \/ \E o \in Routines, a, n \in 0..(LINES * LINE_SIZE) : Call(o, a, n)
        \/ Loop \/ LastLine

Spec == Init /\ [][Next]_vars

-----------------------------------------------------------------------------

\* When a routine returns, no line with a byte of its region is left in the
\* cache, however the region lies, although the loop counts from an address
\* that need not be a line's and the length of an instruction region is capped.
RegionFlushed ==
    [][LastLine => \A s \in Sets : cache'[s] \notin Region(start, len)]_vars

\* alt_dcache_flush_no_writeback() throws away no writes but those to the region
\* it is called for, if that starts with a line.
DiscardsItsRegion ==
    [][start % LINE_SIZE = 0 => lost' \ lost \subseteq Region(start, len)]_vars
=============================================================================
