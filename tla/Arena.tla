--------------------------------- MODULE Arena -------------------------------
(***************************************************************************)
(* The memory of an analyzer: a Manager that owns pages and hands them out *)
(* one after the other, and the PoolAlloc that places objects in the page  *)
(* it holds.  Nothing is freed; between two sentences both start again and *)
(* the pages are used a second time.  Pages are numbered from 1, 0 is none.*)
(***************************************************************************)
EXTENDS Alignment, Sequences

CONSTANTS PageSize,  \* of AnalyzerConfig, in the unit of an object
          Requests   \* the [size, align] that are asked for

ASSUME PageAssumption == PageSize \in Nat
ASSUME RequestsAssumption ==
  Requests \subseteq [size : Nat, align : Nat \ {0}]

VARIABLES
  mgr,   \* [currentPage, pages]: pages handed out, pages owned
  pool,  \* [base, offset, end]
  live   \* the objects of this sentence: [page, from, to]

arenaVars == <<mgr, pool, live>>

\* Manager.newPage: an owned page comes back before memory is asked for.
NewPage(m) ==
  [currentPage |-> m.currentPage + 1,
   pages |-> IF m.currentPage < m.pages THEN m.pages ELSE m.pages + 1]
\* PoolAlloc.reset
KeepsItsPage(p) == p  \* mutant
ResetPool(p) == [base |-> 0, offset |-> 0, end |-> 0]

\* PoolAlloc.allocate_memory: in the page it holds, or at the start of the next.
\* A request no page can hold is refused, and the page it was given is lost.
PlaceUnchecked(size, align) ==  \* mutant: only the start has to fit
  LET address == Align(pool.offset, align)
  IN /\ address <= pool.end
     /\ pool' = [pool EXCEPT !.offset = address + size]
     /\ live' = Append(live, [page |-> pool.base, from |-> address, to |-> address + size])
     /\ UNCHANGED mgr
Place(size, align) ==
  LET address == Align(pool.offset, align)
  IN /\ address + size <= pool.end
     /\ pool' = [pool EXCEPT !.offset = address + size]
     /\ live' = Append(live, [page |-> pool.base, from |-> address, to |-> address + size])
     /\ UNCHANGED mgr
SwitchToNewPage(size, align) ==
  /\ Align(pool.offset, align) + size > pool.end
  /\ mgr' = NewPage(mgr)
  /\ IF PageSize < size
     THEN UNCHANGED <<pool, live>>
     ELSE /\ pool' = [base |-> mgr'.currentPage, offset |-> size, end |-> PageSize]
          /\ live' = Append(live, [page |-> mgr'.currentPage, from |-> 0, to |-> size])
AllocateMemory(size, align) == Place(size, align) \/ SwitchToNewPage(size, align)

\* The part of AnalyzerImpl.reset that is about memory.
ResetMemory ==
  /\ mgr' = [mgr EXCEPT !.currentPage = 0]
  /\ pool' = ResetPool(pool)
  /\ live' = <<>>

ArenaInit ==
  /\ mgr = [currentPage |-> 0, pages |-> 0]
  /\ pool = [base |-> 0, offset |-> 0, end |-> 0]
  /\ live = <<>>
ArenaNext == (\E r \in Requests : AllocateMemory(r.size, r.align)) \/ ResetMemory
ArenaSpec == ArenaInit /\ [][ArenaNext]_arenaVars

-----------------------------------------------------------------------------

\* Two objects of a sentence never share memory, whichever pages come back
\* and however requests are aligned: extra nodes, boundaries and beams are
\* written through pointers that nothing checks.
NoOverlap ==
  \A i, j \in DOMAIN live :
    i # j => \/ live[i].page # live[j].page
             \/ live[i].to <= live[j].from
             \/ live[j].to <= live[i].from

\* No object leaves the page it was placed in, and that page is one the
\* manager has handed out to this sentence and owns: a larger request is
\* refused, a page that comes back is as large as a new one, and an object
\* that does not fit opens a page.
InPages ==
  /\ mgr.currentPage <= mgr.pages
  /\ \A i \in DOMAIN live :
       live[i].from < live[i].to =>
         live[i].page \in 1 .. mgr.currentPage /\ live[i].to <= PageSize
=============================================================================
