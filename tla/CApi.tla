-------------------------------- MODULE CApi --------------------------------
(***************************************************************************)
(* The C API, jumanlrc_capi.cc: a handle owns a JumanppLib and the text of *)
(* the last error; the words of an analysis are copied into memory the     *)
(* caller must give back.  Any malloc may fail.  A caller uses a handle    *)
(* until it destroys it, then may make another, and frees each result it   *)
(* was given at most once, with the count it was given, at any time.       *)
(***************************************************************************)
EXTENDS JumanppLib, FiniteSets, FiniteSetsExt

CONSTANTS MaxCalls   \* bound on the analyses of a behaviour

ASSUME CallsAssumption == MaxCalls \in Nat
ASSUME AnswersAssumption == \A s \in Sentences \ Refused : Len(ResultOf(s)) \in Nat

VARIABLES
  handle,      \* a handle exists
  lastError,   \* its lastError: None while empty
  heap,        \* the blocks malloc gave out that were not freed
  badFree,     \* free was called with a block that is not in heap
  pc,          \* where jumanlrc_analyze stands, or "idle"
  calls,       \* analyses so far; names the blocks of each
  ptrs,        \* the pointers the running call has stored that are not null
  i,           \* its loop variable: strings copied to both arrays
  held         \* the results the caller holds: the call and the count

callVars == <<pc, calls, ptrs, i>>
vars == <<libVars, handle, lastError, heap, badFree, callVars, held>>

Arrays == {"surfaces", "readings"}

\* Block 0 of an array is the array itself, block k its k-th string.
ArrayBlocks(call) == {<<call, a, 0>> : a \in Arrays}
StringBlocks(call, ks) == {<<call, a, k>> : a \in Arrays, k \in ks}

count == Len(result)
-----------------------------------------------------------------------------
Init ==
  /\ FreshLib
  /\ handle = FALSE /\ lastError = None
  /\ heap = {} /\ badFree = FALSE
  /\ pc = "idle" /\ calls = 0 /\ ptrs = {} /\ i = 0
  /\ held = {}

\* malloc of the blocks B: those in got succeed.
Malloc(B, got) ==
  /\ got \subseteq B
  /\ heap' = heap \cup got
  /\ ptrs' = ptrs \cup got
  /\ UNCHANGED badFree

Free(B) ==
  /\ heap' = heap \ B
  /\ badFree' = (badFree \/ ~(B \subseteq heap))

ErrorNotCopied(ok) == None   \* mutant

\* lastError of a new handle.
ErrorAfterInit(ok) == IF ok THEN None ELSE error'

\* jumanlrc_init_ex: the handle is returned although its model did not load.
InitEx(p) ==
  /\ pc = "idle" /\ ~handle
  /\ handle' = TRUE
  /\ \E ok \in BOOLEAN : LoadModel(p, ok) /\ lastError' = ErrorAfterInit(ok)
  /\ UNCHANGED <<heap, badFree, callVars, held>>

\* jumanlrc_destroy; the next handle has a library of its own.
Destroy ==
  /\ pc = "idle" /\ handle
  /\ handle' = FALSE /\ lastError' = None
  /\ RenewLib
  /\ UNCHANGED <<heap, badFree, callVars, held>>

\* jumanlrc_analyze up to the answer of the library.
CallAnalyze(s) ==
  /\ pc = "idle" /\ handle /\ calls < MaxCalls
  /\ calls' = calls + 1
  /\ \E ok \in BOOLEAN :
       /\ Analyze(s, ok)
       /\ pc' = IF ok THEN "arrays" ELSE "idle"
       /\ lastError' = IF ok THEN lastError ELSE error'
  /\ UNCHANGED <<handle, heap, badFree, ptrs, i, held>>

AllocArrays ==
  /\ pc = "arrays"
  /\ \E got \in SUBSET ArrayBlocks(calls) :
       /\ Malloc(ArrayBlocks(calls), got)
       /\ pc' = IF got = ArrayBlocks(calls) THEN "strings" ELSE "no arrays"
  /\ UNCHANGED <<libVars, handle, lastError, calls, i, held>>

\* The condition of the copying loop.
MoreStrings == i < count

AllocStrings ==
  /\ pc = "strings" /\ MoreStrings
  /\ LET B == StringBlocks(calls, {i + 1}) IN
     \E got \in SUBSET B :
       /\ Malloc(B, got)
       /\ IF got = B THEN i' = i + 1 /\ UNCHANGED pc ELSE pc' = "no string" /\ UNCHANGED i
  /\ UNCHANGED <<libVars, handle, lastError, calls, held>>

OutOfMemory ==
  /\ lastError' = "Memory allocation failed"
  /\ pc' = "idle" /\ ptrs' = {} /\ i' = 0
  /\ UNCHANGED <<libVars, handle, calls, held>>

NoArrays == pc = "no arrays" /\ Free(ptrs) /\ OutOfMemory

CleanedUpCopied == 1 .. i   \* mutant: not the string that failed
CleanedUpAll == 1 .. count  \* mutant: the strings not reached too

\* The strings the clean-up loop of a failed copy passes to free.
CleanedUp == 1 .. i + 1

\* Pointers not stored yet are not null: they hold anything.
NoString ==
  /\ pc = "no string"
  /\ LET null == StringBlocks(calls, 1 .. i + 1) \ ptrs
     IN  Free((StringBlocks(calls, CleanedUp) \ null) \cup ArrayBlocks(calls))
  /\ OutOfMemory

ReturnCount ==
  /\ pc = "strings" /\ ~MoreStrings
  /\ held' = held \cup {[call |-> calls, count |-> count]}
  /\ pc' = "idle" /\ ptrs' = {} /\ i' = 0
  /\ UNCHANGED <<libVars, handle, lastError, heap, badFree, calls>>

\* What jumanlrc_free_result passes to free.
Freed(r) == StringBlocks(r.call, 1 .. r.count) \cup ArrayBlocks(r.call)

FreeResult(r) ==
  /\ pc = "idle"
  /\ Free(Freed(r))
  /\ held' = held \ {r}
  /\ UNCHANGED <<libVars, handle, lastError, callVars>>

Running == AllocArrays \/ NoArrays \/ AllocStrings \/ NoString \/ ReturnCount

Next ==
  \/ \E p \in Paths : InitEx(p)
  \/ \E s \in Sentences : CallAnalyze(s)
  \/ Running
  \/ \E r \in held : FreeResult(r)
  \/ Destroy

Spec == Init /\ [][Next]_vars
-----------------------------------------------------------------------------
\* jumanlrc_analyze, jumanlrc_capi.h:27 "The returned arrays contain exactly
\* count strings": at any time the allocated memory is that of the results
\* the caller holds, both arrays with count strings each, and of the call
\* that runs.  No failed allocation leaves anything behind, and no result
\* goes with the handle it came from.
HeapIsOwned ==
  heap = ptrs \cup UNION {ArrayBlocks(r.call) \cup StringBlocks(r.call, 1 .. r.count) : r \in held}

\* jumanlrc_analyze and jumanlrc_free_result: free only gets what malloc gave
\* and nobody freed, on every path of a partial failure.
NoBadFree == ~badFree

\* jumanlrc_init_ex, jumanlrc_capi.cc:36: a handle whose model did not load is
\* told from a good one by its error, and never gives a result.
FailedHandle ==
  handle /\ ~initialized =>
    lastError \notin {None, "Memory allocation failed"} /\ pc = "idle"
=============================================================================
