----------------------------- MODULE CApiProofs ------------------------------
(***************************************************************************)
(* Theorems of CApi for every set of files and sentences and any number of *)
(* calls: whichever allocations fail, the heap holds exactly what the      *)
(* caller and the running call own, and free is called with nothing else.  *)
(***************************************************************************)
EXTENDS CApi, TLAPS

\* The results of the caller are those of different earlier calls.
Held ==
  /\ held \subseteq [call : Nat, count : Nat]
  /\ \A r \in held : r.call <= calls /\ (pc # "idle" => r.call # calls)
  /\ \A r, q \in held : r.call = q.call => r = q

\* What the running call has allocated at each of its steps.
Stored ==
  /\ pc \in {"idle", "arrays"} => ptrs = {} /\ i = 0
  /\ pc = "no arrays" => ptrs \subseteq ArrayBlocks(calls)
  /\ pc = "strings" => ptrs = ArrayBlocks(calls) \cup StringBlocks(calls, 1 .. i)
  /\ pc = "no string" =>
       /\ ArrayBlocks(calls) \subseteq ptrs
       /\ ptrs \subseteq ArrayBlocks(calls) \cup StringBlocks(calls, 1 .. i + 1)

Counters ==
  /\ pc \in {"idle", "arrays", "strings", "no arrays", "no string"}
  /\ calls \in Nat /\ i \in Nat /\ count \in Nat /\ i <= count

IInv == Counters /\ Held /\ Stored /\ HeapIsOwned /\ NoBadFree

\* The blocks of the results R.
BlocksOf(R) == UNION {ArrayBlocks(r.call) \cup StringBlocks(r.call, 1 .. r.count) : r \in R}
-----------------------------------------------------------------------------
LEMMA Numbers == ASSUME NEW n \in Nat PROVE n + 1 \in Nat /\ 0 <= n /\ \A m \in Nat : m < n => m + 1 <= n
OBVIOUS

\* A block is named after the call that allocated it.
LEMMA Named ==
  /\ \A c, b : b \in ArrayBlocks(c) => b[1] = c
  /\ \A c, ks, b : b \in StringBlocks(c, ks) => b[1] = c
BY DEF ArrayBlocks, StringBlocks

LEMMA NamedOf ==
  ASSUME NEW R, NEW b \in BlocksOf(R)
  PROVE  \E r \in R : b[1] = r.call
BY Named DEF BlocksOf

\* The strings copied so far and the next one are the strings copied then.
LEMMA NextString ==
  ASSUME NEW c, NEW k \in Nat
  PROVE  StringBlocks(c, 1 .. k) \cup StringBlocks(c, {k + 1}) = StringBlocks(c, 1 .. k + 1)
<1>1. 1 .. k + 1 = (1 .. k) \cup {k + 1}
  OBVIOUS
<1>. QED
  BY <1>1 DEF StringBlocks

\* The length of the library's result is a number after any analysis.
LEMMA CountAfterAnalyze ==
  ASSUME count \in Nat, NEW s \in Sentences, NEW ok, Analyze(s, ok)
  PROVE  Len(result') \in Nat
<1>1. CASE NotInitialized(ok)
  BY <1>1 DEF NotInitialized, count
<1>2. CASE AnalysisFails(s, ok)
  BY <1>2 DEF AnalysisFails
<1>3. CASE AnalysisEnds(s, ok)
  BY <1>3, AnswersAssumption DEF AnalysisEnds
<1>4. CASE ReadsOutside(s)
  BY <1>4 DEF ReadsOutside
<1>. QED
  BY <1>1, <1>2, <1>3, <1>4 DEF Analyze, Analysis
-----------------------------------------------------------------------------
LEMMA Initially == Init => IInv
BY DEF Init, FreshLib, IInv, Counters, Held, Stored, HeapIsOwned, NoBadFree, count

LEMMA StepInitEx ==
  ASSUME IInv, NEW p \in Paths, InitEx(p)
  PROVE  IInv'
<1>1. result' = result
  BY DEF InitEx, LoadModel, answers
<1>. QED
  BY <1>1 DEF InitEx, callVars, IInv, Counters, Held, Stored, HeapIsOwned, NoBadFree, count

LEMMA StepDestroy ==
  ASSUME IInv, Destroy
  PROVE  IInv'
<1>1. result' = <<>> /\ i = 0
  BY DEF Destroy, RenewLib, IInv, Stored
<1>. QED
  BY <1>1 DEF Destroy, callVars, IInv, Counters, Held, Stored, HeapIsOwned, NoBadFree, count

LEMMA StepCallAnalyze ==
  ASSUME IInv, NEW s \in Sentences, CallAnalyze(s)
  PROVE  IInv'
<1>1. Len(result') \in Nat
  BY CountAfterAnalyze DEF CallAnalyze, IInv, Counters
<1>2. /\ calls' = calls + 1 /\ calls \in Nat
      /\ pc' \in {"idle", "arrays"} /\ ptrs' = {} /\ i' = 0
      /\ UNCHANGED <<heap, badFree, held, ptrs>>
  BY DEF CallAnalyze, IInv, Counters, Stored
<1>3. Counters'
  <2>1. Len(result') \in Nat /\ 0 <= Len(result')
    BY <1>1
  <2>2. pc' \in {"idle", "arrays", "strings", "no arrays", "no string"}
    BY <1>2
  <2>3. calls' \in Nat /\ i' \in Nat /\ i' <= Len(result')
    BY <1>2, <2>1
  <2>. QED
    BY <2>1, <2>2, <2>3 DEF Counters, count
<1>4. Held'
  BY <1>2 DEF IInv, Held
<1>5. Stored' /\ HeapIsOwned' /\ NoBadFree'
  BY <1>2 DEF IInv, Stored, HeapIsOwned, NoBadFree
<1>. QED
  BY <1>3, <1>4, <1>5 DEF IInv

LEMMA StepAllocArrays ==
  ASSUME IInv, AllocArrays
  PROVE  IInv'
<1>1. PICK got \in SUBSET ArrayBlocks(calls) :
        /\ Malloc(ArrayBlocks(calls), got)
        /\ pc' = IF got = ArrayBlocks(calls) THEN "strings" ELSE "no arrays"
  BY DEF AllocArrays
<1>2. /\ heap' = heap \cup got /\ ptrs' = got /\ i = 0
      /\ UNCHANGED <<badFree, result, calls, i, held>>
  BY <1>1 DEF AllocArrays, Malloc, libVars, IInv, Stored
<1>3. StringBlocks(calls, 1 .. 0) = {}
  BY DEF StringBlocks
<1>4. Counters' /\ Held'
  BY <1>1, <1>2 DEF AllocArrays, IInv, Counters, Held, count
<1>5. Stored'
  <2>1. CASE got = ArrayBlocks(calls)
    <3>1. pc' = "strings" /\ i' = 0 /\ calls' = calls /\ ptrs' = ArrayBlocks(calls)
      BY <1>1, <1>2, <2>1
    <3>2. ptrs' = ArrayBlocks(calls) \cup StringBlocks(calls, 1 .. 0)
      BY <1>3, <3>1
    <3>. QED
      BY <3>1, <3>2 DEF Stored
  <2>2. CASE got # ArrayBlocks(calls)
    <3>1. pc' = "no arrays" /\ calls' = calls /\ ptrs' \subseteq ArrayBlocks(calls)
      BY <1>1, <1>2, <2>2
    <3>. QED
      BY <3>1 DEF Stored
  <2>. QED
    BY <2>1, <2>2
<1>6. HeapIsOwned' /\ NoBadFree'
  BY <1>1, <1>2 DEF AllocArrays, IInv, Stored, HeapIsOwned, NoBadFree
<1>. QED
  BY <1>4, <1>5, <1>6 DEF IInv

LEMMA StepAllocStrings ==
  ASSUME IInv, AllocStrings
  PROVE  IInv'
<1>1. PICK got \in SUBSET StringBlocks(calls, {i + 1}) :
        /\ Malloc(StringBlocks(calls, {i + 1}), got)
        /\ IF got = StringBlocks(calls, {i + 1}) THEN i' = i + 1 /\ UNCHANGED pc
                                                 ELSE pc' = "no string" /\ UNCHANGED i
  BY DEF AllocStrings
<1>2. /\ heap' = heap \cup got /\ ptrs' = ptrs \cup got
      /\ UNCHANGED <<badFree, result, calls, held>>
      /\ pc = "strings" /\ i < count
  BY <1>1 DEF AllocStrings, Malloc, libVars, MoreStrings
<1>3. i \in Nat /\ count \in Nat /\ ptrs = ArrayBlocks(calls) \cup StringBlocks(calls, 1 .. i)
  BY <1>2 DEF IInv, Counters, Stored
<1>4. StringBlocks(calls, 1 .. i) \cup StringBlocks(calls, {i + 1}) = StringBlocks(calls, 1 .. i + 1)
  BY <1>3, NextString
<1>5. Counters'
  <2>1. pc' \in {"strings", "no string"} /\ i' \in {i, i + 1} /\ calls' = calls /\ count' = count
    BY <1>1, <1>2 DEF count
  <2>2. i \in Nat /\ calls \in Nat /\ Len(result) \in Nat /\ i < Len(result) /\ i <= Len(result)
    BY <1>2 DEF IInv, Counters, count
  <2>3. i' \in Nat /\ i' <= Len(result)
    <3>1. i + 1 \in Nat /\ i + 1 <= Len(result)
      BY <2>2, Numbers
    <3>. QED
      BY <2>1, <2>2, <3>1
  <2>. QED
    BY <1>2, <2>1, <2>2, <2>3 DEF Counters, count
<1>6. Held'
  BY <1>1, <1>2 DEF IInv, Held
<1>7. Stored'
  <2>1. CASE got = StringBlocks(calls, {i + 1})
    <3>1. i' = i + 1 /\ pc' = "strings" /\ calls' = calls
      BY <1>1, <1>2, <2>1
    <3>2. ptrs' = ArrayBlocks(calls) \cup StringBlocks(calls, 1 .. i + 1)
      BY <1>2, <1>3, <1>4, <2>1
    <3>3. ptrs' = ArrayBlocks(calls') \cup StringBlocks(calls', 1 .. i')
      BY <3>1, <3>2
    <3>. QED
      BY <3>1, <3>3 DEF Stored
  <2>2. CASE got # StringBlocks(calls, {i + 1})
    <3>1. i' = i /\ pc' = "no string" /\ calls' = calls
      BY <1>1, <1>2, <2>2
    <3>2. ptrs' \subseteq ArrayBlocks(calls) \cup StringBlocks(calls, 1 .. i + 1)
      BY <1>2, <1>3, <1>4
    <3>3. ArrayBlocks(calls) \subseteq ptrs'
      BY <1>2, <1>3
    <3>4. ptrs' \subseteq ArrayBlocks(calls') \cup StringBlocks(calls', 1 .. i' + 1)
      BY <3>1, <3>2
    <3>. QED
      BY <3>1, <3>3, <3>4 DEF Stored
  <2>. QED
    BY <2>1, <2>2
<1>8. HeapIsOwned' /\ NoBadFree'
  BY <1>2 DEF IInv, HeapIsOwned, NoBadFree
<1>. QED
  BY <1>5, <1>6, <1>7, <1>8 DEF IInv

\* A failed call that frees exactly the pointers it stored.
LEMMA FreePtrs ==
  ASSUME IInv, pc # "idle", Free(ptrs), OutOfMemory,
         \A b \in ptrs : b[1] = calls
  PROVE  IInv'
<1>1. /\ heap' = heap \ ptrs /\ badFree' = (badFree \/ ~(ptrs \subseteq heap))
      /\ pc' = "idle" /\ ptrs' = {} /\ i' = 0
      /\ UNCHANGED <<result, calls, held>>
  BY DEF Free, OutOfMemory, libVars
<1>2. heap = ptrs \cup BlocksOf(held)
  BY DEF IInv, HeapIsOwned, BlocksOf
<1>3. \A b \in BlocksOf(held) : b \notin ptrs
  BY NamedOf DEF IInv, Held
<1>4. heap' = BlocksOf(held)
  BY <1>1, <1>2, <1>3
<1>5. NoBadFree'
  BY <1>1, <1>2 DEF IInv, NoBadFree
<1>6. HeapIsOwned'
  BY <1>1, <1>4 DEF HeapIsOwned, BlocksOf
<1>7. Counters'
  <2>1. calls \in Nat /\ Len(result) \in Nat /\ 0 <= Len(result)
    BY Numbers DEF IInv, Counters, count
  <2>. QED
    BY <1>1, <2>1 DEF Counters, count
<1>8. Held' /\ Stored'
  BY <1>1 DEF IInv, Held, Stored
<1>. QED
  BY <1>5, <1>6, <1>7, <1>8 DEF IInv

LEMMA StepNoArrays ==
  ASSUME IInv, NoArrays
  PROVE  IInv'
<1>1. \A b \in ptrs : b[1] = calls
  BY Named DEF NoArrays, IInv, Stored
<1>. QED
  BY <1>1, FreePtrs DEF NoArrays

\* The clean-up of a failed copy frees the pointers stored and no others.
LEMMA StepNoString ==
  ASSUME IInv, NoString
  PROVE  IInv'
<1>. DEFINE strings == StringBlocks(calls, 1 .. i + 1)
<1>1. ptrs = (strings \ (strings \ ptrs)) \cup ArrayBlocks(calls)
  BY DEF NoString, IInv, Stored
<1>2. Free(ptrs) /\ OutOfMemory /\ pc # "idle"
  BY <1>1 DEF NoString, CleanedUp
<1>3. \A b \in ptrs : b[1] = calls
  BY <1>1, Named
<1>. QED
  BY <1>2, <1>3, FreePtrs

LEMMA StepReturnCount ==
  ASSUME IInv, ReturnCount
  PROVE  IInv'
<1>. DEFINE r == [call |-> calls, count |-> count]
<1>1. /\ held' = held \cup {r} /\ pc' = "idle" /\ ptrs' = {} /\ i' = 0
      /\ UNCHANGED <<heap, badFree, result, calls>>
      /\ pc = "strings" /\ ~(i < count)
  BY DEF ReturnCount, MoreStrings, libVars
<1>2. calls \in Nat /\ count \in Nat /\ i = count
  BY <1>1 DEF IInv, Counters
<1>3. r \in [call : Nat, count : Nat] /\ r.call = calls /\ r.count = count
  BY <1>2
<1>. HIDE DEF r
<1>4. ptrs = ArrayBlocks(r.call) \cup StringBlocks(r.call, 1 .. r.count)
  BY <1>1, <1>2, <1>3 DEF IInv, Stored
<1>5. Counters'
  BY <1>1, <1>2 DEF Counters, count
<1>6. Held'
  BY <1>1, <1>2, <1>3 DEF IInv, Held
<1>7. HeapIsOwned'
  BY <1>1, <1>4 DEF IInv, HeapIsOwned
<1>8. Stored' /\ NoBadFree'
  BY <1>1 DEF IInv, Stored, NoBadFree
<1>. QED
  BY <1>5, <1>6, <1>7, <1>8 DEF IInv

LEMMA StepFreeResult ==
  ASSUME IInv, NEW r \in held, FreeResult(r)
  PROVE  IInv'
<1>1. /\ pc = "idle" /\ held' = held \ {r} /\ heap' = heap \ Freed(r)
      /\ badFree' = (badFree \/ ~(Freed(r) \subseteq heap))
      /\ UNCHANGED <<result, pc, calls, ptrs, i>>
  BY DEF FreeResult, Free, libVars, callVars
<1>2. heap = BlocksOf(held) /\ ptrs = {}
  BY <1>1 DEF IInv, HeapIsOwned, BlocksOf, Stored
<1>3. Freed(r) \subseteq heap
  BY <1>2 DEF Freed, BlocksOf
<1>4. \A b \in Freed(r) : b[1] = r.call
  BY Named DEF Freed
<1>5. \A b \in BlocksOf(held \ {r}) : b \notin Freed(r)
  <2>. SUFFICES ASSUME NEW b \in BlocksOf(held \ {r}), b \in Freed(r) PROVE FALSE
    OBVIOUS
  <2>1. PICK q \in held \ {r} : b[1] = q.call
    BY NamedOf
  <2>2. q.call = r.call
    BY <2>1, <1>4
  <2>. QED
    BY <2>1, <2>2 DEF IInv, Held
<1>6. BlocksOf(held) = BlocksOf(held \ {r}) \cup Freed(r)
  BY DEF BlocksOf, Freed
<1>7. heap' = BlocksOf(held')
  BY <1>1, <1>2, <1>5, <1>6
<1>8. HeapIsOwned' /\ NoBadFree'
  BY <1>1, <1>2, <1>3, <1>7 DEF IInv, HeapIsOwned, NoBadFree, BlocksOf
<1>9. Counters' /\ Held' /\ Stored'
  BY <1>1 DEF IInv, Counters, Held, Stored, count, ArrayBlocks, StringBlocks
<1>. QED
  BY <1>8, <1>9 DEF IInv

LEMMA Inductive == IInv /\ [Next]_vars => IInv'
<1>. SUFFICES ASSUME IInv, [Next]_vars PROVE IInv'
  OBVIOUS
<1>1. CASE \E p \in Paths : InitEx(p)
  BY <1>1, StepInitEx
<1>2. CASE \E s \in Sentences : CallAnalyze(s)
  BY <1>2, StepCallAnalyze
<1>3. CASE AllocArrays
  BY <1>3, StepAllocArrays
<1>4. CASE NoArrays
  BY <1>4, StepNoArrays
<1>5. CASE AllocStrings
  BY <1>5, StepAllocStrings
<1>6. CASE NoString
  BY <1>6, StepNoString
<1>7. CASE ReturnCount
  BY <1>7, StepReturnCount
<1>8. CASE \E r \in held : FreeResult(r)
  BY <1>8, StepFreeResult
<1>9. CASE Destroy
  BY <1>9, StepDestroy
<1>10. CASE UNCHANGED vars
  <2>1. UNCHANGED <<result, heap, badFree, pc, calls, ptrs, i, held>>
    BY <1>10 DEF vars, libVars, callVars
  <2>2. Counters'
    BY <2>1 DEF IInv, Counters, count
  <2>3. Held' /\ Stored'
    BY <2>1 DEF IInv, Held, Stored
  <2>4. HeapIsOwned' /\ NoBadFree'
    BY <2>1 DEF IInv, HeapIsOwned, NoBadFree
  <2>. QED
    BY <2>2, <2>3, <2>4 DEF IInv
<1>. QED
  BY <1>1, <1>2, <1>3, <1>4, <1>5, <1>6, <1>7, <1>8, <1>9, <1>10 DEF Next, Running
-----------------------------------------------------------------------------
\* A library is loaded once, by the call that makes its handle; no call runs
\* without a handle that is loaded.
OneLoad ==
  /\ ~handle => file = None /\ ~initialized
  /\ pc # "idle" => handle /\ initialized
HInv == OneLoad /\ FailedHandle

\* A file that does not load to the end fails at a stage with a message.
LEMMA FailsWithMessage ==
  ASSUME NEW p \in Paths, ~Passes(p, "fields")
  PROVE  FailsAt[p] \notin {None, "Memory allocation failed"}
<1>1. /\ DOMAIN Stages = 1 .. 6 /\ Stages[5] = "fields" /\ Stages[6] = "none"
      /\ \A k \in 1 .. 6 : Stages[k] # "Memory allocation failed"
  BY DEF Stages
<1>2. PICK k \in 1 .. 6 : FailsAt[p] = Stages[k]
  BY <1>1, LoadingAssumption DEF Range
<1>3. FailsAt[p] # Stages[6]
  <2>1. 5 \in 1 .. 6 /\ 6 \in 1 .. 6 /\ 5 < 6
    OBVIOUS
  <2>. QED
    BY <1>1, <2>1 DEF Passes
<1>. QED
  BY <1>1, <1>2, <1>3 DEF None

LEMMA HandleInitially == Init => HInv
BY DEF Init, FreshLib, HInv, OneLoad, FailedHandle

LEMMA HandleStep == HInv /\ [Next]_vars => HInv'
<1>. SUFFICES ASSUME HInv, [Next]_vars PROVE HInv'
  OBVIOUS
<1>1. ASSUME NEW p \in Paths, InitEx(p) PROVE HInv'
  <2>1. PICK ok \in BOOLEAN : LoadModel(p, ok) /\ lastError' = ErrorAfterInit(ok)
    BY <1>1 DEF InitEx
  <2>2. /\ file = None /\ ~initialized /\ handle' /\ pc = "idle" /\ pc' = pc
    BY <1>1 DEF InitEx, callVars, HInv, OneLoad
  <2>3. /\ ok = Passes(p, "fields") /\ initialized' = ok
        /\ error' = IF ok THEN error ELSE FailsAt[p]
    BY <2>1, <2>2 DEF LoadModel, MayOpen
  <2>4. ~ok => lastError' \notin {None, "Memory allocation failed"}
    BY <2>1, <2>3, FailsWithMessage DEF ErrorAfterInit
  <2>. QED
    BY <2>2, <2>3, <2>4 DEF HInv, OneLoad, FailedHandle
<1>2. ASSUME NEW s \in Sentences, CallAnalyze(s) PROVE HInv'
  <2>1. PICK ok \in BOOLEAN :
          /\ Analyze(s, ok)
          /\ pc' = IF ok THEN "arrays" ELSE "idle"
          /\ lastError' = IF ok THEN lastError ELSE error'
    BY <1>2 DEF CallAnalyze
  <2>2. handle /\ handle' = handle
    BY <1>2 DEF CallAnalyze
  <2>3. CASE initialized
    <3>1. initialized' = initialized /\ file' = file
      BY <2>1, <2>3 DEF Analyze, Analysis, NotInitialized, AnalysisFails, AnalysisEnds, ReadsOutside, model
    <3>. QED
      BY <2>2, <2>3, <3>1 DEF HInv, OneLoad, FailedHandle
  <2>4. CASE ~initialized
    <3>1. ok = FALSE /\ error' = "not initialized" /\ UNCHANGED model
      BY <2>1, <2>4 DEF Analyze, Analysis, NotInitialized, AnalysisFails, AnalysisEnds, ReadsOutside
    <3>. QED
      BY <2>1, <2>2, <2>4, <3>1 DEF HInv, OneLoad, FailedHandle, None, model
  <2>. QED
    BY <2>3, <2>4
<1>3. CASE Running
  <2>1. pc # "idle"
    BY <1>3 DEF Running, AllocArrays, NoArrays, AllocStrings, NoString, ReturnCount
  <2>2. handle /\ initialized
    BY <2>1 DEF HInv, OneLoad
  <2>3. UNCHANGED <<libVars, handle>>
    BY <1>3 DEF Running, AllocArrays, NoArrays, AllocStrings, NoString, ReturnCount, OutOfMemory
  <2>. QED
    BY <2>2, <2>3 DEF HInv, OneLoad, FailedHandle, libVars
<1>4. ASSUME NEW r \in held, FreeResult(r) PROVE HInv'
  BY <1>4 DEF FreeResult, libVars, callVars, HInv, OneLoad, FailedHandle
<1>5. CASE Destroy
  BY <1>5 DEF Destroy, RenewLib, callVars, HInv, OneLoad, FailedHandle
<1>6. CASE UNCHANGED vars
  BY <1>6 DEF vars, libVars, callVars, HInv, OneLoad, FailedHandle
<1>. QED
  BY <1>1, <1>2, <1>3, <1>4, <1>5, <1>6 DEF Next

-----------------------------------------------------------------------------
\* jumanlrc_analyze and jumanlrc_free_result: whichever mallocs fail, however
\* many analyses run and in whatever order results are freed, the memory
\* allocated is that of the running call and of the results the caller holds.
THEOREM HeapOwned == Spec => []HeapIsOwned
<1>1. IInv => HeapIsOwned
  BY DEF IInv
<1>. QED
  BY <1>1, Initially, Inductive, PTL DEF Spec

\* free is only ever called with blocks malloc returned and nobody freed, on
\* the clean-up paths of a failed allocation too.
THEOREM FreesAreGood == Spec => []NoBadFree
<1>1. IInv => NoBadFree
  BY DEF IInv
<1>. QED
  BY <1>1, Initially, Inductive, PTL DEF Spec

\* jumanlrc_init_ex returns a handle although the model did not load: as long
\* as the handle lives, whatever it is asked to analyse, its last error says
\* so, it is never that of an allocation, and no analysis of it gets as far
\* as allocating a result.
THEOREM FailedHandleTells == Spec => []FailedHandle
<1>1. HInv => FailedHandle
  BY DEF HInv
<1>. QED
  BY <1>1, HandleInitially, HandleStep, PTL DEF Spec
=============================================================================
