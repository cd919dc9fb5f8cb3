--------------------------- MODULE NodeAddonProofs ---------------------------
(***************************************************************************)
(* Theorems of NodeAddon for every set of files and sentences: the addon's *)
(* own flag never promises more than the library, a failed load is the end *)
(* of an instance, and the words of an answer spell what was asked.        *)
(***************************************************************************)
EXTENDS NodeAddon, CommonLemmas, TLAPS

\* A file is opened before anything else is made of it, and never replaced.
OneFile ==
  /\ file = None => core = None /\ analyzer = None /\ ~initialized
  /\ file # None => file \in Paths
  /\ core # None => core = file
  /\ ready => handle

\* After a failed load the library has a file and the addon says not loaded.
Dead == file # None /\ ~ready
FailureSeen == reply.kind = "false" => Dead

IInv == GuardIsSound /\ OneFile /\ FailureSeen

NoAnswer == reply.kind \notin {"words", "null", "true"}
-----------------------------------------------------------------------------
\* A file that loads to the end passes every stage.
LEMMA LoadedToTheEnd ==
  ASSUME NEW p \in Paths, Passes(p, "fields")
  PROVE  FailsAt[p] = "none" /\ Passes(p, "dictionary") /\ Passes(p, "analyzer")
<1>1. /\ DOMAIN Stages = 1 .. 6
      /\ Stages[2] = "dictionary" /\ Stages[4] = "analyzer"
      /\ Stages[6] = "none" /\ \A k \in 1 .. 6 : Stages[k] = "fields" => k = 5
  BY DEF Stages
<1>2. PICK k, j \in 1 .. 6 : Stages[k] = "fields" /\ Stages[j] = FailsAt[p] /\ k < j
  BY <1>1 DEF Passes
<1>3. j = 6
  BY <1>1, <1>2
<1>4. Stages[6] = FailsAt[p]
  BY <1>2, <1>3
<1>. QED
  BY <1>1, <1>4 DEF Passes

LEMMA NoStageIsMissing == ASSUME NEW p \in Paths PROVE FailsAt[p] # "not initialized"
<1>1. PICK k \in DOMAIN Stages : FailsAt[p] = Stages[k]
  BY LoadingAssumption DEF Range
<1>2. \A j \in 1 .. 6 : Stages[j] \in {"open", "dictionary", "features", "analyzer", "fields", "none"}
  BY DEF Stages
<1>3. DOMAIN Stages = 1 .. 6
  BY DEF Stages
<1>. QED
  BY <1>1, <1>2, <1>3

\* The calls of an instance that answers without its library.
LEMMA WithoutLibrary ==
  ASSUME NEW call, NEW arg, AfterDestroy(call, arg) \/ Answered(call, arg)
  PROVE  /\ UNCHANGED <<file, core, analyzer, initialized, error, handle, ready>>
         /\ reply'.kind \in {"TypeError", "empty sentence", "not loaded"}
<1>1. ASSUME AfterDestroy(call, arg)
      PROVE  UNCHANGED <<file, core, analyzer, initialized, error, handle, ready>> /\ reply'.kind = "TypeError"
  BY <1>1 DEF AfterDestroy, Reply, libVars
<1>2. CASE /\ Reply(call, arg, "empty sentence", <<>>) \/ Reply(call, arg, "not loaded", <<>>)
           /\ UNCHANGED <<libVars, handle, ready, native>>
  <2>1. UNCHANGED <<file, core, analyzer, initialized, error, handle, ready>>
    BY <1>2 DEF libVars
  <2>2. CASE Reply(call, arg, "empty sentence", <<>>)
    BY <2>1, <2>2 DEF Reply
  <2>3. CASE Reply(call, arg, "not loaded", <<>>)
    BY <2>1, <2>3 DEF Reply
  <2>. QED
    BY <1>2, <2>2, <2>3
<1>. QED
  BY <1>1, <1>2 DEF Answered

LEMMA AnalysisKeepsModel ==
  ASSUME initialized, NEW s, NEW ok \in BOOLEAN, Analysis(s, ok), error # "not initialized"
  PROVE  UNCHANGED model /\ error' # "not initialized"
BY DEF Analysis, NotInitialized, AnalysisFails, AnalysisEnds, ReadsOutside
-----------------------------------------------------------------------------
LEMMA Initially == Init => IInv
BY DEF Init, FreshLib, IInv, GuardIsSound, OneFile, FailureSeen, None

\* Calls that do not touch the library or the flag.
LEMMA LibraryUntouched ==
  ASSUME IInv, UNCHANGED <<model, error, handle, ready>>,
         reply'.kind # "false" \/ reply' = reply
  PROVE  IInv'
BY DEF IInv, GuardIsSound, OneFile, FailureSeen, Dead, model

LEMMA StepLoadModel ==
  ASSUME IInv, NEW p \in Paths, JsLoadModel(p)
  PROVE  IInv'
<1>1. CASE AfterDestroy("loadModel", p)
  BY <1>1, WithoutLibrary, LibraryUntouched DEF model
<1>2. CASE handle /\ \E ok \in BOOLEAN : /\ LoadModel(p, ok) /\ ready' = ReadyAfterLoad(ok)
                                        /\ Reply("loadModel", p, IF ok THEN "true" ELSE "false", <<>>)
  <2>1. PICK ok \in BOOLEAN : /\ LoadModel(p, ok) /\ ready' = ok
                              /\ reply'.kind = IF ok THEN "true" ELSE "false"
    BY <1>2 DEF ReadyAfterLoad, Reply
  <2>2. UNCHANGED handle
    BY <1>2 DEF JsLoadModel, AfterDestroy
  <2>3. p # None
    BY PathsAssumption
  <2>4. CASE MayOpen
    <3>1. /\ ok = Passes(p, "fields") /\ file' = p
          /\ core' = IF Passes(p, "dictionary") THEN p ELSE core
          /\ analyzer' = IF Passes(p, "analyzer") THEN p ELSE analyzer
          /\ initialized' = (initialized \/ ok)
          /\ error' = IF ok THEN error ELSE FailsAt[p]
      BY <2>1, <2>4 DEF LoadModel
    <3>2. file = None /\ core = None /\ analyzer = None /\ ~initialized
      BY <2>4 DEF MayOpen, IInv, OneFile
    <3>3. CASE ok
      <4>1. /\ core' = p /\ analyzer' = p /\ FailsAt[p] = "none"
            /\ initialized' /\ error' = error
        BY <3>1, <3>3, LoadedToTheEnd
      <4>2. GuardIsSound'
        BY <4>1, <2>3 DEF IInv, GuardIsSound
      <4>. QED
        BY <1>2, <2>1, <2>2, <2>3, <3>1, <3>3, <4>1, <4>2 DEF IInv, OneFile, FailureSeen
    <3>4. CASE ~ok
      <4>1. ~initialized' /\ ~ready' /\ error' = FailsAt[p] /\ core' \in {p, None}
        BY <2>1, <3>1, <3>2, <3>4
      <4>2. GuardIsSound'
        BY <4>1, NoStageIsMissing DEF GuardIsSound
      <4>. QED
        BY <2>3, <3>1, <4>1, <4>2 DEF IInv, OneFile, FailureSeen, Dead
    <3>. QED
      BY <3>3, <3>4
  <2>5. CASE ~MayOpen
    <3>1. ok = FALSE /\ error' = "already opened" /\ UNCHANGED model
      BY <2>1, <2>5 DEF LoadModel
    <3>2. ~ready' /\ file # None
      BY <2>1, <2>5, <3>1 DEF MayOpen
    <3>. QED
      BY <3>1, <3>2 DEF IInv, GuardIsSound, OneFile, FailureSeen, Dead, model
  <2>. QED
    BY <2>4, <2>5
<1>. QED
  BY <1>1, <1>2 DEF JsLoadModel

\* analyze and analyzeRuby.
LEMMA StepAnalyze ==
  ASSUME IInv, NEW s \in Sentences, JsAnalyze(s) \/ JsAnalyzeRuby(s)
  PROVE  IInv' /\ reply'.kind # "false"
<1>1. CASE Answered("analyze", s) \/ Answered("analyzeRuby", s)
  <2>1. UNCHANGED <<file, core, analyzer, initialized, error, handle, ready>> /\ reply'.kind # "false"
    BY <1>1, WithoutLibrary
  <2>. QED
    BY <2>1, LibraryUntouched DEF model
<1>2. CASE /\ ready /\ UNCHANGED <<handle, ready, native>>
           /\ \E ok \in BOOLEAN : /\ Analysis(s, ok)
                                 /\ reply'.kind \in {"words", "null"}
  <2>1. PICK ok \in BOOLEAN : Analysis(s, ok) /\ reply'.kind \in {"words", "null"}
    BY <1>2
  <2>2. initialized /\ error # "not initialized"
    BY <1>2 DEF IInv, GuardIsSound
  <2>3. UNCHANGED model /\ error' # "not initialized"
    BY <2>1, <2>2, AnalysisKeepsModel
  <2>4. reply'.kind # "false"
    BY <2>1
  <2>. QED
    BY <1>2, <2>2, <2>3, <2>4 DEF IInv, GuardIsSound, OneFile, FailureSeen, model
<1>3. Answered("analyze", s) \/ Answered("analyzeRuby", s) \/
      /\ ready /\ UNCHANGED <<handle, ready, native>>
      /\ \E ok \in BOOLEAN : Analysis(s, ok) /\ reply'.kind \in {"words", "null"}
  BY DEF JsAnalyze, JsAnalyzeRuby, Analyze, AnalyzeRuby, ReplyWords, Reply
<1>. QED
  BY <1>1, <1>2, <1>3

LEMMA StepOther ==
  ASSUME IInv, JsGetError \/ JsDestroy \/ Collect \/ UNCHANGED vars
  PROVE  IInv'
<1>1. CASE JsGetError
  BY <1>1, LibraryUntouched DEF JsGetError, AfterDestroy, Reply, libVars, model
<1>2. CASE JsDestroy
  <2>1. /\ UNCHANGED libVars /\ handle' = FALSE /\ ~ready' /\ reply'.kind = "undefined"
    BY <1>2 DEF JsDestroy, Reply, IInv, OneFile
  <2>. QED
    BY <2>1 DEF IInv, GuardIsSound, OneFile, FailureSeen, libVars
<1>3. CASE Collect
  BY <1>3, LibraryUntouched DEF Collect, libVars, model
<1>4. CASE UNCHANGED vars
  BY <1>4, LibraryUntouched DEF vars, addonVars, libVars, model
<1>. QED
  BY <1>1, <1>2, <1>3, <1>4

LEMMA Inductive == IInv /\ [Next]_vars => IInv'
BY StepLoadModel, StepAnalyze, StepOther DEF Next

\* Nothing revives an instance whose load failed.
LEMMA DeadStaysDead == IInv /\ Dead /\ NoAnswer /\ [Next]_vars => (Dead /\ NoAnswer)'
<1>. SUFFICES ASSUME IInv, Dead, NoAnswer, [Next]_vars PROVE (Dead /\ NoAnswer)'
  OBVIOUS
<1>1. ASSUME NEW p \in Paths, JsLoadModel(p) PROVE (Dead /\ NoAnswer)'
  <2>1. CASE AfterDestroy("loadModel", p)
    BY <2>1, WithoutLibrary DEF Dead, NoAnswer
  <2>2. CASE \E ok \in BOOLEAN : /\ LoadModel(p, ok) /\ ready' = ReadyAfterLoad(ok)
                                /\ Reply("loadModel", p, IF ok THEN "true" ELSE "false", <<>>)
    <3>1. PICK ok \in BOOLEAN : /\ LoadModel(p, ok) /\ ready' = ok
                                /\ reply'.kind = IF ok THEN "true" ELSE "false"
      BY <2>2 DEF ReadyAfterLoad, Reply
    <3>2. ok = FALSE /\ UNCHANGED model
      BY <3>1 DEF LoadModel, MayOpen, Dead
    <3>. QED
      BY <3>1, <3>2 DEF model, Dead, NoAnswer
  <2>. QED
    BY <1>1, <2>1, <2>2 DEF JsLoadModel
<1>2. ASSUME NEW s \in Sentences, JsAnalyze(s) \/ JsAnalyzeRuby(s) PROVE (Dead /\ NoAnswer)'
  <2>1. Answered("analyze", s) \/ Answered("analyzeRuby", s)
    BY <1>2 DEF JsAnalyze, JsAnalyzeRuby, Dead
  <2>. QED
    BY <2>1, WithoutLibrary DEF Dead, NoAnswer
<1>3. CASE JsGetError
  BY <1>3 DEF JsGetError, AfterDestroy, Reply, libVars, Dead, NoAnswer
<1>4. CASE JsDestroy
  BY <1>4 DEF JsDestroy, Reply, libVars, Dead, NoAnswer
<1>5. CASE Collect \/ UNCHANGED vars
  BY <1>5 DEF Collect, vars, addonVars, libVars, Dead, NoAnswer
<1>. QED
  BY <1>1, <1>2, <1>3, <1>4, <1>5 DEF Next
-----------------------------------------------------------------------------
\* The surfaces of words, and what they spell with one more.
Surfaces(words) == [i \in DOMAIN words |-> words[i].surface]

LEMMA SpellingOneMore ==
  ASSUME NEW C, NEW W, \A w \in W : w.surface \in Seq(C),
         NEW words \in Seq(W), NEW w \in W
  PROVE  Spelling(Append(words, w)) = Spelling(words) \o w.surface
<1>. DEFINE p == Append(words, w)
            q == Surfaces(words)
<1>1. /\ p \in Seq(W) /\ Len(p) = Len(words) + 1 /\ Len(words) \in Nat
      /\ p[Len(words) + 1] = w /\ \A k \in 1 .. Len(words) : p[k] = words[k]
  BY AppendedOne
<1>2. q \in Seq(Seq(C)) /\ Len(q) = Len(words) /\ \A k \in 1 .. Len(words) : q[k] = words[k].surface
  <2>1. \A k \in 1 .. Len(words) : words[k].surface \in Seq(C)
    OBVIOUS
  <2>2. q = [i \in 1 .. Len(words) |-> words[i].surface]
    BY <1>1 DEF Surfaces
  <2>. DEFINE S == Seq(C)
  <2>3. q \in Seq(S) /\ Len(q) = Len(words) /\ \A k \in 1 .. Len(words) : q[k] = words[k].surface
    <3>. HIDE DEF S, q
    <3>. QED
      BY <1>1, <2>1, <2>2 DEF S
  <2>. QED
    BY <2>3
<1>3. Surfaces(p) = Append(q, w.surface)
  <2>1. /\ Append(q, w.surface) \in Seq(Seq(C)) /\ Len(Append(q, w.surface)) = Len(q) + 1
        /\ Append(q, w.surface)[Len(q) + 1] = w.surface
        /\ \A k \in 1 .. Len(q) : Append(q, w.surface)[k] = q[k]
    BY <1>2, AppendedOne
  <2>. DEFINE r == Append(q, w.surface)
  <2>2. DOMAIN r = 1 .. Len(words) + 1 /\ r = [i \in DOMAIN r |-> r[i]]
    BY <1>2, <2>1
  <2>3. Surfaces(p) = [i \in 1 .. Len(words) + 1 |-> p[i].surface]
    BY <1>1 DEF Surfaces
  <2>4. \A i \in 1 .. Len(words) + 1 : i \in 1 .. Len(words) \/ i = Len(words) + 1
    BY <1>1
  <2>5. \A i \in 1 .. Len(words) + 1 : p[i].surface = r[i]
    BY <1>1, <1>2, <2>1, <2>4
  <2>. HIDE DEF r, p
  <2>. QED
    BY <2>2, <2>3, <2>5 DEF r
<1>4. FlattenSeq(Append(q, w.surface)) = FlattenSeq(q) \o w.surface
  BY <1>2, FlattenOneMore
<1>. QED
  BY <1>3, <1>4 DEF Spelling, Surfaces

LEMMA SubSeqsJoin ==
  ASSUME NEW C, NEW s \in Seq(C), NEW i \in 0 .. Len(s), NEW k \in Nat, i + k <= Len(s)
  PROVE  SubSeq(s, 1, i) \o SubSeq(s, i + 1, i + k) = SubSeq(s, 1, i + k)
OBVIOUS

\* The words of a path that are written with characters of s.
Chars(s) == {s[k] : k \in DOMAIN s}
WordsIn(s) ==
  {w \in UNION {{TopPath[s][k][j] : j \in DOMAIN TopPath[s][k]} : k \in DOMAIN TopPath[s]} :
     w.surface \in Seq(Chars(s))}

\* Where the walk over the path of s may stand: what the words it took spell is
\* the text before its cursor.
Taken(s) ==
  {at \in [cursor : 0 .. Len(s), words : Seq(WordsIn(s))] :
     Spelling(at.words) = SubSeq(s, 1, at.cursor)}

\* One turn of the walk, for chunk k of the path.
Here(s, k, at) == {j \in DOMAIN TopPath[s][k] : Matches(s, at.cursor, TopPath[s][k][j])}
TakeFirst(s, k, at) ==
  LET w == TopPath[s][k][Min(Here(s, k, at))]
  IN  IF Here(s, k, at) = {} THEN at
      ELSE [cursor |-> at.cursor + Len(w.surface), words |-> Append(at.words, w)]

LEMMA SentenceText ==
  ASSUME NEW s \in Sentences
  PROVE  s \in Seq(Chars(s)) /\ Len(s) \in Nat
BY TextAssumption DEF IsSequence, Chars

LEMMA TakesText ==
  ASSUME NEW s \in Sentences \ Refused, NEW k \in DOMAIN TopPath[s], NEW at \in Taken(s)
  PROVE  TakeFirst(s, k, at) \in Taken(s)
<1>. DEFINE chunk == TopPath[s][k]
            here == Here(s, k, at)
            j == Min(here)
            w == chunk[j]
<1>. SUFFICES ASSUME here # {} PROVE TakeFirst(s, k, at) \in Taken(s)
  BY DEF TakeFirst
<1>1. IsSequence(chunk) /\ \A i \in DOMAIN chunk : IsSequence(chunk[i].surface)
  BY TextAssumption
<1>2. here \subseteq Nat
  <2>1. chunk \in Seq({chunk[i] : i \in DOMAIN chunk})
    BY <1>1 DEF IsSequence
  <2>2. DOMAIN chunk = 1 .. Len(chunk) /\ Len(chunk) \in Nat
    BY <2>1
  <2>. QED
    BY <2>2 DEF Here
<1>3. j \in here
  <2>1. \E m \in here : \A i \in here : m <= i
    BY <1>2, LeastNumber
  <2>. QED
    BY <2>1 DEF Min
<1>4. /\ j \in DOMAIN chunk /\ IsSequence(w.surface)
      /\ at.cursor + Len(w.surface) <= Len(s)
      /\ SubSeq(s, at.cursor + 1, at.cursor + Len(w.surface)) = w.surface
  BY <1>1, <1>3 DEF Here, Matches
<1>5. /\ s \in Seq(Chars(s)) /\ Len(s) \in Nat
      /\ at.cursor \in 0 .. Len(s) /\ at.words \in Seq(WordsIn(s))
      /\ Spelling(at.words) = SubSeq(s, 1, at.cursor)
  BY SentenceText DEF Taken
<1>6. Len(w.surface) \in Nat
  BY <1>4 DEF IsSequence
<1>7. w \in WordsIn(s)
  <2>. DEFINE q == w.surface
  <2>1. q \in Seq(Chars(s))
    <3>. HIDE DEF q
    <3>1. \A i \in 0 .. Len(s), l \in Nat : i + l <= Len(s) => SubSeq(s, i + 1, i + l) \in Seq(Chars(s))
      BY <1>5
    <3>. QED
      BY <3>1, <1>4, <1>5, <1>6 DEF q
  <2>. QED
    BY <1>4, <2>1 DEF WordsIn
<1>8. Spelling(Append(at.words, w)) = SubSeq(s, 1, at.cursor + Len(w.surface))
  <2>1. Spelling(Append(at.words, w)) = Spelling(at.words) \o w.surface
    <3>1. \A x \in WordsIn(s) : x.surface \in Seq(Chars(s))
      BY DEF WordsIn
    <3>2. PICK q \in Seq(WordsIn(s)), x \in WordsIn(s) : q = at.words /\ x = w
      BY <1>5, <1>7
    <3>3. Spelling(Append(q, x)) = Spelling(q) \o x.surface
      BY <3>1, SpellingOneMore
    <3>. HIDE DEF w
    <3>. QED
      BY <3>2, <3>3
  <2>. HIDE DEF w
  <2>. QED
    BY <1>4, <1>5, <1>6, <2>1, SubSeqsJoin
<1>9. Append(at.words, w) \in Seq(WordsIn(s))
  <2>. HIDE DEF w
  <2>. QED
    BY <1>5, <1>7, AppendedOne
<1>10. at.cursor + Len(w.surface) \in 0 .. Len(s)
  BY <1>4, <1>5, <1>6
<1>11. TakeFirst(s, k, at) = [cursor |-> at.cursor + Len(w.surface), words |-> Append(at.words, w)]
  BY DEF TakeFirst
<1>12. PICK c, words :
         /\ c = at.cursor + Len(w.surface) /\ words = Append(at.words, w)
         /\ c \in 0 .. Len(s) /\ words \in Seq(WordsIn(s)) /\ Spelling(words) = SubSeq(s, 1, c)
  BY <1>8, <1>9, <1>10
<1>13. [cursor |-> c, words |-> words] \in Taken(s)
  BY <1>12 DEF Taken
<1>. HIDE DEF w
<1>. QED
  BY <1>11, <1>12, <1>13

LEMMA WalkSpells ==
  ASSUME NEW s \in Sentences \ Refused
  PROVE  Walk(s, TopPath[s]) \in Taken(s)
<1>. DEFINE chunks == TopPath[s]
            m == Len(chunks)
            start == [cursor |-> 0, words |-> <<>>]
            G == [p \in (1 .. m) \X Taken(s) |-> TakeFirst(s, p[1], p[2])]
            Eq(f) == f = [k \in 0 .. m |-> IF k = 0 THEN start ELSE TakeFirst(s, k, f[k - 1])]
<1>1. m \in Nat /\ DOMAIN chunks = 1 .. m
  <2>1. chunks \in Seq({chunks[k] : k \in DOMAIN chunks})
    BY TextAssumption DEF IsSequence
  <2>. QED
    BY <2>1
<1>2. start \in Taken(s)
  <2>1. s \in Seq(Chars(s)) /\ Len(s) \in Nat /\ 0 \in 0 .. Len(s)
    BY SentenceText
  <2>2. SubSeq(s, 1, 0) = <<>>
    BY <2>1
  <2>3. Spelling(<<>>) = <<>>
    BY DEF Spelling, FlattenSeq
  <2>4. <<>> \in Seq(WordsIn(s))
    BY EmptySeq
  <2>. QED
    BY <2>1, <2>2, <2>3, <2>4 DEF Taken
<1>3. G \in [(1 .. m) \X Taken(s) -> Taken(s)]
  BY <1>1, TakesText
<1>4. PICK g \in [0 .. m -> Taken(s)] : IsRecursive(g, m, start, G)
  <2>. HIDE DEF G, start, m
  <2>. QED
    BY <1>1, <1>2, <1>3, RecursionExists
<1>5. Eq(g)
  <2>1. \A k \in 0 .. m : k # 0 => <<k, g[k - 1]>> \in (1 .. m) \X Taken(s)
    <3>1. \A k \in 0 .. m : k # 0 => k - 1 \in 0 .. m /\ k \in 1 .. m
      BY <1>1
    <3>. HIDE DEF G, m
    <3>. QED
      BY <1>4, <3>1
  <2>2. \A k \in 0 .. m : k # 0 => G[<<k, g[k - 1]>>] = TakeFirst(s, k, g[k - 1])
    BY <2>1
  <2>3. g = [k \in 0 .. m |-> IF k = 0 THEN start ELSE G[<<k, g[k - 1]>>]]
    BY <1>4 DEF IsRecursive
  <2>. HIDE DEF G, start
  <2>. QED
    BY <2>2, <2>3
<1>. DEFINE f == CHOOSE h : Eq(h)
<1>6. Eq(f)
  BY <1>5
<1>7. Walk(s, chunks) = f[m]
  BY DEF Walk, TakeFirst, Here
<1>8. AlikeUpTo(f, g, m)
  <2>1. \A k \in 0 .. m : /\ f[k] = IF k = 0 THEN start ELSE TakeFirst(s, k, f[k - 1])
                          /\ g[k] = IF k = 0 THEN start ELSE TakeFirst(s, k, g[k - 1])
    <3>. HIDE DEF f, start
    <3>. QED
      BY <1>5, <1>6
  <2>2. f[0] = g[0] /\ GoOnAlike(f, g, m)
    <3>. HIDE DEF f, start, m
    <3>1. 0 \in 0 .. m /\ \A k \in 1 .. m : k \in 0 .. m /\ k # 0
      BY <1>1
    <3>. QED
      BY <2>1, <3>1 DEF GoOnAlike
  <2>. HIDE DEF f, m
  <2>. QED
    BY <1>1, <2>2, SameRecursion
<1>9. m \in 0 .. m
  BY <1>1
<1>10. f[m] = g[m]
  <2>. HIDE DEF f, m
  <2>. QED
    BY <1>8, <1>9 DEF AlikeUpTo
<1>11. g[m] \in Taken(s)
  <2>. HIDE DEF m
  <2>. QED
    BY <1>4, <1>9
<1>. HIDE DEF f, m
<1>. QED
  BY <1>7, <1>10, <1>11
-----------------------------------------------------------------------------
\* What an analysis that succeeds leaves in result_ spells its sentence, and
\* for a sentence with a character in it the path is not empty.
LEMMA AnalysisSpells ==
  ASSUME NEW s \in Sentences, s # <<>>, NEW ok \in BOOLEAN, Analysis(s, ok), defined
  PROVE  defined' /\ (ok => Spelling(result') = s)
<1>1. CASE NotInitialized(ok)
  BY <1>1 DEF NotInitialized
<1>2. CASE AnalysisFails(s, ok)
  BY <1>2 DEF AnalysisFails
<1>3. CASE AnalysisEnds(s, ok)
  <2>. DEFINE end == Walk(s, TopPath[s])
  <2>1. s \in Sentences \ Refused /\ defined' = defined
    BY <1>3 DEF AnalysisEnds
  <2>2. ok => end.cursor = Len(s) /\ result' = end.words
    BY <1>3 DEF AnalysisEnds, ResultOf
  <2>3. /\ Spelling(end.words) = SubSeq(s, 1, end.cursor)
        /\ SubSeq(s, 1, Len(s)) = s
    <3>1. s \in Seq(Chars(s))
      BY SentenceText
    <3>2. SubSeq(s, 1, Len(s)) = s
      BY <3>1
    <3>. QED
      BY <2>1, <3>2, WalkSpells DEF Taken
  <2>. HIDE DEF end
  <2>. QED
    BY <2>1, <2>2, <2>3
<1>4. CASE ReadsOutside(s)
  BY <1>4, TextAssumption DEF ReadsOutside, StopsInside
<1>. QED
  BY <1>1, <1>2, <1>3, <1>4 DEF Analysis

SInv == NeverReadsOutside /\ AnswersSpellTheSentence

LEMMA SpellingInitially == Init => SInv
BY DEF Init, FreshLib, SInv, NeverReadsOutside, AnswersSpellTheSentence

\* Calls that leave the library alone answer without words.
LEMMA NoWords ==
  ASSUME SInv, UNCHANGED defined, reply'.kind # "words" \/ UNCHANGED reply
  PROVE  SInv'
BY DEF SInv, NeverReadsOutside, AnswersSpellTheSentence, Spelling

LEMMA WithoutLibraryNoWords ==
  ASSUME SInv, NEW call, NEW arg, AfterDestroy(call, arg) \/ Answered(call, arg)
  PROVE  SInv'
<1>1. UNCHANGED defined
  BY DEF AfterDestroy, Answered, libVars
<1>2. reply'.kind # "words"
  BY WithoutLibrary
<1>. QED
  BY <1>1, <1>2, NoWords

LEMMA SpellingStep == SInv /\ [Next]_vars => SInv'
<1>. SUFFICES ASSUME SInv, [Next]_vars PROVE SInv'
  OBVIOUS
<1>1. ASSUME NEW p \in Paths, JsLoadModel(p) PROVE SInv'
  <2>1. CASE AfterDestroy("loadModel", p)
    BY <2>1, WithoutLibraryNoWords
  <2>2. CASE \E ok \in BOOLEAN : /\ LoadModel(p, ok)
                                /\ Reply("loadModel", p, IF ok THEN "true" ELSE "false", <<>>)
    <3>1. PICK ok \in BOOLEAN : LoadModel(p, ok) /\ Reply("loadModel", p, IF ok THEN "true" ELSE "false", <<>>)
      BY <2>2
    <3>2. UNCHANGED defined
      BY <3>1 DEF LoadModel, answers
    <3>3. reply'.kind = IF ok THEN "true" ELSE "false"
      BY <3>1 DEF Reply
    <3>. QED
      BY <3>2, <3>3, NoWords
  <2>. QED
    BY <1>1, <2>1, <2>2 DEF JsLoadModel
<1>2. ASSUME NEW s \in Sentences, NEW call, NEW ok \in BOOLEAN, NEW words,
             s # <<>>, Analysis(s, ok), ReplyWords(call, s, ok, words), ok => words = result'
      PROVE  SInv'
  <2>1. defined' /\ (ok => Spelling(result') = s)
    BY <1>2, AnalysisSpells DEF SInv, NeverReadsOutside
  <2>2. CASE ok
    <3>1. reply' = [call |-> call, arg |-> s, kind |-> "words", value |-> words]
      BY <1>2, <2>2 DEF ReplyWords, Reply
    <3>2. reply'.arg = s /\ reply'.value = words
      BY <3>1
    <3>3. Spelling(reply'.value) = s
      BY <1>2, <2>1, <2>2, <3>2
    <3>4. Spelling(reply.value)' = Spelling(reply'.value)
      BY DEF Spelling
    <3>5. AnswersSpellTheSentence'
      BY <3>2, <3>3, <3>4 DEF AnswersSpellTheSentence
    <3>. QED
      BY <2>1, <3>5 DEF SInv, NeverReadsOutside
  <2>3. CASE ~ok
    <3>1. reply'.kind = "null"
      BY <1>2, <2>3 DEF ReplyWords, Reply
    <3>. QED
      BY <2>1, <3>1 DEF SInv, NeverReadsOutside, AnswersSpellTheSentence
  <2>. QED
    BY <2>2, <2>3
<1>3. ASSUME NEW s \in Sentences, JsAnalyze(s) PROVE SInv'
  <2>1. CASE Answered("analyze", s)
    BY <2>1, WithoutLibraryNoWords
  <2>2. CASE ~Refuses(s) /\ \E ok \in BOOLEAN : Analyze(s, ok) /\ ReplyWords("analyze", s, ok, result')
    BY <2>2, <1>2 DEF Refuses, Analyze
  <2>. QED
    BY <1>3, <2>1, <2>2 DEF JsAnalyze
<1>4. ASSUME NEW s \in Sentences, JsAnalyzeRuby(s) PROVE SInv'
  <2>1. CASE Answered("analyzeRuby", s)
    BY <2>1, WithoutLibraryNoWords
  <2>2. CASE ~Refuses(s) /\ \E ok \in BOOLEAN : AnalyzeRuby(s, ok) /\ ReplyWords("analyzeRuby", s, ok, rubyResult')
    BY <2>2, <1>2 DEF Refuses, AnalyzeRuby
  <2>. QED
    BY <1>4, <2>1, <2>2 DEF JsAnalyzeRuby
<1>5. CASE JsGetError
  <2>1. UNCHANGED defined /\ reply'.kind # "words"
    BY <1>5 DEF JsGetError, AfterDestroy, Reply, libVars
  <2>. QED
    BY <2>1, NoWords
<1>6. CASE JsDestroy
  <2>1. UNCHANGED defined /\ reply'.kind # "words"
    BY <1>6 DEF JsDestroy, Reply, libVars
  <2>. QED
    BY <2>1, NoWords
<1>7. CASE Collect \/ UNCHANGED vars
  BY <1>7, NoWords DEF Collect, vars, addonVars, libVars
<1>. QED
  BY <1>1, <1>3, <1>4, <1>5, <1>6, <1>7 DEF Next
-----------------------------------------------------------------------------
\* JumanLRCAddon::LoadModel, addon.cc:89: in every order of calls, whichever
\* files fail at whichever stage, the addon's flag implies that the library
\* has an analyzer made from the core the environment holds.
THEOREM GuardSound == Spec => []GuardIsSound
<1>1. IInv => GuardIsSound
  BY DEF IInv
<1>. QED
  BY <1>1, Initially, Inductive, PTL DEF Spec

\* JumanLRCAddon::LoadModel: an instance one load of which has failed never
\* answers an analysis or loads again.
THEOREM FailureFinal == Spec => FailedLoadIsFinal
<1>1. IInv => (reply.kind = "false" => Dead /\ NoAnswer)
  BY DEF IInv, FailureSeen, NoAnswer
<1>2. NoAnswer <=> reply.kind \notin {"words", "null", "true"}
  BY DEF NoAnswer
<1>. QED
  BY <1>1, <1>2, Initially, Inductive, DeadStaysDead, PTL DEF Spec, FailedLoadIsFinal

\* Wrapper and addon: because index.js refuses an empty sentence, no sequence
\* of calls makes the iteration over the best path read a position it never
\* set, whatever the best paths are.
THEOREM PathIsRead == Spec => []NeverReadsOutside
<1>1. SInv => NeverReadsOutside
  BY DEF SInv
<1>. QED
  BY <1>1, SpellingInitially, SpellingStep, PTL DEF Spec

\* analyze and analyzeRuby of the addon: the words of an answer, put together,
\* are exactly the sentence of the call they answer, however many loads and
\* analyses failed before and whatever the best paths are.
THEOREM AnswersSpell == Spec => []AnswersSpellTheSentence
<1>1. SInv => AnswersSpellTheSentence
  BY DEF SInv
<1>. QED
  BY <1>1, SpellingInitially, SpellingStep, PTL DEF Spec
=============================================================================
