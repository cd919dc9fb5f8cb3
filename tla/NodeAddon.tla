------------------------------ MODULE NodeAddon ------------------------------
(***************************************************************************)
(* The Node binding: class JumanLRC of node/index.js over the native       *)
(* JumanLRCAddon of node/src/addon.cc, which owns a JumanppLib.  Every     *)
(* call is synchronous.  The native object lives until the collector finds *)
(* no reference to it.                                                     *)
(***************************************************************************)
EXTENDS JumanppLib

VARIABLES
  handle,   \* index.js _handle is not null
  ready,    \* initialized_ of the addon
  native,   \* the native object and its JumanppLib exist
  reply     \* the last call, its argument and what came of it

addonVars == <<handle, ready, native, reply>>
vars == <<libVars, addonVars>>

\* What a call returns or throws: words or null, true or false, an error
\* message, nothing; or a TypeError, the addon's "Model not loaded. Call
\* loadModel() first." or the wrapper's "sentence must be a non-empty string".
Reply(call, arg, kind, value) ==
  reply' = [call |-> call, arg |-> arg, kind |-> kind, value |-> value]
-----------------------------------------------------------------------------
Init ==
  /\ FreshLib
  /\ handle = TRUE /\ native = TRUE /\ ready = FALSE
  /\ reply = [call |-> "constructor", arg |-> <<>>, kind |-> "undefined", value |-> <<>>]

\* A method of an instance whose _handle is null throws.
AfterDestroy(call, arg) ==
  /\ ~handle
  /\ Reply(call, arg, "TypeError", <<>>)
  /\ UNCHANGED <<libVars, handle, ready, native>>

ReadyOnceLoaded(ok) == ready \/ ok  \* mutant: a later failure does not count

\* LoadModel assigns the library's answer to initialized_.
ReadyAfterLoad(ok) == ok

JsLoadModel(p) ==
  \/ AfterDestroy("loadModel", p)
  \/ /\ handle
     /\ \E ok \in BOOLEAN :
          /\ LoadModel(p, ok)
          /\ ready' = ReadyAfterLoad(ok)
          /\ Reply("loadModel", p, IF ok THEN "true" ELSE "false", <<>>)
     /\ UNCHANGED <<handle, native>>

RefusesNothing(s) == FALSE   \* mutant: an empty sentence is passed on

\* index.js refuses an empty sentence before it looks at the handle.
Refuses(s) == s = <<>>

\* The answers that do not reach the library.
Answered(call, s) ==
  \/ /\ Refuses(s)
     /\ Reply(call, s, "empty sentence", <<>>)
     /\ UNCHANGED <<libVars, handle, ready, native>>
  \/ ~Refuses(s) /\ AfterDestroy(call, s)
  \/ /\ ~Refuses(s) /\ handle /\ ~ready
     /\ Reply(call, s, "not loaded", <<>>)
     /\ UNCHANGED <<libVars, handle, ready, native>>

ReplyWords(call, s, ok, words) ==
  IF ok THEN Reply(call, s, "words", words) ELSE Reply(call, s, "null", <<>>)

JsAnalyze(s) ==
  \/ Answered("analyze", s)
  \/ /\ ~Refuses(s) /\ handle /\ ready
     /\ \E ok \in BOOLEAN : Analyze(s, ok) /\ ReplyWords("analyze", s, ok, result')
     /\ UNCHANGED <<handle, ready, native>>

JsAnalyzeRuby(s) ==
  \/ Answered("analyzeRuby", s)
  \/ /\ ~Refuses(s) /\ handle /\ ready
     /\ \E ok \in BOOLEAN : AnalyzeRuby(s, ok) /\ ReplyWords("analyzeRuby", s, ok, rubyResult')
     /\ UNCHANGED <<handle, ready, native>>

JsGetError ==
  \/ AfterDestroy("getError", <<>>)
  \/ /\ handle
     /\ Reply("getError", <<>>, "message", error)
     /\ UNCHANGED <<libVars, handle, ready, native>>

\* destroy only lowers the flag and drops the reference.
JsDestroy ==
  /\ Reply("destroy", <<>>, "undefined", <<>>)
  /\ handle' = FALSE
  /\ ready' = (ready /\ ~handle)
  /\ UNCHANGED <<libVars, native>>

\* The collector runs the destructor of an object nothing refers to.
Collect ==
  /\ ~handle /\ native
  /\ native' = FALSE
  /\ UNCHANGED <<libVars, handle, ready, reply>>

Next ==
  \/ \E p \in Paths : JsLoadModel(p)
  \/ \E s \in Sentences : JsAnalyze(s) \/ JsAnalyzeRuby(s)
  \/ JsGetError \/ JsDestroy \/ Collect

Spec == Init /\ [][Next]_vars
-----------------------------------------------------------------------------
\* loadModel, addon.cc:89: the flag of the addon never says more than the
\* library, so no call reaches a library without an analyzer, and the
\* analyzer's core is the one the environment holds.
GuardIsSound ==
  /\ ready => initialized
  /\ initialized => core # None /\ analyzer = core /\ FailsAt[core] = "none"
  /\ error # "not initialized"

\* analyze, index.js:65: the wrapper keeps empty sentences from the path
\* iteration that reads an unset position for them.
NeverReadsOutside == defined

Spelling(words) == FlattenSeq([i \in DOMAIN words |-> words[i].surface])

\* analyze and analyzeRuby, addon.cc:105: the words a call answers with spell
\* the sentence of that very call, whatever calls succeeded or failed before.
AnswersSpellTheSentence == reply.kind = "words" => Spelling(reply.value) = reply.arg

\* loadModel: an instance one load of which has failed never analyses
\* anything, neither after another load nor if a model was loaded before.
FailedLoadIsFinal == [](reply.kind = "false" => [](reply.kind \notin {"words", "null", "true"}))
=============================================================================
