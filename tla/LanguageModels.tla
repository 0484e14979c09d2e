---------------------------- MODULE LanguageModels ----------------------------
(***************************************************************************)
(* Which language models a text goes to, and in which order: polish_digest *)
(* and call_llm of brain/llm.py, the local model of brain/llm_local.py and *)
(* the worker's llm_generate handler that tries it first.  Settings are a  *)
(* record: what the proxy's URL is (none, one that is refused, or a good   *)
(* one), demo mode, the configured models of Gemini if there is a key, and *)
(* whether there is a key for Groq.                                        *)
(***************************************************************************)
EXTENDS Integers, Sequences

Proxy == "proxy"
Groq == "groq"
Local == "ollama"
Raw == "raw"          \* no provider: the text as it is
NoText == "none"

ProxyConfigured(s) == s.proxy # "none"

\* _call_proxy: neither plain http nor an address inside the network.
ProxyAllowed(s) == s.proxy = "good"

\* call_llm leaves out the best model unless quality is preferred and if there is
\* another one.
GeminiModels(s, quality) == IF quality \/ Len(s.models) <= 1 THEN s.models ELSE Tail(s.models)

DirectProviders(s, quality) == GeminiModels(s, quality) \o (IF s.groq THEN <<Groq>> ELSE <<>>)

\* Slip: demo mode does not end the chain.
CloudChainOpen(s, quality) ==
  (IF ProxyConfigured(s) THEN <<Proxy>> ELSE <<>>) \o DirectProviders(s, quality)

\* With a proxy, demo mode ends the chain there.
CloudChain(s, quality) ==
  IF ProxyConfigured(s)
  THEN <<Proxy>> \o (IF s.demo THEN <<>> ELSE DirectProviders(s, quality))
  ELSE DirectProviders(s, quality)

\* LocalLLMClient refuses plain http to another host, and is asked whether it has the
\* model before it is used.
LocalUsable(s) == s.local

\* _handle_llm_generate: then it goes on to the cloud.
GenerateChain(s, useLocal) == (IF useLocal /\ LocalUsable(s) THEN <<Local>> ELSE <<>>) \o CloudChain(s, FALSE)

\* What a call returns: a text, or None - an error, a limit, an answer without a text.
\* A proxy that is not allowed is not asked at all.
ProxyReturns(s) == IF ProxyAllowed(s) THEN {Proxy, NoText} ELSE {NoText}
GroqReturns == {Groq, NoText}
GeminiReturns(model) == {model, NoText}
LocalReturns == {Local, NoText}

Returns(s, provider) ==
  IF provider = Proxy THEN ProxyReturns(s)
  ELSE IF provider = Groq THEN GroqReturns
  ELSE IF provider = Local THEN LocalReturns
  ELSE GeminiReturns(provider)
==============================================================================
