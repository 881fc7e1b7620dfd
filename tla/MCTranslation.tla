---------------------------- MODULE MCTranslation ---------------------------
(* Translation for TLC: every pair of formats the router pivots between.   *)
EXTENDS Translation

MCUpstreams == {"openai", "kiro", "claude", "gemini", "ollama", "commandcode",
                "responses"}
MCClients == {"openai", "claude", "responses", "antigravity"}
=============================================================================
