\* Every pair of dialects: replies streamed, whole and raw, with up to four pieces
\* and two calls; conversations of up to six messages.
CONSTANTS
  Upstreams = {"openai", "anthropic", "responses", "ollama", "commandcode"}
  Clients = {"openai", "anthropic", "responses", "ollama"}
  Modes = {"stream", "whole", "raw"}
  Events = 4
  Calls = 2
  Askers = {"openai", "anthropic", "responses", "ollama"}
  Providers = {"openai", "anthropic", "responses", "ollama", "commandcode"}
  AskedEfforts = {"none", "low", "xhigh"}
  AskedBudgets = {0, 5000}
  AskedMax = {0, 10000}
  Turns = 6
SPECIFICATION MCSpec
CHECK_DEADLOCK FALSE
INVARIANTS Faithful BlocksNest CutShown UsageNoted NothingLost ResultsFollow ThinkingFits
PROPERTY PrefixKept
