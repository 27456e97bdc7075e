----------------------------- MODULE Providers -----------------------------
(***************************************************************************)
(* Which provider a deployment's setting selects, with which model name,   *)
(* and what each provider makes of a prompt and of the calls in a reply.   *)
(* OpenAI's formatter is in module Prompt.                                 *)
(*                                                                         *)
(* What the APIs accept is known from outside the repository, and only as  *)
(* much of it is stated as the code's own shapes can offend against.       *)
(***************************************************************************)
EXTENDS Prompt

CONSTANTS
    Setting,    \* settings.default_llm_provider: [name, plain], see below
    ApiKeys     \* the providers whose API key is configured

\* What create_llm_provider accepts, by provider.  A setting is a name of this
\* table, "plain" or with the blanks and hyphens that create_llm_provider, and
\* only it, replaces.  Case is lost on all the ways a setting goes.
Spellings ==
    [openai    |-> {"openai", "openai_api", "openai_api_key", "openai_key",
                    "openai_provider", "openaiapi"},
     anthropic |-> {"anthropic", "anthropic_api", "claude", "claude_api",
                    "anthropic_provider"},
     gemini    |-> {"gemini", "google", "google_gemini", "gemini_api", "google_genai"}]

ProviderNames == DOMAIN Spellings

ASSUME ProviderAssumption ==
    /\ Setting \in [name : STRING, plain : BOOLEAN]
    /\ ApiKeys \subseteq ProviderNames

Selected == {p \in ProviderNames : Setting.name \in Spellings[p]}

\* create_llm_provider, or LLMProviderError.
Created(p) == p \in Selected \cap ApiKeys

\* get_model_name: the provider whose model name is used.
ModelOwner ==
    IF Setting.plain /\ Setting.name \in ProviderNames THEN Setting.name ELSE "openai"

-----------------------------------------------------------------------------
(***************************************************************************)
(* Formatting.                                                             *)
(***************************************************************************)

\* The declaration of tool calls is stored with an empty text.
HasText(m) == ~(m.role = "assistant" /\ m.n > 0)

\* Anthropic: the system prompt apart, all else with its role and its text.
AnthropicMessages(msgs) == SelectSeq(msgs, LAMBDA m : m.role # "system")

\* The roles of that API, and a text in all messages but the last.
AnthropicAccepts(msgs) ==
    \A i \in 1..Len(msgs) :
        /\ msgs[i].role \in {"user", "assistant"}
        /\ i < Len(msgs) => HasText(msgs[i])

\* Gemini: one part each, a function response for a tool's answer.
GeminiContents(msgs) ==
    [i \in 1..Len(msgs) |->
        [role |-> IF msgs[i].role = "assistant" THEN "model" ELSE "user",
         part |-> IF msgs[i].role = "tool" THEN "function_response" ELSE "text"]]

\* A function response comes after the model's function call.
GeminiAccepts(contents) ==
    \A i \in 1..Len(contents) :
        contents[i].part = "function_response" =>
            \E j \in 1..(i - 1) :
                contents[j] = [role |-> "model", part |-> "function_call"]

PromptAcceptedBy(p, msgs) ==
    CASE p = "openai"    -> Accepted(FormatMessages(msgs))
      [] p = "anthropic" -> AnthropicAccepts(AnthropicMessages(msgs))
      [] p = "gemini"    -> GeminiAccepts(GeminiContents(msgs))

\* provider.generate gets an answer: there is a provider, the model is one of its
\* own and it accepts the prompt.
Served(msgs) ==
    \E p \in ProviderNames :
        Created(p) /\ ModelOwner = p /\ PromptAcceptedBy(p, msgs)

-----------------------------------------------------------------------------
(***************************************************************************)
(* Parsing.  Anthropic and Gemini give arguments as a mapping or none;     *)
(* OpenAI as text, for which any JSON value will do.                       *)
(***************************************************************************)

\* call.object: are the arguments a mapping?  Without them, nothing is given.
ParseCall(call) ==
    IF call.object \/ Selected = {"openai"}
      THEN call
      ELSE [call EXCEPT !.object = TRUE, !.argument = [node |-> "absent"]]

=============================================================================
