---------------------------- MODULE MCModelCalls ----------------------------
(* A small instance of ModelCalls for TLC. *)
EXTENDS ModelCalls

CONSTANTS groq, gemini, openrouter

MCProviders == {groq, gemini, openrouter}
MCLenient == {openrouter}

\* The default may come first, last or not at all in the fallback order.
MCOrders == {<<groq, gemini, openrouter>>, <<openrouter, groq>>}

\* A network error (as good as any temporary one), a bad key, and a request
\* that is refused.
MCStatuses == {0, 401, 422}
=============================================================================
