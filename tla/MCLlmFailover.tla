--------------------------- MODULE MCLlmFailover ---------------------------
(* The two providers, a chat and an agent run, two droppable               *)
(* parameters and as many attempts per route as there are of them, as in   *)
(* the code (eight and eight). One model refuses both parameters; the      *)
(* other refuses neither and complains all the same. The half-open breaker  *)
(* takes three chats and a threshold of one.                               *)
EXTENDS LlmFailover
CONSTANTS c1, c2, c3, a1, temperature, reasoning
MCChats == {c1}
MCThreeChats == {c1, c2, c3}
MCNobody == {}
MCAgents == {a1}
MCParams == {temperature, reasoning}
MCRefuses == [p \in {"openai", "openrouter"} |-> IF p = "openai" THEN MCParams ELSE {}]
MCStubborn == {"openrouter"}
MCConfigured == <<"openai", "openrouter">>
=============================================================================
