------------------------------- MODULE Envelope -------------------------------
(***************************************************************************)
(* The pre-dispatch input checks (envelope_validator.py) as the two         *)
(* surfaces apply them: the compatibility API (app.py, "tcp") and the        *)
(* llama.cpp adapter (adapters/llama_cpp.py, "adapter").                     *)
(*                                                                         *)
(* Token counting needs the runtime's tokenizer, so it fails on a model      *)
(* that is not loaded, and a model may be loaded or evicted between any two  *)
(* steps.  An image is its longest decoded edge; 0 is one that cannot be     *)
(* decoded.  A max_tokens of Absent is a request that names none.           *)
(***************************************************************************)
EXTENDS Integers, Sequences

CONSTANTS Figures,           \* token counts, limits and batch lengths tried
          DefaultMaxTokens,  \* 4096
          DefaultMaxBatch    \* 256, for embeddings and for rerank

ASSUME EnvConstants == Figures \subseteq Nat /\ DefaultMaxTokens \in Nat /\ DefaultMaxBatch \in Nat

VARIABLES envelope,  \* the registered envelope and capabilities of the model
          ask,       \* the request
          warm,      \* the model's runtime answers
          envAt,     \* the next step, or how the request ended
          budget,    \* the facts of the check: counted input, output budget
          sent       \* what was dispatched upstream

envVars == <<envelope, ask, warm, envAt, budget, sent>>

Absent == 0 - 1
Low(a, b) == IF a < b THEN a ELSE b
Chatty == {"chat", "vision"}
Images == UNION {[1..n -> {0, 1, 2}] : n \in 0..2}

Asks ==
  [surface : {"tcp", "adapter"}, op : {"chat", "vision"}, images : Images, text : Figures,
   max : Figures \cup {Absent}, items : {0}, counter : BOOLEAN]
  \cup [surface : {"tcp", "adapter"}, op : {"embeddings", "rerank"}, images : {<<>>}, text : {0},
        max : {Absent}, items : Figures, counter : BOOLEAN]

(* The compatibility API derives the operation from the images; the adapter   *)
(* always counts.                                                             *)
EnvInit ==
  /\ envelope \in [max_input : {1, 2}, max_output : {1, 2}, ctx : {2, 3}, images : {0, 1},
                   edge : {1}, image_tokens : {1}, vision : BOOLEAN]
  /\ ask \in {a \in Asks : /\ a.surface = "tcp" /\ a.op \in Chatty
                                => a.op = IF a.images = <<>> THEN "chat" ELSE "vision"
                           /\ a.surface = "adapter" => a.counter}
  /\ warm \in BOOLEAN /\ envAt = "check" /\ budget = [input |-> Absent, max |-> Absent]
  /\ sent = Absent

Refused(code) == envAt' = code

ModelMoves ==
  /\ warm' = ~warm /\ envAt \in {"check", "count", "warm", "recount"}
  /\ UNCHANGED <<envelope, ask, envAt, budget, sent>>

effective_max_tokens(a) ==
  Low(IF a.max = Absent THEN Low(DefaultMaxTokens, envelope.max_output) ELSE a.max, envelope.max_output)

(* The code of the first check that objects, "" when none does.               *)
FirstRefusal(checks) ==
  IF \E i \in DOMAIN checks : checks[i][1]
  THEN checks[CHOOSE i \in DOMAIN checks : checks[i][1] /\ \A j \in 1..(i - 1) : ~checks[j][1]][2]
  ELSE ""

(* collect_image_sizes, check_images, effective_max_tokens; the adapter asks   *)
(* for the capability first.                                                  *)
ChatChecks(a) ==
  <<<<a.surface = "adapter" /\ a.op = "vision" /\ ~envelope.vision, "capability_mismatch">>,
    <<\E i \in DOMAIN a.images : a.images[i] = 0, "envelope_exceeded">>,
    <<a.images # <<>> /\ ~envelope.vision, "capability_mismatch">>,
    <<a.op = "vision" /\ a.images = <<>>, "contract_violation">>,
    <<Len(a.images) > envelope.images, "envelope_exceeded">>,
    <<\E i \in DOMAIN a.images : a.images[i] > envelope.edge, "envelope_exceeded">>,
    <<a.max = 0, "contract_violation">>>>

ChatCheck ==
  /\ envAt = "check" /\ ask.op \in Chatty
  /\ LET code == FirstRefusal(ChatChecks(ask))
     IN  IF code # "" THEN Refused(code) /\ UNCHANGED budget
         ELSE /\ envAt' = IF ask.counter THEN "count" ELSE "dispatch"
              /\ budget' = [budget EXCEPT !.max = effective_max_tokens(ask)]
  /\ UNCHANGED <<envelope, ask, warm, sent>>

(* check_embeddings_input and check_rerank_input; the adapter only asks for a  *)
(* non-empty list.                                                            *)
BatchCheck ==
  /\ envAt = "check" /\ ask.op \notin Chatty
  /\ LET code == FirstRefusal(<<<<ask.items = 0, "contract_violation">>,
                                <<ask.surface = "tcp" /\ ask.items > DefaultMaxBatch, "envelope_exceeded">>>>)
     IN  envAt' = IF code # "" THEN code ELSE "dispatch"
  /\ UNCHANGED <<envelope, ask, warm, budget, sent>>

\* Mutant: input and output are not added up.
check_chat_budget_parts(input, max) ==
  input > envelope.max_input \/ max > envelope.max_output

check_chat_budget(input, max) ==
  \/ input > envelope.max_input
  \/ max > envelope.max_output
  \/ input + max > envelope.ctx

(* The runtime's own count: text, and max_image_tokens for every image.  On a  *)
(* cold model it fails: the API warms the model and counts once more.         *)
Count ==
  /\ envAt \in {"count", "recount"}
  /\ IF ~warm
     THEN /\ envAt' = IF envAt = "count" /\ ask.surface = "tcp" THEN "warm" ELSE "unavailable"
          /\ UNCHANGED budget
     ELSE LET input == ask.text + Len(ask.images) * envelope.image_tokens
          IN  /\ budget' = [budget EXCEPT !.input = input]
              /\ envAt' = IF check_chat_budget(input, budget.max) THEN "envelope_exceeded" ELSE "dispatch"
  /\ UNCHANGED <<envelope, ask, warm, sent>>

WarmModel ==
  /\ envAt = "warm"
  /\ \/ envAt' = "recount" /\ warm' = TRUE
     \/ envAt' = "unavailable" /\ UNCHANGED warm
  /\ UNCHANGED <<envelope, ask, budget, sent>>

(* The API forwards the body it was given, the adapter the payload it built.   *)
DispatchUpstream ==
  /\ envAt = "dispatch"
  /\ envAt' = "sent" /\ sent' = IF ask.surface = "adapter" THEN budget.max ELSE ask.max
  /\ UNCHANGED <<envelope, ask, warm, budget>>

EnvNext ==
  \/ ModelMoves \/ ChatCheck \/ BatchCheck \/ Count \/ WarmModel \/ DispatchUpstream

---------------------------------------------------------------------------

(* What m00-envelope asks of a request, for the output budget m.               *)
Fits(a, m) ==
  IF a.op \in Chatty
  THEN LET input == a.text + Len(a.images) * envelope.image_tokens
       IN  /\ Len(a.images) <= envelope.images
           /\ \A i \in DOMAIN a.images : a.images[i] \in 1..envelope.edge
           /\ input <= envelope.max_input /\ m <= envelope.max_output
           /\ input + m <= envelope.ctx
  ELSE a.items <= DefaultMaxBatch

(* The checks before a dispatch are exact.  A chat that reached the runtime    *)
(* was proven to fit the envelope before, on either surface and however often  *)
(* the model was loaded and evicted on the way, wherever a token counter is    *)
(* wired, and the adapter's payload carries the output budget that was         *)
(* checked; a request is refused as over the limit only when it really exceeds *)
(* it with its effective output budget.                                        *)
EnvelopeExact ==
  /\ envAt = "sent" /\ ask.op \in Chatty /\ ask.counter
       => Fits(ask, budget.max) /\ (ask.surface = "adapter" => sent = budget.max)
  /\ envAt = "envelope_exceeded" => ~Fits(ask, effective_max_tokens(ask))
=============================================================================
