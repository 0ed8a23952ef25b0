------------------------------- MODULE Routing -------------------------------
(***************************************************************************)
(* How the bus takes a task to a path by its model string, what the error  *)
(* of a dispatch may say, and which errors count as transient.  A model    *)
(* string is known by the adapter slugs that occur in it, wherever they    *)
(* do, and by whether it starts with `http-forward:`; an error text by the *)
(* transient and the permanent signals that occur in it.                   *)
(***************************************************************************)
EXTENDS Naturals

CONSTANTS
  Base,      \* NEMOTRON_BASE_URL is set
  GridKey    \* TAIFOON_GRID_KEY is set

Slugs == {"taifoon", "polymarket", "algotrada", "general"}
Models == [slugs : SUBSET Slugs, forward : BOOLEAN]
Kinds == {"openfang", "nemotron", "forward"}

\* NemotronAdapter::from_model_str looks for the slugs in this order.
Order == <<"taifoon", "polymarket", "algotrada", "general">>

Adapter(model) ==
  IF model.slugs = {} THEN "none"
  ELSE Order[CHOOSE i \in DOMAIN Order :
               /\ Order[i] \in model.slugs
               /\ \A j \in 1..(i - 1) : Order[j] \notin model.slugs]

\* Bus::route: the adapter first, even for a forward whose URL names one.
Path(model) == IF model.slugs # {} THEN "nemotron"
               ELSE IF model.forward THEN "forward" ELSE "openfang"

\* NemotronClient::generate gets as far as a request.
CanGenerate(adapter) == Base /\ (adapter = "general" => GridKey)

-----------------------------------------------------------------------------
Texts == SUBSET {"blip", "refusal"}

\* is_transient_error: a permanent signal anywhere wins.
IsTransient(text) == "blip" \in text /\ "refusal" \notin text

\* Missing configuration holds no signal.  An upstream's answer is quoted
\* with its status and, except by the general adapter's probe and its
\* refusal, its body, so it may hold any; no answer reads `error sending
\* request`; what does not parse, or no URL at all, holds none.
ErrorTexts(model) ==
  CASE Path(model) = "forward" -> {{"blip"}, {}}
    [] Path(model) = "nemotron" /\ ~CanGenerate(Adapter(model)) -> {{}}
    [] OTHER -> Texts

\* What remains for a prompt that cannot be logged (its byte 80 is inside a
\* character, debug level): generate panics before its request, so all that
\* can fail before that is the configuration and the general adapter's probe.
ErrorTextsBeforePanic(model) ==
  IF ~CanGenerate(Adapter(model)) THEN {{}}
  ELSE IF Adapter(model) = "general" THEN Texts \ {{"blip", "refusal"}}
  ELSE {}
=============================================================================
