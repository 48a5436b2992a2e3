--------------------------- MODULE PromptFirewall ---------------------------
(***************************************************************************)
(* PromptFirewall.inspect of src/src/security/prompt_firewall.py: patterns *)
(* first, then an optional backend.  What a prompt contains is given by    *)
(* sets of prompts, what the backend may do by a set of outcomes.          *)
(***************************************************************************)
CONSTANTS Prompts,
          Blank,       \* prompts of white space only
          Jailbreaks,  \* texts a jailbreak pattern matches
          Overrides,   \* texts an override pattern matches
          Blobs,       \* Blobs[p]: the texts that p's base64 and hex blobs decode to
          Backend,     \* Backend[p]: the verdicts the backend may give p, with
                       \* "raises" if it may fail; empty where there is no backend
          StrictMode

FirewallVerdict == {"allow", "block", "review"}

ASSUME FirewallAssumption ==
  /\ Blank \subseteq Prompts
  /\ Blobs \in [Prompts -> SUBSET (Jailbreaks \cup Overrides \cup Prompts)]
  /\ Backend \in [Prompts -> SUBSET (FirewallVerdict \cup {"raises"})]
  /\ StrictMode \in BOOLEAN

Patterned(text) == text \in Jailbreaks \cup Overrides

\* Blobs are searched for the same patterns, once decoded.
EncodedAttack(p) == \E text \in Blobs[p] : Patterned(text)

\* detected # []
Detected(p) == Patterned(p) \/ EncodedAttack(p)

\* A backend that fails counts as one that blocks.
BackendVerdicts(p) ==
  IF Backend[p] = {} THEN {"allow"}
                     ELSE {IF v = "raises" THEN "block" ELSE v : v \in Backend[p]}

Verdicts(p) == CASE p \in Blank -> {"allow"}
                 [] p \notin Blank /\ Detected(p) -> {"block"}
                 [] OTHER -> BackendVerdicts(p)

\* What inspect may do: return a verdict, or raise PromptFirewallError.
Inspect(p) == {IF v = "block" /\ StrictMode THEN "raised" ELSE v : v \in Verdicts(p)}
=============================================================================
