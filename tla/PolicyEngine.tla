---------------------------- MODULE PolicyEngine ----------------------------
(***************************************************************************)
(* PolicyEngine.evaluate of src/src/security/policy_engine.py, a function  *)
(* of the skill's entry, the request's region and the injected blocks.     *)
(***************************************************************************)
CONSTANTS Regions, GL,      \* the request regions, and the code of a global skill
          Tags, LowerTag,   \* skill tags, and the lower case of each
          MedicalTags,      \* _MEDICAL_SKILL_TAGS
          MedicalRegions,   \* _MEDICAL_COMPLIANCE_REGIONS
          ExtraBlocked      \* extra_blocked: the tags blocked in each region, as injected

ASSUME PolicyAssumption ==
  /\ LowerTag \in [Tags -> Tags]
  /\ ExtraBlocked \in [Regions -> SUBSET Tags]

Lowered(tags) == {LowerTag[t] : t \in tags}

\* The two conditions under which evaluate raises PolicyViolationError.
RegionMismatch(e, g) == e.region \notin {GL, g}
TagBlocked(e, g) == Lowered(e.tags) \cap ExtraBlocked[g] # {}

Permits(e, g) == ~RegionMismatch(e, g) /\ ~TagBlocked(e, g)

\* The PolicyDecision of a permitted request.
PolicyDecision(e, g) ==
  [allowed |-> TRUE,
   requires_medical_compliance |-> Lowered(e.tags) \cap MedicalTags # {} /\ g \in MedicalRegions,
   escalation_required |-> e.level = "P0"]
=============================================================================
