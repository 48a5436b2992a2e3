----------------------------- MODULE Admission -----------------------------
(***************************************************************************)
(* How a skill gets into the registry of SkillRegistry: the SkillSchema of *)
(* src/src/core/skill_schema.py is validated when it is constructed, its   *)
(* signature (src/src/security/ecdsa_signer.py) is verified by register on *)
(* a dump of it, and the entry keeps the schema object itself.  Its owner  *)
(* can assign to its fields at any time, and nothing validates that.       *)
(*                                                                         *)
(* Of a schema only what signatures are about is kept: the level, who made *)
(* the signature, and whether the fields still are what was signed.  One   *)
(* registration is under way at a time: two meet only in the table, whose  *)
(* lock orders them.                                                       *)
(***************************************************************************)
EXTENDS SkillRegistry

CONSTANTS EnforceSignatures, HasVerifier,   \* of SkillRegistry.__init__
          Signatures,                       \* the kinds of signatures that occur
          EditBound                         \* how often schemas are edited in a behaviour

ASSUME AdmissionAssumption ==
  /\ EnforceSignatures \in BOOLEAN /\ HasVerifier \in BOOLEAN /\ EditBound \in Nat
  /\ Signatures \subseteq {"none", "factory", "document", "foreign"}

VARIABLES schema,    \* the schema of every entry object
          building,  \* the schema that is constructed and registered, or Nothing
          edits      \* how many edits there were

avars == <<schema, building, edits>>

\* The signature is the factory's over all fields of the schema ("factory") or over a
\* document that leaves defaults out ("document"), or any other text ("foreign").
\* `verified': register is past its check; `late' (history): edited since.
Schemas == [p0 : BOOLEAN, signature : Signatures, altered : BOOLEAN, verified : BOOLEAN,
            late : BOOLEAN]

AdmissionTypeOK ==
  /\ TypeOK
  /\ schema \in [Made -> Schemas]
  /\ building # Nothing => building \in Schemas
  /\ edits \in 0..EditBound

AdmissionInit ==
  /\ Init
  /\ schema = [o \in {} |-> Nothing] /\ building = Nothing /\ edits = 0

-----------------------------------------------------------------------------
\* validate_p0_requires_signature
Valid(d) == d.p0 => d.signature # "none"

\* verify_skill on model_dump(): canonical_payload covers every field of it but the
\* signature, defaults included.
Verifies(d) == d.signature = "factory" /\ ~d.altered

Construct ==
  /\ building = Nothing
  /\ building' \in {d \in Schemas : Valid(d) /\ ~d.altered /\ ~d.verified /\ ~d.late}
  /\ UNCHANGED <<vars, schema, edits>>

\* The owner assigns to fields of the schema, its level among them.
Edited(d, p0) == [p0 |-> p0, signature |-> d.signature, altered |-> TRUE,
                  verified |-> d.verified, late |-> d.late \/ d.verified]

EditHeld ==
  /\ building # Nothing /\ edits < EditBound
  /\ \E p0 \in BOOLEAN : building' = Edited(building, p0)
  /\ edits' = edits + 1
  /\ UNCHANGED <<vars, schema>>

\* The entry keeps the object; nothing reads its level again.
EditStored(o) ==
  /\ edits < EditBound
  /\ schema' = [schema EXCEPT ![o] = Edited(schema[o], schema[o].p0)]
  /\ edits' = edits + 1
  /\ UNCHANGED <<vars, building>>

VerifyCritical ==   \* mutant: only P0 skills are verified
  /\ building # Nothing /\ ~building.verified
  /\ building' = IF EnforceSignatures /\ HasVerifier /\ building.p0 /\ ~Verifies(building)
                   THEN Nothing ELSE [building EXCEPT !.verified = TRUE]
  /\ UNCHANGED <<vars, schema, edits>>

\* register: SkillValidationError ends it, and needs both settings.
Verify ==
  /\ building # Nothing /\ ~building.verified
  /\ building' = IF EnforceSignatures /\ HasVerifier /\ ~Verifies(building)
                   THEN Nothing ELSE [building EXCEPT !.verified = TRUE]
  /\ UNCHANGED <<vars, schema, edits>>

\* The rest of register: the level is read now, the entry made and put in the table.
Store ==
  /\ building # Nothing /\ building.verified
  /\ \E s \in Skills, slot \in Slots : Register(s, building.p0, slot)
  /\ schema' = [o \in DOMAIN entry' |-> IF o \in Made THEN schema[o] ELSE building]
  /\ building' = Nothing
  /\ UNCHANGED edits

AdmissionNext ==
  \/ Construct \/ EditHeld \/ Verify \/ Store
  \/ \E o \in Made : EditStored(o)
  \/ /\ \/ EvictBegin \/ Evict
        \/ \E s \in Skills : Promote(s) \/ EvictCheck(s) \/ EvictKey(s)
        \/ \E t \in Threads : GetStep(t) \/ \E s \in Skills : GetLookup(t, s)
     /\ schema' = [o \in DOMAIN entry' |-> schema[o]]
     /\ UNCHANGED <<building, edits>>

AdmissionSpec == AdmissionInit /\ [][AdmissionNext]_<<vars, avars>>

-----------------------------------------------------------------------------
(* Properties *)

\* A registry that enforces signatures holds and hands out only schemas the factory
\* signed as they are, except for edits made after register had dumped them.
AdmittedAreSigned ==
  EnforceSignatures /\ HasVerifier =>
    \A o \in Made : schema[o].signature = "factory" /\ (schema[o].altered => schema[o].late)

-----------------------------------------------------------------------------
(* Claims of the repository that the code does not keep: see the README. *)

\* README.md:263: "P0 skills must carry a valid ECDSA signature."  The schema asks for
\* some text, and the registry for its verification only if told to.
CriticalAreSigned == \A o \in Made : entry[o].p0 => Verifies(schema[o]) \/ schema[o].late

\* README.md:257: a skill is signed with sign_skill(skill), over its document.  The
\* registry verifies the dump of its schema, which has the defaults in it.
SignedAreAdmitted ==
  [][(/\ building # Nothing /\ ~building.altered
      /\ building.signature \in {"factory", "document"} /\ Verify)
        => building' # Nothing]_<<vars, avars>>
=============================================================================
