---------------------------- MODULE Confirmation ----------------------------
(***************************************************************************)
(* From a spatial detection to the inputs of the rules engine: detection   *)
(* from registered footprints, the consultant's overrides with their log,  *)
(* and the chain, ids and geometry.* fields the engine gets.               *)
(*                                                                         *)
(* A detection holds a function from jurisdiction id to [level, source],   *)
(* and overlays, a function from field to value.  Ids are numbers in their *)
(* lexicographic order.                                                    *)
(***************************************************************************)
EXTENDS Conflict, SequencesExt, Functions

Absent == [level |-> "none", source |-> "none"]
NoValue == <<"null", 0>>

At(f, key, default) == IF key \in DOMAIN f THEN f[key] ELSE default

\* f with key set, or without key.
With(f, key, value) == [k \in DOMAIN f \cup {key} |-> IF k = key THEN value ELSE f[k]]
Without(f, key) == Restrict(f, DOMAIN f \ {key})

-----------------------------------------------------------------------------
(* LocalDetectionBackend.  us is the id of the federal jurisdiction, level  *)
(* the metadata, store what each stored geometry covers.                   *)

_detected(level, ids) == [n \in ids |-> [level |-> level[n], source |-> "gis_auto_detect"]]

\* An unknown reference is answered with nothing at all, a known one with the
\* jurisdictions it touches and always with us.
detect(footprints, footprint_ref, store, level, us) ==
  [jurisdictions |->
     IF footprint_ref \notin DOMAIN footprints THEN <<>>
     ELSE _detected(level, {us} \cup
            {n \in DOMAIN store : store[n] \cap footprints[footprint_ref] # {}}),
   overlays |-> <<>>]

-----------------------------------------------------------------------------
(* Overrides, applied in order on copies.  An entry of the log keeps what  *)
(* was there and what is there now.                                        *)

Entry(target, override, previous, confirmed) ==
  [target |-> target, action |-> override.action, key |-> override.key,
   previous |-> previous, confirmed |-> confirmed]

\* Faulty variant: an override of what was not there is not logged.
ApplyQuietly(target, absent, acc, override) ==
  LET previous  == At(acc.of, override.key, absent)
      removes   == override.action = "remove"
      confirmed == IF removes THEN absent ELSE override.value
  IN  [of |-> IF removes THEN Without(acc.of, override.key)
              ELSE With(acc.of, override.key, override.value),
       log |-> IF previous = absent THEN acc.log
               ELSE Append(acc.log, Entry(target, override, previous, confirmed))]

ApplyOverride(target, absent, acc, override) ==
  LET previous  == At(acc.of, override.key, absent)
      removes   == override.action = "remove"
      confirmed == IF removes THEN absent ELSE override.value
  IN  [of |-> IF removes THEN Without(acc.of, override.key)
              ELSE With(acc.of, override.key, override.value),
       log |-> Append(acc.log, Entry(target, override, previous, confirmed))]

\* What a copy and its log have come to after all the overrides.
Applied(target, absent, copy, overrides) ==
  LET after[i \in 0..Len(overrides)] ==
        IF i = 0 THEN [of |-> copy, log |-> <<>>]
        ELSE ApplyOverride(target, absent, after[i - 1], overrides[i])
  IN  after[Len(overrides)]

\* An added jurisdiction takes the place of a detected one with its id.
_apply_jurisdiction_overrides(by_id, overrides) ==
  Applied("jurisdiction", Absent, by_id, overrides)

_apply_overlay_overrides(overlays, overrides) ==
  Applied("overlay", NoValue, overlays, overrides)

KnownActions(overrides, actions) ==
  \A i \in DOMAIN overrides : overrides[i].action \in actions

\* A ValueError for an action neither list knows; original is left untouched.
confirm_detection(detection, jurisdiction_overrides, overlay_overrides) ==
  LET j == _apply_jurisdiction_overrides(detection.jurisdictions, jurisdiction_overrides)
      o == _apply_overlay_overrides(detection.overlays, overlay_overrides)
      before(m, n) ==
        \/ precedence_rank(j.of[m].level) < precedence_rank(j.of[n].level)
        \/ precedence_rank(j.of[m].level) = precedence_rank(j.of[n].level) /\ m < n
  IN  IF ~ /\ KnownActions(jurisdiction_overrides, {"add", "remove"})
           /\ KnownActions(overlay_overrides, {"set", "remove"})
      THEN [error |-> "ValueError"]
      ELSE [error |-> "none", original |-> detection,
            order |-> SetToSortSeq(DOMAIN j.of, before),
            jurisdictions |-> j.of, overlays |-> o.of,
            override_log |-> j.log \o o.log]

\* detection_source -> the chain's detection_source.
_CHAIN_SOURCE(source) ==
  IF source \in {"gis_auto_detect", "user_override", "user_confirmed"} THEN source
  ELSE "user_input"

to_engine_inputs(confirmation) ==
  [applicable_jurisdiction_ids |-> DOMAIN confirmation.jurisdictions,
   jurisdiction_chain |->
     [i \in DOMAIN confirmation.order |->
        LET n == confirmation.order[i]
        IN  [jurisdiction_id |-> n,
             jurisdiction_level |-> confirmation.jurisdictions[n].level,
             detection_source |-> _CHAIN_SOURCE(confirmation.jurisdictions[n].source)]],
   geometry |-> confirmation.overlays]
=============================================================================
