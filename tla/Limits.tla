------------------------------- MODULE Limits -------------------------------
(* The bounds of crates/shanon-core/src/pipeline.rs on an input, counted in  *)
(* units instead of bytes.                                                   *)
EXTENDS Naturals

CONSTANTS MaxMembers, MaxMember, MaxTotal, None

ASSUME LimitsAssumption ==
    {MaxMembers, MaxMember, MaxTotal} \subseteq Nat /\ MaxMember <= MaxTotal
=============================================================================
