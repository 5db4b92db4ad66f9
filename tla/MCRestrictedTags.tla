-------------------------- MODULE MCRestrictedTags ---------------------------
(* One qualifier, which has one sub-qualifier, one restricted asset and one
   address: four keys, one of each kind.                                    *)
EXTENDS RestrictedTags

MCRoot == {"TAG"}
MCSub == {"TAG/SUB"}
MCParentOf == [s \in MCSub |-> "TAG"]
MCRestricted == {"$X"}
MCAddress == {"addr"}
==============================================================================
