-------------------------- MODULE MCAssetMetadata ----------------------------
(* Instances of AssetMetadata: a restricted asset with two issues that differ,
   a reissue that changes the amount only, so that it has no undo record, and
   closes the asset to further reissues, and one that changes the units and the
   verifier; and a second asset, so that a block can be about two.  The IPFS
   hash is treated as the units are.                                        *)
EXTENDS AssetMetadata

Issue(name, amount, units) ==
    [kind |-> "issue", name |-> name, amount |-> amount, units |-> units,
     ipfs |-> "h0", verifier |-> "v0", reissuable |-> TRUE]

Reissue(amount, units, verifier, reissuable) ==
    [kind |-> "reissue", name |-> "$A", amount |-> amount, units |-> units,
     ipfs |-> Keep, verifier |-> verifier, reissuable |-> reissuable]

MCAsset == {"$A", "$B"}

MCTx == {Issue("$A", 1, 0), Issue("$A", 2, 1), Issue("$B", 1, 0),
         Reissue(1, Keep, Keep, FALSE), Reissue(0, 1, "v1", TRUE)}
==============================================================================
