--------------------------- MODULE RestrictedTags ----------------------------
(***************************************************************************)
(* Qualifier tags on addresses, frozen addresses and globally frozen       *)
(* assets: the "null asset data" of a block, as CAssetsCache keeps it      *)
(* (src/src/assets/assets.cpp).  Three layers hold it: the cache ConnectTip *)
(* and DisconnectTip open empty for one block, passets, and prestricteddb  *)
(* with a read cache of present keys in front of it.                       *)
(*                                                                         *)
(* The three families have the same code but for the sub-qualifiers: an    *)
(* address tagged #A/#B also counts as tagged #A.  A key is a pair of a    *)
(* name and an address, or of a restricted asset and Global.  The chain is *)
(* history: the code keeps it as blocks on disk.                           *)
(***************************************************************************)
EXTENDS Integers, Sequences

CONSTANTS Root, Sub, ParentOf,   \* qualifiers, sub-qualifiers, GetParentName
          Restricted, Address,
          Global,                \* marks the key of a global restriction
          MaxHeight, MaxChanges  \* bounds: blocks, and null data outputs in one

TagKey == (Root \cup Sub) \X Address
Key == TagKey \cup Restricted \X (Address \cup {Global})
RootKey == Root \X Address

(* data.flag: 1 tags or freezes, 0 takes that back.                         *)
Change == [key : Key, on : BOOLEAN]
Entry == {"none", "on", "off"}
Recorded(change) == IF change.on THEN "on" ELSE "off"

ASSUME NamesAssumption ==
    /\ ParentOf \in [Sub -> Root]
    /\ Root \cap Sub = {} /\ (Root \cup Sub) \cap Restricted = {}
    /\ Global \notin Address
    /\ MaxHeight \in Nat /\ MaxChanges \in Nat

VARIABLES chain,   \* history: the connected blocks, and the answers before each
          passets, \* the dirty sets of the global cache
          lru,     \* keys held by passetsQualifierCache and the two like it
          db       \* keys present in prestricteddb

vars == <<chain, passets, lru, db>>

-----------------------------------------------------------------------------
(* A CAssetsCache: setNew...ToAdd and setNew...ToRemove, which hold at most one
   entry per key, and mapRootQualifierAddressesAdd and ...Remove.           *)
Clean == [add |-> [k \in Key |-> "none"], rem |-> [k \in Key |-> "none"],
          rootAdd |-> [r \in RootKey |-> {}], rootRem |-> [r \in RootKey |-> {}]]

Cache == [add : [Key -> Entry], rem : [Key -> Entry],
          rootAdd : [RootKey -> SUBSET Sub], rootRem : [RootKey -> SUBSET Sub]]

(* The sub-qualifier bookkeeping of Add- and RemoveQualifierAddress.        *)
WithSub(c, k, present) ==
    IF k[1] \notin Sub THEN c
    ELSE LET r == <<ParentOf[k[1]], k[2]>>
         IN [c EXCEPT !.rootAdd[r] = IF present THEN @ \cup {k[1]} ELSE @ \ {k[1]},
                      !.rootRem[r] = IF present THEN @ \ {k[1]} ELSE @ \cup {k[1]}]

(* AddQualifierAddress, AddRestrictedAddress, AddGlobalRestricted.          *)
AddChange(c, change) ==
    WithSub([c EXCEPT !.add[change.key] = Recorded(change),
                      !.rem[change.key] = "none"], change.key, change.on)

(* RemoveQualifierAddress, RemoveRestrictedAddress, RemoveGlobalRestricted:
   the entry keeps the type of the change that is undone.                   *)
RemoveChange(c, change) ==
    WithSub([c EXCEPT !.rem[change.key] = Recorded(change),
                      !.add[change.key] = "none"], change.key, ~change.on)

(* Variant: an added entry does not cancel an undo that passets still holds. *)
FlushedKeepsUndo(c, p) ==
    [p EXCEPT !.add = [k \in Key |-> IF c.rem[k] # "none" THEN "none"
                                     ELSE IF c.add[k] # "none" THEN c.add[k] ELSE @[k]],
              !.rem = [k \in Key |-> IF c.rem[k] # "none" THEN c.rem[k] ELSE @[k]],
              !.rootAdd = [r \in RootKey |-> @[r] \cup c.rootAdd[r] \cup c.rootRem[r]]]

(* Flush: the sets of the block's cache override those of passets.  Both root
   maps are poured into mapRootQualifierAddressesAdd.                       *)
Flushed(c, p) ==
    [p EXCEPT !.add = [k \in Key |-> IF c.rem[k] # "none" THEN "none"
                                     ELSE IF c.add[k] # "none" THEN c.add[k] ELSE @[k]],
              !.rem = [k \in Key |-> IF c.rem[k] # "none" THEN c.rem[k]
                                     ELSE IF c.add[k] # "none" THEN "none" ELSE @[k]],
              !.rootAdd = [r \in RootKey |-> @[r] \cup c.rootAdd[r] \cup c.rootRem[r]]]

-----------------------------------------------------------------------------
HasSubInDB(k) == \E s \in Sub : ParentOf[s] = k[1] /\ <<s, k[2]>> \in db

HasSubInMap(k) == k \in RootKey /\ passets.rootAdd[k] # {}

(* CheckForAddressQualifier, CheckForAddressRestriction and
   CheckForGlobalRestriction as consensus asks them (fSkipTempCache).       *)
Answer(k) ==
    IF passets.rem[k] # "none" THEN passets.rem[k] = "off"
    ELSE \/ passets.add[k] = "on"
         \/ HasSubInMap(k)
         \/ /\ passets.add[k] = "none"
            /\ \/ k \in lru \/ k \in db
               \/ k \in RootKey /\ HasSubInDB(k)

Answers == {k \in Key : Answer(k)}

(* Keys whose check is served by a read of the database, which caches them.  *)
ReadFromDB(keys) ==
    {k \in keys \cap db : passets.rem[k] = "none" /\ passets.add[k] = "none" /\ ~HasSubInMap(k)}

(* An LRU cache may have evicted any of what was put into it.               *)
Caches(keys) == lru' \in SUBSET keys

(* VerifyQualifierChange and its two siblings: "only allow changes to the
   current status", which is the status at the tip, not inside the block.   *)
Verify(change) == change.on # Answer(change.key)

-----------------------------------------------------------------------------
Init == /\ chain = <<>>
        /\ passets = Clean
        /\ lru = {}
        /\ db = {}

Blocks == UNION {[1..n -> Change] : n \in 1..MaxChanges}

(* The cache of a block after its null data outputs, in order.              *)
Applied(block) ==
    LET cache[n \in 0..Len(block)] ==
          IF n = 0 THEN Clean ELSE AddChange(cache[n - 1], block[n])
    IN cache[Len(block)]

(* DisconnectBlock: the same outputs undone, the last one first.            *)
Reverted(block) ==
    LET cache[n \in 0..Len(block)] ==
          IF n = 0 THEN Clean ELSE RemoveChange(cache[n - 1], block[Len(block) + 1 - n])
    IN cache[Len(block)]

(* ConnectTip: check and apply every output to a fresh cache, then Flush.   *)
ConnectTip(block) ==
    /\ Len(chain) < MaxHeight
    /\ \A i \in DOMAIN block : Verify(block[i])
    /\ passets' = Flushed(Applied(block), passets)
    /\ Caches(lru \cup ReadFromDB({block[i].key : i \in DOMAIN block}))
    /\ chain' = Append(chain, [changes |-> block, before |-> Answers])
    /\ UNCHANGED db

(* DisconnectTip: undo the transactions in reverse order, then Flush.       *)
DisconnectTip ==
    /\ chain # <<>>
    /\ passets' = Flushed(Reverted(chain[Len(chain)].changes), passets)
    /\ chain' = SubSeq(chain, 1, Len(chain) - 1)
    /\ UNCHANGED <<lru, db>>

(* Any other check of a key: RPC, mempool, transfers of restricted assets.  *)
Check(k) ==
    /\ Caches(lru \cup ReadFromDB({k}))
    /\ lru' # lru
    /\ UNCHANGED <<chain, passets, db>>

Present == {k \in Key : passets.add[k] = "on" \/ passets.rem[k] = "off"}
Absent == {k \in Key : passets.add[k] = "off" \/ passets.rem[k] = "on"}

(* Variant: the read cache is not told of what the dump erases.             *)
DumpCacheToDatabaseStale ==
    /\ passets # Clean
    /\ db' = (db \cup Present) \ Absent
    /\ Caches(lru \cup Present)
    /\ passets' = Clean
    /\ UNCHANGED chain

(* DumpCacheToDatabase within FlushStateToDisk, all writes succeeding.      *)
DumpCacheToDatabase ==
    /\ passets # Clean
    /\ db' = (db \cup Present) \ Absent
    /\ Caches((lru \cup Present) \ Absent)
    /\ passets' = Clean
    /\ UNCHANGED chain

Next == \/ \E block \in Blocks : ConnectTip(block)
        \/ DisconnectTip
        \/ \E k \in Key : Check(k)
        \/ DumpCacheToDatabase

Spec == Init /\ [][Next]_vars

-----------------------------------------------------------------------------
TypeOK == /\ chain \in Seq([changes : Blocks, before : SUBSET Key])
          /\ Len(chain) <= MaxHeight
          /\ passets \in Cache
          /\ \A k \in Key : passets.add[k] = "none" \/ passets.rem[k] = "none"
          /\ lru \subseteq Key
          /\ db \subseteq Key

(* The changes of a block that name the key, by their place in the block.   *)
Naming(block, k) == {j \in DOMAIN block : block[j].key = k}

(* The last change of the key in the first h of the blocks set it.          *)
OnUpTo(blocks, h, k) ==
    \E i \in 1..h :
        /\ \E j \in Naming(blocks[i].changes, k) :
              /\ blocks[i].changes[j].on
              /\ \A m \in Naming(blocks[i].changes, k) : m <= j
        /\ \A l \in (i + 1)..h : Naming(blocks[l].changes, k) = {}

OnChain(k) == OnUpTo(chain, Len(chain), k)

(* A qualifier with sub-qualifiers is answered from more than its own key.  *)
PlainKey == {k \in Key : k[1] \notin {ParentOf[s] : s \in Sub}}

(* For a frozen address, a globally frozen asset and a tag without
   sub-qualifiers, the checks answer what the active chain says, whatever was
   reorganised, dumped, cached or evicted: the rules for transfers of restricted
   assets do not depend on when this node wrote its caches.  An address tagged
   with a qualifier itself is never reported untagged, sub-qualifiers or not. *)
AnswersMatchChain ==
    /\ \A k \in PlainKey : Answer(k) = OnChain(k)
    /\ \A k \in RootKey : OnChain(k) => Answer(k)

(* A key is cached only while the database has it.                          *)
ReadCacheInDatabase == lru \subseteq db

(* Undoing a block restores every answer to what it was before that block:
   DisconnectBlock says of these outputs that they "are valid null asset tx,
   and can be reversed".                                                    *)
UndoRestores == [][DisconnectTip => Answers' = chain[Len(chain)].before]_vars

(* The part of it that the code keeps: the answers for keys without
   sub-qualifiers are restored.                                             *)
PlainUndoRestores ==
    [][DisconnectTip =>
         \A k \in PlainKey : Answer(k)' <=> k \in chain[Len(chain)].before]_vars
==============================================================================
