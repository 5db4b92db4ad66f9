--------------------------- MODULE ChainSelection ---------------------------
(***************************************************************************)
(* The block tree of validation.cpp and the choice of the active chain:    *)
(* headers and blocks arrive in any order, threads run ActivateBestChain,  *)
(* which gives up cs_main between its steps, and an operator invalidates,  *)
(* reconsiders and prefers blocks.  A step of the model is what one thread *)
(* does while it holds cs_main.                                            *)
(*                                                                         *)
(* Blocks are numbered by the address of their CBlockIndex, the last tie   *)
(* breaker of CBlockIndexWorkComparator.  Pruning, disk and database       *)
(* errors, -stopatheight and the limits on unrequested blocks far ahead of *)
(* the tip (MIN_BLOCKS_TO_KEEP, nMinimumChainWork) are left out: a block   *)
(* has its data exactly when it was received.                              *)
(* A header that ContextualCheckBlockHeader refuses, for its depth below   *)
(* the tip (-maxreorg) or anything else, changes nothing and is one that   *)
(* does not arrive.                                                        *)
(***************************************************************************)
EXTENDS BlockTree, Sequences, FiniteSets

CONSTANTS nChainWork,  \* the work of the chain that ends in a block
          Unacceptable,\* blocks that fail ContextualCheckBlock
          Unconnectable,\* blocks that fail ConnectBlock
          Operated,    \* blocks the operator's calls name
          Thread,      \* threads that call into validation
          MaxPrecious, \* a bound on the calls of preciousblock
          None

ASSUME TreeAssumption ==
  /\ Block \subseteq Nat /\ IsFiniteSet(Block) /\ None \notin Block
  /\ nChainWork \in [Block -> Nat]
  /\ \A b \in Block \ {Genesis} : nChainWork[Parent[b]] < nChainWork[b]
  /\ (Unacceptable \cup Unconnectable \cup Operated) \subseteq Block \ {Genesis}
  /\ MaxPrecious \in Nat

VARIABLES mapBlockIndex,            \* headers known
          haveData,                 \* BLOCK_HAVE_DATA, BLOCK_VALID_TRANSACTIONS
          linked,                   \* nChainTx # 0
          validScripts,             \* BLOCK_VALID_SCRIPTS
          failedValid, failedChild, \* BLOCK_FAILED_VALID, BLOCK_FAILED_CHILD
          gFailedBlocks,            \* g_failed_blocks
          nSequenceId,
          nBlockSequenceId, nBlockReverseSequenceId, nLastPreciousChainwork,
          candidates,               \* setBlockIndexCandidates
          unlinked,                 \* mapBlocksUnlinked: the children by parent, oldest first
          tip,                      \* chainActive.Tip()
          pc,                       \* "idle", or inside ActivateBestChain
          mostWork                  \* each thread's pindexMostWork

flags == <<validScripts, failedValid, failedChild, gFailedBlocks>>
ids   == <<nSequenceId, nBlockSequenceId>>
prec  == <<nBlockReverseSequenceId, nLastPreciousChainwork>>
data  == <<mapBlockIndex, haveData, linked, unlinked>>
vars  == <<data, flags, ids, prec, candidates, tip, pc, mostWork>>

TypeOK ==
  /\ {Genesis} \cup haveData \subseteq mapBlockIndex /\ mapBlockIndex \subseteq Block
  /\ \A b \in mapBlockIndex \ {Genesis} : Parent[b] \in mapBlockIndex
  /\ linked \subseteq haveData /\ validScripts \subseteq haveData
  /\ (failedValid \cup failedChild) \subseteq mapBlockIndex
  /\ gFailedBlocks \subseteq mapBlockIndex
  /\ nSequenceId \in [Block -> Int] /\ nBlockSequenceId \in Nat
  /\ nBlockReverseSequenceId \in Int /\ nLastPreciousChainwork \in Nat
  /\ candidates \subseteq mapBlockIndex /\ tip \in linked
  /\ unlinked \in [Block -> Seq(haveData)]
  /\ pc \in [Thread -> {"idle", "activate"}]
  /\ mostWork \in [Thread -> Block \cup {None}]

-----------------------------------------------------------------------------
(* The tree *)

\* CBlockIndexWorkComparator under the sequence ids seq.
WorseByAge(seq, a, b) ==
  \/ seq[a] > seq[b]
  \/ seq[a] = seq[b] /\ nChainWork[a] < nChainWork[b]

WorseBy(seq, a, b) ==
  \/ nChainWork[a] < nChainWork[b]
  \/ nChainWork[a] = nChainWork[b] /\ seq[a] > seq[b]
  \/ nChainWork[a] = nChainWork[b] /\ seq[a] = seq[b] /\ a > b

Worse(a, b) == WorseBy(nSequenceId, a, b)

Best(S) == CHOOSE b \in S : \A c \in S : ~Worse(b, c)

Failed == failedValid \cup failedChild

\* The blocks of b's chain that are not in chainActive.
OffChain(b) == Ancestors[b] \ Ancestors[tip]

Highest(S) == CHOOSE b \in S : \A c \in S : nChainWork[c] <= nChainWork[b]

-----------------------------------------------------------------------------
(* Headers and blocks arrive *)

\* The entries of g_failed_blocks that a new header b runs into.
HeaderFailedBy(b) ==
  {f \in gFailedBlocks : Parent[b] \notin validScripts /\ f \in Ancestors[Parent[b]]}

\* A header that is not known yet, on top of a known block that is not failed.
NewHeaderUnchecked(b) == b \in Block \ mapBlockIndex /\ Parent[b] \notin Failed

NewHeader(b) == b \in Block \ mapBlockIndex /\ Parent[b] \in mapBlockIndex \ Failed

HeaderAccepted(b) ==
  IF b \in mapBlockIndex THEN b \notin Failed
                         ELSE NewHeader(b) /\ HeaderFailedBy(b) = {}

AcceptBlockHeader(b) ==
  /\ NewHeader(b) /\ HeaderFailedBy(b) = {}
  /\ mapBlockIndex' = mapBlockIndex \cup {b}
  /\ UNCHANGED <<haveData, linked, unlinked, flags, ids, prec, candidates, tip, pc, mostWork>>

\* A header on a failed chain: the chain below it is marked up to the entry.
RejectBlockHeader(b) ==
  /\ NewHeader(b)
  /\ \E f \in HeaderFailedBy(b) :
       /\ f \in failedValid
       /\ failedChild' = failedChild \cup (Ancestors[Parent[b]] \ Ancestors[f])
  /\ UNCHANGED <<data, validScripts, failedValid, gFailedBlocks, ids, prec,
                 candidates, tip, pc, mostWork>>

\* The queue of ReceivedBlockTransactions after all its rounds: each takes the
\* next block and appends the children that waited for it.  No block is queued
\* twice, so there are no more rounds than there are numbers up to MaxBlock.
MaxBlock == CHOOSE m \in Block : \A b \in Block : b <= m

NewlyLinked(b) ==
  LET queue[n \in 0..MaxBlock + 1] ==
        IF n = 0 THEN <<b>>
        ELSE LET q == queue[n - 1]
             IN IF n > Len(q) THEN q ELSE q \o unlinked[q[n]]
  IN queue[MaxBlock + 1]

Members(s) == {s[i] : i \in DOMAIN s}

ReceivedBlockTransactions(b) ==
  /\ haveData' = haveData \cup {b}
  /\ IF Parent[b] \in linked
     THEN LET new == NewlyLinked(b)
          IN /\ linked' = linked \cup Members(new)
             /\ nSequenceId' = [d \in Block |-> IF d \in Members(new)
                  THEN nBlockSequenceId + (CHOOSE i \in DOMAIN new : new[i] = d) - 1
                  ELSE nSequenceId[d]]
             /\ nBlockSequenceId' = nBlockSequenceId + Len(new)
             /\ candidates' = candidates \cup
                  {d \in Members(new) : ~WorseBy(nSequenceId', d, tip)}
             /\ unlinked' = [p \in Block |-> IF p \in Members(new) THEN <<>> ELSE unlinked[p]]
     ELSE /\ unlinked' = IF Parent[b] \in Failed THEN unlinked
                         ELSE [unlinked EXCEPT ![Parent[b]] = Append(@, b)]
          /\ UNCHANGED <<linked, ids, candidates>>

\* The thread goes on to ActivateBestChain.
Activate(t) ==
  /\ pc' = [pc EXCEPT ![t] = "activate"] /\ mostWork' = [mostWork EXCEPT ![t] = None]

\* ProcessNewBlock: AcceptBlock stores the block, or ignores one it has or
\* did not ask for, or finds it invalid; unless invalid, activation follows.
ProcessNewBlock(t, b, fRequested) ==
  /\ pc[t] = "idle" /\ b # Genesis /\ HeaderAccepted(b)
  /\ mapBlockIndex' = mapBlockIndex \cup {b}
  /\ IF b \in haveData \/ (~fRequested /\ nChainWork[b] <= nChainWork[tip])
     THEN UNCHANGED <<haveData, linked, unlinked, flags, ids, candidates>> /\ Activate(t)
     ELSE IF b \in Unacceptable
     THEN /\ failedValid' = failedValid \cup {b}
          /\ UNCHANGED <<haveData, linked, unlinked, validScripts, failedChild,
                         gFailedBlocks, ids, candidates, pc, mostWork>>
     ELSE ReceivedBlockTransactions(b) /\ UNCHANGED flags /\ Activate(t)
  /\ UNCHANGED <<prec, tip>>

-----------------------------------------------------------------------------
(* ActivateBestChain *)

Usable(c) == OffChain(c) \cap Failed = {}

\* FindMostWorkChain: the best candidate with no failed block off chainActive.
FindMostWorkChainOnce ==
  IF candidates # {} /\ Usable(Best(candidates)) THEN Best(candidates) ELSE None

FindMostWorkChainAny == IF candidates # {} THEN Best(candidates) ELSE None

FindMostWorkChain ==
  IF \E c \in candidates : Usable(c) THEN Best({c \in candidates : Usable(c)}) ELSE None

\* What it removes on the way: a better candidate, down to the failed block.
WalkedToFork(c) == OffChain(c)

Walked(c) ==
  {d \in OffChain(c) : nChainWork[d] >= nChainWork[Highest(OffChain(c) \cap Failed)]}

Discarded ==
  UNION {Walked(c) : c \in {c \in candidates \ {FindMostWorkChain} :
           ~Usable(c) /\ (FindMostWorkChain = None \/ Worse(FindMostWorkChain, c))}}

\* The blocks that ActivateBestChainStep connects on the way from tip to mw:
\* it stops after the first that has more work than the old tip, and before
\* one that ConnectBlock rejects.
Reached(mw) ==
  {d \in OffChain(mw) :
     \A e \in (OffChain(mw) \cap Ancestors[d]) \ {d} : nChainWork[e] <= nChainWork[tip]}

Connected(mw) == {d \in Reached(mw) : Ancestors[d] \cap OffChain(mw) \cap Unconnectable = {}}

RejectedUnseen(mw) == {}

Rejected(mw) ==
  {d \in Reached(mw) \cap Unconnectable : Parent[d] \in Connected(mw) \cup Ancestors[tip]}

Fork(mw) == Highest(Ancestors[mw] \cap Ancestors[tip])

\* PruneBlockIndexCandidates for the tip t.
PrunedToBetter(S, t) == {c \in S : Worse(t, c)}

Pruned(S, t) == {c \in S : ~Worse(c, t)}

\* InvalidBlockFound for the blocks of S.
InvalidBlockFoundUnmarked(S) ==
  gFailedBlocks' = gFailedBlocks \cup S /\ UNCHANGED failedValid

InvalidBlockFound(S) ==
  gFailedBlocks' = gFailedBlocks \cup S /\ failedValid' = failedValid \cup S

\* Nothing to do: the best chain is already active.
ActivateDone(t) ==
  /\ pc[t] = "activate"
  /\ LET mw == IF mostWork[t] = None THEN FindMostWorkChain ELSE mostWork[t]
         gone == IF mostWork[t] = None THEN Discarded ELSE {}
     IN /\ mw \in {None, tip}
        /\ candidates' = candidates \ gone
        /\ failedChild' = failedChild \cup (gone \ Failed)
  /\ pc' = [pc EXCEPT ![t] = "idle"] /\ mostWork' = [mostWork EXCEPT ![t] = None]
  /\ UNCHANGED <<data, validScripts, failedValid, gFailedBlocks, ids, prec, tip>>

\* One round of the loop of ActivateBestChain.
ActivateBestChainStep(t) ==
  /\ pc[t] = "activate"
  /\ LET mw == IF mostWork[t] = None THEN FindMostWorkChain ELSE mostWork[t]
         gone == IF mostWork[t] = None THEN Discarded ELSE {}
     IN /\ mw \notin {None, tip}
        /\ tip' = Highest(Connected(mw) \cup {Fork(mw)})
        /\ validScripts' = validScripts \cup (Connected(mw) \ Failed)
        /\ InvalidBlockFound(Rejected(mw))
        /\ failedChild' = failedChild \cup (gone \ Failed)
        /\ candidates' = (IF Connected(mw) = {} THEN candidates \ gone
                          ELSE Pruned(candidates \ gone, tip')) \ Rejected(mw)
        /\ IF tip' = mw /\ Rejected(mw) = {}
           THEN pc' = [pc EXCEPT ![t] = "idle"] /\ mostWork' = [mostWork EXCEPT ![t] = None]
           ELSE UNCHANGED pc /\ mostWork' = [mostWork EXCEPT ![t] =
                  IF Rejected(mw) = {} THEN mw ELSE None]
  /\ UNCHANGED <<data, ids, prec>>

-----------------------------------------------------------------------------
(* The operator's calls; each is followed by ActivateBestChain *)

\* PreciousBlock: b sorts before every block of equal work.
PreciousBlock(t, b) ==
  /\ pc[t] = "idle" /\ b \in mapBlockIndex
  /\ nChainWork[b] >= nChainWork[tip]
  /\ LET rev == IF nChainWork[tip] > nLastPreciousChainwork THEN -1
                ELSE nBlockReverseSequenceId
     IN /\ rev >= -MaxPrecious
        /\ nSequenceId' = [nSequenceId EXCEPT ![b] = rev]
        /\ nBlockReverseSequenceId' = rev - 1
  /\ nLastPreciousChainwork' = nChainWork[tip]
  /\ candidates' = IF b \in linked \ Failed
       THEN {c \in candidates \cup {b} : ~WorseBy(nSequenceId', c, tip)}
       ELSE candidates \ {b}
  /\ Activate(t)
  /\ UNCHANGED <<data, flags, nBlockSequenceId, tip>>

\* InvalidateBlock: disconnect down to b's parent, mark b and what was
\* disconnected, and refill the candidates.
InvalidateBlock(t, b) ==
  /\ pc[t] = "idle" /\ b \in mapBlockIndex
  /\ LET cut == IF b \in Ancestors[tip] THEN Ancestors[tip] \ Ancestors[b] ELSE {}
     IN /\ tip' = IF b \in Ancestors[tip] THEN Parent[b] ELSE tip
        /\ failedChild' = failedChild \cup cut
        /\ candidates' = (candidates \ (cut \cup {b})) \cup
             {c \in linked \ (Failed \cup cut \cup {b}) : ~Worse(c, tip')}
  /\ failedValid' = failedValid \cup {b}
  /\ gFailedBlocks' = gFailedBlocks \cup {b}
  /\ Activate(t)
  /\ UNCHANGED <<data, validScripts, ids, prec>>

\* ResetBlockFailureFlags: b, its descendants and its ancestors are cleared;
\* only the descendants come back as candidates and leave g_failed_blocks.
ResetBlockFailureFlags(t, b) ==
  /\ pc[t] = "idle" /\ b \in mapBlockIndex
  /\ LET below == {d \in mapBlockIndex : b \in Ancestors[d] /\ d \notin haveData \ Failed}
     IN /\ failedValid' = failedValid \ (below \cup Ancestors[b])
        /\ failedChild' = failedChild \ (below \cup Ancestors[b])
        /\ gFailedBlocks' = gFailedBlocks \ below
        /\ candidates' = candidates \cup {d \in below \cap linked : Worse(tip, d)}
  /\ Activate(t)
  /\ UNCHANGED <<data, validScripts, ids, prec, tip>>

-----------------------------------------------------------------------------
\* A node that has connected its genesis block.
Init ==
  /\ mapBlockIndex = {Genesis} /\ haveData = {Genesis} /\ linked = {Genesis}
  /\ validScripts = {Genesis} /\ failedValid = {} /\ failedChild = {}
  /\ gFailedBlocks = {}
  /\ nSequenceId = [b \in Block |-> IF b = Genesis THEN 1 ELSE 0]
  /\ nBlockSequenceId = 2
  /\ nBlockReverseSequenceId = -1 /\ nLastPreciousChainwork = 0
  /\ candidates = {Genesis} /\ tip = Genesis
  /\ unlinked = [p \in Block |-> <<>>]
  /\ pc = [t \in Thread |-> "idle"] /\ mostWork = [t \in Thread |-> None]

Activation(t) == ActivateDone(t) \/ ActivateBestChainStep(t)

Next ==
  \/ \E b \in Block : AcceptBlockHeader(b) \/ RejectBlockHeader(b)
  \/ \E t \in Thread, b \in Block, r \in BOOLEAN : ProcessNewBlock(t, b, r)
  \/ \E t \in Thread : Activation(t)
  \/ \E t \in Thread, b \in Operated :
       PreciousBlock(t, b) \/ InvalidateBlock(t, b) \/ ResetBlockFailureFlags(t, b)

\* A thread inside ActivateBestChain gets cs_main again in the end.
Spec == Init /\ [][Next]_vars /\ \A t \in Thread : WF_vars(Activation(t))

-----------------------------------------------------------------------------
(* Properties.  Those that begin with Check are assertions of              *)
(* CheckBlockIndex.                                                        *)

\* Every call of ActivateBestChain has returned.
Quiet == \A t \in Thread : pc[t] = "idle"

Invalid(b) == Ancestors[b] \cap failedValid # {}

\* The assertions of CheckBlockIndex.  Whenever no activation is under way,
\* setBlockIndexCandidates has every block with all its data that is as good as
\* the tip and has no invalid ancestor, and none that sorts worse or misses
\* data.  No block is marked failed without an invalid ancestor.  nChainTx is
\* set exactly for the blocks whose whole chain was received, and
\* mapBlocksUnlinked holds, once, every other received block, invalid chains
\* aside.
CheckBlockIndex ==
  LET Complete(b) == Ancestors[b] \subseteq haveData
  IN /\ Quiet =>
          /\ \A b \in linked : ~Worse(b, tip) /\ ~Invalid(b) => b \in candidates
          /\ \A c \in candidates : c \in linked /\ ~Worse(c, tip)
     /\ \A b \in Failed : Invalid(b)
     /\ linked = {b \in mapBlockIndex : Complete(b)}
     /\ \A b \in haveData : Complete(b) \/ Invalid(b) \/ b \in Members(unlinked[Parent[b]])
     /\ \A p \in Block : \A b \in Members(unlinked[p]) :
          b \in haveData /\ ~Complete(b) /\ Parent[b] = p
     /\ \A p \in Block : \A i, j \in DOMAIN unlinked[p] :
          unlinked[p][i] = unlinked[p][j] => i = j

\* The assertion of AcceptBlockHeader: whatever header comes next, the entry
\* of g_failed_blocks it descends from still carries BLOCK_FAILED_VALID.
FailedBlocksMarked ==
  \A b \in Block \ mapBlockIndex :
    NewHeader(b) => HeaderFailedBy(b) \subseteq failedValid

\* FindMostWorkChain always has a candidate to choose from, as long as the
\* operator reconsiders no block.
CandidatesNotEmpty == candidates # {}

\* The comment and assertion of PruneBlockIndexCandidates: after every round of
\* ActivateBestChain the tip or a successor of it is left in
\* setBlockIndexCandidates, unless this round found that successor invalid.
SuccessorLeft ==
  [][\A t \in Thread : ActivateBestChainStep(t) =>
       \E c \in candidates' \cup (failedValid' \ failedValid) : tip' \in Ancestors[c]]_vars

\* A block the operator or the node found invalid is not in chainActive, and
\* neither is one that ConnectBlock rejects.
ActiveChainValid == Ancestors[tip] \cap (failedValid \cup Unconnectable) = {}

\* When every call of ActivateBestChain has returned, the best chain is
\* active: no connectable chain without a failed block has more work.
BestChainActive ==
  Quiet =>
    \A b \in linked : nChainWork[b] > nChainWork[tip] =>
      Ancestors[b] \cap (Failed \cup Unconnectable) # {}

\* ActivateBestChain gives up work only when it met an invalid block.
WorkGivenUpOnlyForInvalid ==
  [][\A t \in Thread : ActivateBestChainStep(t) =>
       \/ nChainWork[tip'] >= nChainWork[tip]
       \/ failedValid' # failedValid]_vars

\* Every call of ActivateBestChain returns.
ActivationReturns == \A t \in Thread : (pc[t] = "activate") ~> (pc[t] = "idle")
=============================================================================
