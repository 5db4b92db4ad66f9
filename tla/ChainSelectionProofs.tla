------------------------ MODULE ChainSelectionProofs ------------------------
(***************************************************************************)
(* What ChainSelection promises: an active chain without invalid blocks,   *)
(* no work given up but for an invalid block, candidates that never run    *)
(* out, and the best chain active when nobody is at work.                  *)
(*                                                                         *)
(* The theorems differ in what they ask: one thread at a time in           *)
(* ActivateBestChain (OneThread), or no calls of the operator              *)
(* (Operated = {}), or both.  Each is needed: TLC finds a counterexample   *)
(* in a tree of six blocks without it.                                     *)
(***************************************************************************)
EXTENDS ChainSelectionBase

(***************************************************************************)
(* One thread: ActivateBestChain calls do not interleave.  The operator    *)
(* may call what it likes between them.                                    *)
(***************************************************************************)
OneThread == \A t, u \in Thread : t = u

(* No candidate has less work than the tip.                                 *)
WorkInv == \A c \in candidates : nChainWork[tip] <= nChainWork[c]

(* A thread that carries a pindexMostWork over to its next round carries a
   candidate without an invalid block.                                      *)
TargetInv ==
  \A t \in Thread : mostWork[t] # None =>
    /\ pc[t] = "activate" /\ mostWork[t] \in candidates
    /\ Ancestors[mostWork[t]] \cap failedValid = {}

(* What a round makes of the candidates.                                    *)
LEMMA StepCandidates ==
  ASSUME Base, NEW t \in Thread, ActivateBestChainStep(t)
  PROVE  /\ Target(t) \in linked /\ Target(t) \in Block /\ tip' \in Block /\ tip' \in linked
         /\ candidates' \subseteq candidates
         /\ \A c \in candidates : \/ c \in candidates'
                                  \/ c \in Gone(t) \/ Worse(c, tip') \/ c \in Rejected(Target(t))
         /\ candidates' \cap Rejected(Target(t)) = {} /\ candidates' \cap Gone(t) = {}
         /\ Connected(Target(t)) # {} => \A c \in candidates' : ~Worse(c, tip')
         /\ Connected(Target(t)) = {} => nChainWork[tip'] <= nChainWork[tip]
         /\ tip' \in Ancestors[Target(t)] /\ ~Worse(Target(t), tip')
<1>1. /\ Target(t) # None /\ tip' = Moved(Target(t))
      /\ candidates' = (IF Connected(Target(t)) = {} THEN candidates \ Gone(t)
                        ELSE Pruned(candidates \ Gone(t), tip')) \ Rejected(Target(t))
  BY StepEffects, Zenon
<1>2. Target(t) \in linked /\ Target(t) \in Block /\ tip \in Block
  BY <1>1, TargetFacts, BaseFacts
<1>3. /\ tip' \in Block /\ tip' \in Ancestors[Target(t)]
      /\ Connected(Target(t)) = {} => nChainWork[tip'] <= nChainWork[tip]
  BY <1>1, <1>2, MovedFacts
<1>4. tip' \in linked
  BY <1>2, <1>3, BaseFacts
<1>5. ~Worse(Target(t), tip')
  <2>1. tip' = Target(t) \/ nChainWork[tip'] < nChainWork[Target(t)]
    BY <1>2, <1>3, Tree
  <2>2. nSequenceId \in [Block -> Int]
    BY BaseFacts
  <2> QED
    BY <1>2, <1>3, <2>1, <2>2, WorseOrder DEF Worse
<1>6. \A S : Pruned(S, tip') = {c \in S : ~Worse(c, tip')}
  BY DEF Pruned
<1> QED
  BY <1>1, <1>2, <1>3, <1>4, <1>5, <1>6

LEMMA WorkNext == Base /\ WorkInv /\ [Next]_vars => WorkInv'
<1>WorkStep. ASSUME Base, WorkInv, NEW t \in Thread, ActivateBestChainStep(t)
             PROVE  WorkInv'
  <2> USE <1>WorkStep
  <2> SUFFICES ASSUME NEW c \in candidates' PROVE nChainWork[tip'] <= nChainWork[c]
    BY DEF WorkInv
  <2>1. /\ c \in candidates /\ c \in Block /\ tip' \in Block /\ tip \in Block
        /\ nSequenceId \in [Block -> Int]
    BY StepCandidates, BaseFacts
  <2>2. nChainWork[c] \in Nat /\ nChainWork[tip] \in Nat /\ nChainWork[tip'] \in Nat
    BY <2>1, Tree
  <2>3. CASE Connected(Target(t)) = {}
    <3>1. nChainWork[tip'] <= nChainWork[tip]
      BY <2>3, StepCandidates
    <3> QED
      BY <2>1, <2>2, <3>1 DEF WorkInv
  <2>4. CASE Connected(Target(t)) # {}
    <3>1. ~WorseBy(nSequenceId, c, tip')
      BY <2>4, StepCandidates DEF Worse
    <3> QED
      BY <2>1, <3>1, WorseOrder
  <2> QED
    BY <2>3, <2>4
<1>1. Base /\ WorkInv /\ UNCHANGED vars => WorkInv'
  BY DEF WorkInv, vars
<1> SUFFICES ASSUME Base, WorkInv, Next PROVE WorkInv'
  BY <1>1
<1>2. CASE \E b \in Block : AcceptBlockHeader(b) \/ RejectBlockHeader(b)
  BY <1>2 DEF AcceptBlockHeader, RejectBlockHeader, WorkInv
<1>3. ASSUME NEW t \in Thread, NEW b \in Block, NEW r \in BOOLEAN, ProcessNewBlock(t, b, r)
      PROVE  WorkInv'
  <2>1. BlockArrives(t, b) /\ (Ignore(t) \/ Refuse(b) \/ Link(t, b) \/ SetAside(t, b))
    BY <1>3, BlockCases
  <2>2. CASE candidates' = candidates
    BY <2>1, <2>2 DEF BlockArrives, WorkInv
  <2>3. CASE Link(t, b)
    <3> SUFFICES ASSUME NEW c \in candidates', c \notin candidates
                 PROVE nChainWork[tip] <= nChainWork[c]
      BY <2>1 DEF BlockArrives, WorkInv
    <3>1. ~WorseBy(nSequenceId', c, tip)
      BY <2>3 DEF Link
    <3>2. nSequenceId' \in [Block -> Int] /\ candidates' \subseteq linked'
      BY <2>3, LinkFacts
    <3>3. c \in Block /\ tip \in Block
      BY <3>2, BaseNext, BaseFacts DEF Base, TypeOK
    <3> QED
      BY <3>1, <3>2, <3>3, WorseOrder
  <2> QED
    BY <2>1, <2>2, <2>3 DEF Ignore, Refuse, SetAside
<1>4. ASSUME NEW t \in Thread, ActivateDone(t) PROVE WorkInv'
  BY <1>4, DoneEffects DEF WorkInv
<1>5. ASSUME NEW t \in Thread, ActivateBestChainStep(t) PROVE WorkInv'
  BY <1>5, <1>WorkStep
<1>6. ASSUME NEW t \in Thread, NEW b \in Block, PreciousBlock(t, b) PROVE WorkInv'
  BY <1>6 DEF PreciousBlock, WorkInv
<1>7. ASSUME NEW t \in Thread, NEW b \in Operated, InvalidateBlock(t, b) PROVE WorkInv'
  <2> SUFFICES ASSUME NEW c \in candidates' PROVE nChainWork[tip'] <= nChainWork[c]
    BY DEF WorkInv
  <2>1. /\ c \in Block /\ tip \in Block /\ tip' \in Block /\ nSequenceId \in [Block -> Int]
        /\ c \in candidates \/ ~WorseBy(nSequenceId, c, tip')
        /\ nChainWork[tip'] <= nChainWork[tip]
    BY <1>7, InvalidateEffects, BaseFacts DEF Worse
  <2>2. nChainWork[c] \in Nat /\ nChainWork[tip] \in Nat /\ nChainWork[tip'] \in Nat
    BY <2>1, Tree
  <2> QED
    BY <2>1, <2>2, WorseOrder DEF WorkInv
<1>8. ASSUME NEW t \in Thread, NEW b \in Operated, ResetBlockFailureFlags(t, b) PROVE WorkInv'
  <2> SUFFICES ASSUME NEW c \in candidates' PROVE nChainWork[tip] <= nChainWork[c]
    BY <1>8, ResetEffects DEF WorkInv
  <2>1. /\ c \in Block /\ tip \in Block /\ nSequenceId \in [Block -> Int]
        /\ c \in candidates \/ WorseBy(nSequenceId, tip, c)
    BY <1>8, ResetEffects, BaseFacts DEF Worse
  <2> QED
    BY <2>1, WorseOrder DEF WorkInv
<1> QED
  BY <1>2, <1>3, <1>4, <1>5, <1>6, <1>7, <1>8, NextCases, Zenon

(* A round keeps the block it works towards, unless it found an invalid one:
   the block is a candidate on a chain without invalid blocks.              *)
LEMMA TargetKept ==
  ASSUME Base, TargetInv, ActiveChainValid, NEW t \in Thread, ActivateBestChainStep(t)
  PROVE  /\ Target(t) \in candidates /\ Ancestors[Target(t)] \cap failedValid = {}
         /\ Rejected(Target(t)) \cap failedValid = {}
         /\ Rejected(Target(t)) = {} => Target(t) \in candidates'
<1>1. Target(t) # None /\ Target(t) \in Block /\ tip \in Block /\ candidates \subseteq Block
      /\ nSequenceId \in [Block -> Int]
  BY StepEffects, StepCandidates, BaseFacts
<1>2. Target(t) \in candidates /\ Ancestors[Target(t)] \cap failedValid = {} /\ Target(t) \notin Gone(t)
  <2>1. CASE mostWork[t] # None
    BY <2>1 DEF TargetInv, Target, Gone
  <2>2. CASE mostWork[t] = None
    <3>1. Target(t) = FindMostWorkChain
      BY <2>2 DEF Target
    <3>2. Target(t) \in candidates /\ Usable(Target(t))
      BY <1>1, <3>1, FindFacts
    <3>3. Target(t) \notin Gone(t)
      BY <3>2, GoneFacts
    <3> QED
      BY <3>2, <3>3 DEF Usable, OffChain, Failed, ActiveChainValid
  <2> QED
    BY <2>1, <2>2
<1>3. Rejected(Target(t)) \subseteq Ancestors[Target(t)]
  BY <1>1, MovedFacts DEF OffChain
<1>4. Rejected(Target(t)) = {} => Target(t) \in candidates'
  BY <1>2, StepCandidates
<1> QED
  BY <1>2, <1>3, <1>4

SafeInv == WorkInv /\ TargetInv /\ ActiveChainValid

LEMMA SafeNext ==
  ASSUME OneThread
  PROVE  Base /\ SafeInv /\ [Next]_vars => SafeInv'
<1>SafeStep. ASSUME Base, TargetInv, ActiveChainValid, OneThread,
                    NEW t \in Thread, ActivateBestChainStep(t)
             PROVE  TargetInv' /\ ActiveChainValid'
  <2> USE <1>SafeStep
  <2> DEFINE mw == Target(t)
  <2>1. /\ mw # None /\ tip' = Moved(mw) /\ pc[t] = "activate"
        /\ failedValid' = failedValid \cup Rejected(mw)
        /\ IF tip' = mw /\ Rejected(mw) = {}
           THEN pc' = [pc EXCEPT ![t] = "idle"] /\ mostWork' = [mostWork EXCEPT ![t] = None]
           ELSE pc' = pc /\ mostWork' = [mostWork EXCEPT ![t] =
                  IF Rejected(mw) = {} THEN mw ELSE None]
    BY StepEffects, Zenon
  <2>2. /\ mw \in Block /\ tip \in Block /\ Ancestors[mw] \cap failedValid = {}
        /\ Rejected(mw) = {} => mw \in candidates'
    BY TargetKept, StepCandidates, BaseFacts
  <2> HIDE DEF mw
  <2>3. mostWork \in [Thread -> Block \cup {None}]
    BY DEF Base, TypeOK
  <2>4. TargetInv'
    <3> SUFFICES ASSUME NEW u \in Thread, mostWork'[u] # None
                 PROVE  /\ pc'[u] = "activate" /\ mostWork'[u] \in candidates'
                        /\ Ancestors[mostWork'[u]] \cap failedValid' = {}
      BY DEF TargetInv
    <3>1. u = t
      BY DEF OneThread
    <3>2. Rejected(mw) = {} /\ mostWork'[t] = mw /\ pc' = pc
      BY <2>1, <2>3, <3>1
    <3> QED
      BY <2>1, <2>2, <3>1, <3>2
  <2>5. /\ Ancestors[tip'] \subseteq Ancestors[tip] \cup Connected(mw)
        /\ Connected(mw) \subseteq OffChain(mw) /\ Rejected(mw) \subseteq OffChain(mw)
        /\ Rejected(mw) \subseteq Unconnectable /\ Connected(mw) \cap Unconnectable = {}
    BY <2>1, <2>2, MovedFacts
  <2>6. ActiveChainValid'
    BY <2>1, <2>2, <2>5 DEF ActiveChainValid, OffChain
  <2> QED
    BY <2>4, <2>6
(* A call from a thread that is outside ActivateBestChain.                  *)
<1>NoTarget. ASSUME Base, TargetInv, OneThread, NEW t \in Thread, pc[t] = "idle"
             PROVE  /\ \A u \in Thread : mostWork[u] = None
                    /\ Activate(t) => TargetInv'
  <2> USE <1>NoTarget
  <2>1. \A u \in Thread : mostWork[u] = None
    BY DEF TargetInv, OneThread
  <2>2. Activate(t) => \A u \in Thread : mostWork'[u] = None
    BY <2>1, ActivateFacts
  <2> QED
    BY <2>1, <2>2 DEF TargetInv
<1>SafeBlock. ASSUME Base, TargetInv, ActiveChainValid, OneThread,
                     NEW t \in Thread, NEW b \in Block, NEW r \in BOOLEAN, ProcessNewBlock(t, b, r)
              PROVE  TargetInv' /\ ActiveChainValid'
  <2> USE <1>SafeBlock
  <2>1. BlockArrives(t, b) /\ (Ignore(t) \/ Refuse(b) \/ Link(t, b) \/ SetAside(t, b))
    BY BlockCases
  <2>2. pc[t] = "idle" /\ tip' = tip
    BY <2>1 DEF BlockArrives
  <2>3. Ancestors[tip] \subseteq haveData
    BY BaseFacts
  <2>4. CASE Refuse(b)
    <3>1. TargetInv'
      BY <2>2, <2>4, <1>NoTarget DEF Refuse, TargetInv
    <3> QED
      BY <2>2, <2>3, <2>4, <3>1 DEF Refuse, ActiveChainValid
  <2>5. CASE ~Refuse(b)
    <3>1. Activate(t) /\ failedValid' = failedValid
      BY <2>1, <2>5 DEF Ignore, Link, SetAside
    <3> QED
      BY <2>2, <3>1, <1>NoTarget DEF ActiveChainValid
  <2> QED
    BY <2>4, <2>5
<1>1. SafeInv /\ UNCHANGED vars => SafeInv'
  BY DEF SafeInv, WorkInv, TargetInv, ActiveChainValid, vars, flags
<1> SUFFICES ASSUME Base, SafeInv, Next PROVE TargetInv' /\ ActiveChainValid'
  BY <1>1, WorkNext DEF SafeInv
<1>2. ASSUME NEW b \in Block, AcceptBlockHeader(b) \/ RejectBlockHeader(b)
      PROVE  TargetInv' /\ ActiveChainValid'
  BY <1>2 DEF AcceptBlockHeader, RejectBlockHeader, SafeInv, TargetInv, ActiveChainValid, flags
<1>3. ASSUME NEW t \in Thread, NEW b \in Block, NEW r \in BOOLEAN, ProcessNewBlock(t, b, r)
      PROVE  TargetInv' /\ ActiveChainValid'
  BY <1>3, <1>SafeBlock DEF SafeInv
<1>4. ASSUME NEW t \in Thread, ActivateDone(t)
      PROVE  TargetInv' /\ ActiveChainValid'
  <2>1. /\ mostWork' = [mostWork EXCEPT ![t] = None] /\ tip' = tip /\ failedValid' = failedValid
    BY <1>4, DoneEffects
  <2>2. \A u \in Thread : mostWork'[u] = None
    BY <2>1 DEF Base, TypeOK, OneThread
  <2> QED
    BY <2>1, <2>2 DEF SafeInv, TargetInv, ActiveChainValid
<1>5. ASSUME NEW t \in Thread, ActivateBestChainStep(t)
      PROVE  TargetInv' /\ ActiveChainValid'
  BY <1>5, <1>SafeStep DEF SafeInv
<1>6. ASSUME NEW t \in Thread, NEW b \in Block, PreciousBlock(t, b)
      PROVE  TargetInv' /\ ActiveChainValid'
  <2>1. pc[t] = "idle" /\ Activate(t) /\ tip' = tip /\ failedValid' = failedValid
    BY <1>6 DEF PreciousBlock, flags
  <2> QED
    BY <2>1, <1>NoTarget DEF SafeInv, ActiveChainValid
<1>7. ASSUME NEW t \in Thread, NEW b \in Operated, InvalidateBlock(t, b)
      PROVE  TargetInv' /\ ActiveChainValid'
  <2>1. /\ pc[t] = "idle" /\ Activate(t) /\ tip' \in Ancestors[tip]
        /\ b \notin Ancestors[tip'] /\ failedValid' = failedValid \cup {b} /\ tip \in Block
    BY <1>7, InvalidateEffects, BaseFacts
  <2>2. Ancestors[tip'] \subseteq Ancestors[tip]
    BY <2>1, Tree
  <2> QED
    BY <2>1, <2>2, <1>NoTarget DEF SafeInv, ActiveChainValid
<1>8. ASSUME NEW t \in Thread, NEW b \in Operated, ResetBlockFailureFlags(t, b)
      PROVE  TargetInv' /\ ActiveChainValid'
  <2>1. pc[t] = "idle" /\ Activate(t) /\ tip' = tip /\ failedValid' \subseteq failedValid
    BY <1>8, ResetEffects
  <2> QED
    BY <2>1, <1>NoTarget DEF SafeInv, ActiveChainValid
<1> QED
  BY <1>2, <1>3, <1>4, <1>5, <1>6, <1>7, <1>8, NextCases, Zenon

LEMMA SafeInit == Init => SafeInv
<1> SUFFICES ASSUME Init PROVE SafeInv
  OBVIOUS
<1>1. /\ candidates = {Genesis} /\ tip = Genesis /\ failedValid = {}
      /\ \A t \in Thread : mostWork[t] = None
  BY DEF Init
<1>2. Ancestors[tip] \cap (failedValid \cup Unconnectable) = {}
  BY <1>1, Tree, TreeAssumption
<1>3. nChainWork[Genesis] \in Nat
  BY Tree
<1> QED
  BY <1>1, <1>2, <1>3 DEF SafeInv, WorkInv, TargetInv, ActiveChainValid

(* With one thread the candidates have the work of the tip, and what
   ActivateBestChain works towards is a candidate without invalid block.    *)
THEOREM SafeInvariance ==
  ASSUME OneThread
  PROVE  Spec => [](Base /\ SafeInv)
<1>1. Init => Base /\ SafeInv
  BY BaseInit, SafeInit
<1>2. Base /\ SafeInv /\ [Next]_vars => (Base /\ SafeInv)'
  BY BaseNext, SafeNext
<1> QED
  BY <1>1, <1>2, PTL DEF Spec

(* With one thread, whatever the operator calls, no block that the node or
   the operator found invalid, and none that ConnectBlock rejects, is in
   chainActive.                                                             *)
THEOREM ActiveChainCorrect ==
  ASSUME OneThread
  PROVE  Spec => []ActiveChainValid
<1>1. Base /\ SafeInv => ActiveChainValid
  BY DEF SafeInv
<1> QED
  BY <1>1, SafeInvariance, PTL

(* With one thread, whatever the operator calls, a round of ActivateBestChain
   ends on a chain with less work than before only when it found a block
   invalid.                                                                 *)
THEOREM WorkCorrect ==
  ASSUME OneThread
  PROVE  Spec => WorkGivenUpOnlyForInvalid
<1>1. ASSUME Base, SafeInv, NEW t \in Thread, ActivateBestChainStep(t)
      PROVE  nChainWork[tip'] >= nChainWork[tip] \/ failedValid' # failedValid
  <2>1. /\ Target(t) \in candidates /\ Target(t) \in Block /\ tip \in Block
        /\ Rejected(Target(t)) \cap failedValid = {}
        /\ tip' = Moved(Target(t)) /\ failedValid' = failedValid \cup Rejected(Target(t))
    BY <1>1, TargetKept, StepCandidates, StepEffects, BaseFacts DEF SafeInv
  <2>2. CASE Rejected(Target(t)) = {}
    <3>1. nChainWork[tip] <= nChainWork[Target(t)]
      BY <1>1, <2>1 DEF SafeInv, WorkInv
    <3>2. nChainWork[tip] <= nChainWork[Moved(Target(t))]
      BY <2>1, <2>2, <3>1, WorkKept
    <3>3. nChainWork[tip] \in Nat /\ nChainWork[Moved(Target(t))] \in Nat
      BY <2>1, MovedFacts, Tree
    <3> QED
      BY <2>1, <3>2, <3>3
  <2>3. CASE Rejected(Target(t)) # {}
    BY <2>1, <2>3
  <2> QED
    BY <2>2, <2>3
<1>2. Base /\ SafeInv /\ [Next]_vars =>
        [\A t \in Thread : ActivateBestChainStep(t) =>
           \/ nChainWork[tip'] >= nChainWork[tip]
           \/ failedValid' # failedValid]_vars
  BY <1>1
<1> QED
  BY <1>2, SafeInvariance, PTL DEF Spec, WorkGivenUpOnlyForInvalid

(* A block that a round rejects lies above the new tip.                     *)
LEMMA RejectedAbove ==
  ASSUME NEW mw \in Block, tip \in Block, NEW d \in Rejected(mw)
  PROVE  Moved(mw) \in Ancestors[d]
<1>1. /\ d \in Reached(mw) /\ d \in OffChain(mw) /\ d \in Unconnectable
      /\ Parent[d] \in Connected(mw) \cup Ancestors[tip]
  BY MovedFacts DEF Rejected
<1>2. d \in Block /\ d # Genesis /\ d \in Ancestors[mw] /\ d \notin Ancestors[tip]
  BY <1>1, Tree DEF OffChain
<1>3. /\ Moved(mw) \in Block /\ Moved(mw) \in Ancestors[mw]
      /\ Moved(mw) \in Connected(mw) \cup {Fork(mw)}
  BY MovedFacts
<1>4. ~(nChainWork[d] <= nChainWork[Moved(mw)])
  <2> SUFFICES ASSUME nChainWork[d] <= nChainWork[Moved(mw)] PROVE FALSE
    OBVIOUS
  <2>1. d \in Ancestors[Moved(mw)]
    BY <1>2, <1>3, Linear
  <2>2. CASE Moved(mw) \in Connected(mw)
    BY <1>1, <2>1, <2>2 DEF Connected
  <2>3. CASE Moved(mw) = Fork(mw)
    BY <1>2, <2>1, <2>3, ForkFacts
  <2> QED
    BY <1>3, <2>2, <2>3
<1>5. nChainWork[Moved(mw)] <= nChainWork[d]
  BY <1>2, <1>3, <1>4, Tree
<1> QED
  BY <1>2, <1>3, <1>5, Linear

(* With one thread, whatever the operator calls, every round of
   ActivateBestChain leaves the new tip or a successor of it in
   setBlockIndexCandidates, unless the round found that successor invalid:
   what PruneBlockIndexCandidates asserts.                                  *)
THEOREM SuccessorCorrect ==
  ASSUME OneThread
  PROVE  Spec => SuccessorLeft
<1>1. ASSUME Base, SafeInv, NEW t \in Thread, ActivateBestChainStep(t)
      PROVE  \E c \in candidates' \cup (failedValid' \ failedValid) : tip' \in Ancestors[c]
  <2>1. /\ Target(t) \in candidates /\ Target(t) \in Block /\ tip \in Block
        /\ Rejected(Target(t)) \cap failedValid = {}
        /\ tip' \in Ancestors[Target(t)] /\ tip' = Moved(Target(t))
        /\ failedValid' = failedValid \cup Rejected(Target(t))
    BY <1>1, TargetKept, StepCandidates, StepEffects, BaseFacts DEF SafeInv
  <2>2. CASE Rejected(Target(t)) = {}
    BY <1>1, <2>1, <2>2, TargetKept DEF SafeInv
  <2>3. CASE Rejected(Target(t)) # {}
    <3>1. PICK d \in Rejected(Target(t)) : TRUE
      BY <2>3
    <3>2. tip' \in Ancestors[d]
      BY <2>1, <3>1, RejectedAbove
    <3> QED
      BY <2>1, <3>1, <3>2
  <2> QED
    BY <2>2, <2>3
<1>2. Base /\ SafeInv /\ [Next]_vars =>
        [\A t \in Thread : ActivateBestChainStep(t) =>
           \E c \in candidates' \cup (failedValid' \ failedValid) : tip' \in Ancestors[c]]_vars
  BY <1>1
<1> QED
  BY <1>2, SafeInvariance, PTL DEF Spec, SuccessorLeft

(***************************************************************************)
(* Without calls of the operator, for any number of threads.               *)
(***************************************************************************)
Complete(b) == Ancestors[b] \subseteq haveData

(* A failed block without data keeps b from ever being complete: its data is
   not accepted any more.                                                   *)
Blocked(b) == \E x \in Ancestors[b] : x \in Failed /\ x \notin haveData

(* The data of CheckBlockIndex: the flags of invalid blocks, nChainTx and
   mapBlocksUnlinked.                                                       *)
FlagsInv ==
  /\ gFailedBlocks \subseteq failedValid /\ gFailedBlocks \subseteq linked
  /\ failedValid \cap haveData \subseteq Unconnectable
  /\ \A b \in Failed : Invalid(b)
  /\ \A b \in Failed : b \notin linked => Blocked(b)

LinkInv ==
  /\ \A b \in haveData : Complete(b) => b \in linked
  /\ \A b \in haveData : b \in linked \/ b \in Members(unlinked[Parent[b]]) \/ Blocked(b)
  /\ \A p \in Block : Injective(unlinked[p])
  /\ \A p \in Block : \A b \in Members(unlinked[p]) : b \in haveData /\ ~Complete(b)

DataInv == FlagsInv /\ LinkInv

LEMMA LinkedComplete ==
  ASSUME Base
  PROVE  /\ Genesis \in linked
         /\ \A b \in linked : Complete(b)
         /\ \A b \in Block \ {Genesis} : Parent[b] \in linked /\ b \in haveData => Complete(b)
<1>1. Genesis \in linked
  BY BaseFacts, Tree
<1> QED
  BY <1>1, BaseFacts, Tree DEF Complete

LEMMA DataInit == Init => DataInv
<1> SUFFICES ASSUME Init PROVE DataInv
  OBVIOUS
<1>1. /\ haveData = {Genesis} /\ linked = {Genesis} /\ gFailedBlocks = {}
      /\ Failed = {} /\ failedValid = {}
      /\ \A p \in Block : unlinked[p] = <<>>
  BY DEF Init, Failed
<1>2. Members(<<>>) = {} /\ Injective(<<>>)
  BY DEF Members, Injective
<1> QED
  BY <1>1, <1>2 DEF DataInv, FlagsInv, LinkInv

LEMMA DataNext ==
  ASSUME Operated = {}
  PROVE  Base /\ DataInv /\ [Next]_vars => DataInv'
(* The flags only grow, and what they grow by is linked or above an invalid
   block; the data stays.                                                   *)
<1>FlagsGrow. ASSUME Base, DataInv,
                     failedValid \subseteq failedValid', failedChild \subseteq failedChild',
                     failedValid' \subseteq Block,
                     haveData' = haveData, linked' = linked, unlinked' = unlinked,
                     gFailedBlocks' \subseteq failedValid', gFailedBlocks' \subseteq linked,
                     failedValid' \cap haveData \subseteq Unconnectable,
                     \A b \in failedChild' \ failedChild : Invalid(b)',
                     \A b \in (failedValid' \cup failedChild') \ Failed : b \notin linked => Blocked(b)'
              PROVE  DataInv'
  <2> USE <1>FlagsGrow
  <2>1. Failed \subseteq Failed' /\ Failed' = failedValid' \cup failedChild'
    BY DEF Failed
  <2>2. \A b : Blocked(b) => Blocked(b)'
    BY <2>1 DEF Blocked
  <2>3. \A b : Invalid(b) => Invalid(b)'
    BY DEF Invalid
  <2>4. \A b \in failedValid' : Invalid(b)'
    BY Tree DEF Invalid
  <2>6. \A b : Complete(b)' <=> Complete(b)
    BY DEF Complete
  <2>7. LinkInv'
    BY <2>2, <2>6 DEF DataInv, LinkInv, Injective, Members
  <2> SUFFICES FlagsInv'
    BY <2>7 DEF DataInv
  <2> QED
    BY <2>1, <2>2, <2>3, <2>4 DEF DataInv, FlagsInv, Failed
<1>DataHeader. ASSUME Base, DataInv, NEW b \in Block, AcceptBlockHeader(b) \/ RejectBlockHeader(b)
               PROVE  DataInv'
  <2> USE <1>DataHeader
  <2>1. CASE AcceptBlockHeader(b)
    BY <2>1 DEF AcceptBlockHeader, flags, DataInv, FlagsInv, LinkInv, Failed, Invalid, Blocked,
                Complete, Injective, Members
  <2>2. CASE RejectBlockHeader(b)
    <3>1. PICK f \in HeaderFailedBy(b) :
            failedChild' = failedChild \cup (Ancestors[Parent[b]] \ Ancestors[f])
      BY <2>2 DEF RejectBlockHeader
    <3>2. /\ haveData' = haveData /\ linked' = linked /\ unlinked' = unlinked
          /\ failedValid' = failedValid /\ gFailedBlocks' = gFailedBlocks
          /\ Parent[b] \in mapBlockIndex
      BY <2>2 DEF RejectBlockHeader, data, NewHeader
    <3>3. /\ f \in gFailedBlocks /\ f \in Ancestors[Parent[b]] /\ f \in failedValid
          /\ f \in linked /\ Parent[b] \in Block /\ Ancestors[Parent[b]] \subseteq mapBlockIndex
          /\ Ancestors[f] \subseteq haveData /\ failedValid \subseteq Block
          /\ mapBlockIndex \subseteq Block
      BY <3>2, BaseFacts, LinkedComplete DEF HeaderFailedBy, DataInv, FlagsInv, Complete, Failed
    <3>4. ASSUME NEW x \in Ancestors[Parent[b]] \ Ancestors[f]
          PROVE  Invalid(x)' /\ (x \notin linked => Blocked(x)')
      <4>1. f \in Ancestors[x] /\ x \in mapBlockIndex /\ x \in Block
        BY <3>3, <3>4, Comparable
      <4>2. Invalid(x)'
        BY <3>2, <3>3, <4>1 DEF Invalid
      <4>3. ASSUME x \notin linked PROVE Blocked(x)'
        <5>1. ~Complete(x)
          BY <4>1, <4>3, Tree DEF DataInv, LinkInv, Complete
        <5>2. PICK y \in Ancestors[x] : y \notin haveData
          BY <5>1 DEF Complete
        <5>3. y \in Ancestors[Parent[b]] /\ y \notin Ancestors[f]
          BY <3>3, <3>4, <5>2, Tree
        <5> QED
          BY <3>1, <3>2, <5>2, <5>3 DEF Blocked, Failed
      <4> QED
        BY <4>2, <4>3
    <3>5. /\ failedValid \subseteq failedValid' /\ failedChild \subseteq failedChild'
          /\ gFailedBlocks' \subseteq failedValid' /\ gFailedBlocks' \subseteq linked
          /\ failedValid' \cap haveData \subseteq Unconnectable /\ failedValid' \subseteq Block
      BY <3>1, <3>2, <3>3 DEF DataInv, FlagsInv
    <3>6. /\ \A x \in failedChild' \ failedChild : Invalid(x)'
          /\ \A x \in (failedValid' \cup failedChild') \ Failed : x \notin linked => Blocked(x)'
      BY <3>1, <3>2, <3>4 DEF Failed
    <3> QED
      BY <3>2, <3>5, <3>6, <1>FlagsGrow
  <2> QED
    BY <2>1, <2>2
<1>DataDone. ASSUME Base, DataInv, NEW t \in Thread, ActivateDone(t) \/ ActivateBestChainStep(t)
             PROVE  DataInv'
  <2> USE <1>DataDone
  <2> DEFINE R == IF ActivateDone(t) THEN {} ELSE Rejected(Target(t))
  <2>1. /\ failedValid' = failedValid \cup R /\ gFailedBlocks' = gFailedBlocks \cup R
        /\ failedChild' = failedChild \cup (Gone(t) \ Failed)
        /\ haveData' = haveData /\ linked' = linked /\ unlinked' = unlinked
    BY DoneEffects, StepEffects
  <2>2. R \subseteq linked /\ R \subseteq Unconnectable /\ R \subseteq Block
    <3>1. CASE ActivateDone(t)
      BY <3>1
    <3>2. CASE ~ActivateDone(t)
      <4>1. /\ Target(t) \in linked /\ Target(t) \in Block /\ tip \in Block
            /\ Ancestors[Target(t)] \subseteq linked /\ linked \subseteq Block
        BY <3>2, StepCandidates, BaseFacts
      <4> QED
        BY <3>2, <4>1, MovedFacts DEF OffChain
    <3> QED
      BY <3>1, <3>2
  <2> HIDE DEF R
  <2>3. ASSUME NEW d \in Gone(t) PROVE Invalid(d)' /\ d \in linked
    <3>1. PICK h \in Ancestors[d] : h \in Failed
      BY GoneFacts
    <3>2. Ancestors[h] \subseteq Ancestors[d] /\ d \in linked
      BY <3>1, GoneFacts, BaseFacts, Tree
    <3> QED
      BY <2>1, <3>1, <3>2 DEF DataInv, FlagsInv, Invalid
  <2>4. /\ failedValid \subseteq failedValid' /\ failedChild \subseteq failedChild'
        /\ gFailedBlocks' \subseteq failedValid' /\ gFailedBlocks' \subseteq linked
        /\ failedValid' \cap haveData \subseteq Unconnectable /\ failedValid' \subseteq Block
    BY <2>1, <2>2, BaseFacts DEF DataInv, FlagsInv, Failed
  <2>5. /\ \A x \in failedChild' \ failedChild : Invalid(x)'
        /\ \A x \in (failedValid' \cup failedChild') \ Failed : x \notin linked => Blocked(x)'
    BY <2>1, <2>2, <2>3 DEF Failed
  <2> QED
    BY <2>1, <2>4, <2>5, <1>FlagsGrow
<1>DataIgnoreRefuse. ASSUME Base, DataInv, NEW t \in Thread, NEW b \in Block, BlockArrives(t, b),
                            Ignore(t) \/ Refuse(b)
                     PROVE  DataInv'
  <2> USE <1>DataIgnoreRefuse
  <2> DEFINE R == IF Ignore(t) THEN {} ELSE {b}
  <2>1. /\ failedValid' = failedValid \cup R /\ gFailedBlocks' = gFailedBlocks
        /\ failedChild' = failedChild /\ R \cap haveData = {} /\ R \subseteq Block
        /\ haveData' = haveData /\ linked' = linked /\ unlinked' = unlinked
    BY DEF Ignore, Refuse, BlockArrives
  <2> HIDE DEF R
  <2>2. \A x \in R : Blocked(x)'
    BY <2>1, Tree DEF Blocked, Failed
  <2>3. /\ failedValid \subseteq failedValid' /\ failedChild \subseteq failedChild'
        /\ gFailedBlocks' \subseteq failedValid' /\ gFailedBlocks' \subseteq linked
        /\ failedValid' \cap haveData \subseteq Unconnectable /\ failedValid' \subseteq Block
    BY <2>1, BaseFacts DEF DataInv, FlagsInv, Failed
  <2>4. /\ \A x \in failedChild' \ failedChild : Invalid(x)'
        /\ \A x \in (failedValid' \cup failedChild') \ Failed : x \notin linked => Blocked(x)'
    BY <2>1, <2>2 DEF Failed
  <2> QED
    BY <2>1, <2>3, <2>4, <1>FlagsGrow
(* Storing a block that is not failed leaves the flags right.               *)
<1>FlagsStored. ASSUME Base, DataInv, NEW t \in Thread, NEW b \in Block, BlockArrives(t, b),
                       haveData' = haveData \cup {b}, failedValid' = failedValid, linked \subseteq linked'
                PROVE  FlagsInv' /\ \A x : Blocked(x)' <=> Blocked(x)
  <2> USE <1>FlagsStored
  <2>1. /\ failedChild' = failedChild /\ gFailedBlocks' = gFailedBlocks /\ b \notin Failed
    BY DEF BlockArrives
  <2>2. Failed' = Failed
    BY <2>1 DEF Failed
  <2>3. \A x : Blocked(x)' <=> Blocked(x)
    BY <2>1, <2>2 DEF Blocked
  <2>4. \A x : Invalid(x)' <=> Invalid(x)
    BY DEF Invalid
  <2> QED
    BY <2>1, <2>2, <2>3, <2>4 DEF DataInv, FlagsInv, Failed
<1>DataSetAside. ASSUME Base, DataInv, NEW t \in Thread, NEW b \in Block, BlockArrives(t, b), SetAside(t, b)
                 PROVE  DataInv'
  <2> USE <1>DataSetAside
  <2>1. /\ b \notin haveData /\ haveData' = haveData \cup {b} /\ failedValid' = failedValid
        /\ Parent[b] \notin linked /\ linked' = linked
        /\ unlinked' = IF Parent[b] \in Failed THEN unlinked
                       ELSE [unlinked EXCEPT ![Parent[b]] = Append(@, b)]
        /\ b # Genesis /\ Parent[b] \in Block
    BY Tree DEF SetAside, BlockArrives
  <2>2. FlagsInv' /\ \A x : Blocked(x)' <=> Blocked(x)
    BY <2>1, <1>FlagsStored
  <2>3. /\ unlinked \in [Block -> Seq(Block)] /\ haveData \subseteq Block
        /\ haveData' \subseteq Block
    BY <2>1, BaseFacts DEF Waits
  <2>4. \A p \in Block : /\ Members(unlinked[p]) \subseteq Members(unlinked'[p])
                         /\ \A x \in Members(unlinked'[p]) : x \in Members(unlinked[p]) \/ x = b
                         /\ Injective(unlinked'[p])
    <3> TAKE p \in Block
    <3>1. unlinked[p] \in Seq(Block) /\ Injective(unlinked[p]) /\ b \notin Members(unlinked[p])
      BY <2>1, <2>3 DEF DataInv, LinkInv
    <3>2. unlinked'[p] = unlinked[p] \/ unlinked'[p] = Append(unlinked[p], b)
      BY <2>1, <2>3
    <3>3. /\ Members(Append(unlinked[p], b)) = Members(unlinked[p]) \cup {b}
          /\ Injective(Append(unlinked[p], b))
      BY <3>1, AppendFacts, Zenon
    <3>4. CASE unlinked'[p] = unlinked[p]
      BY <3>1, <3>4
    <3>5. CASE unlinked'[p] = Append(unlinked[p], b)
      BY <3>3, <3>5
    <3> QED
      BY <3>2, <3>4, <3>5
  <2>5. Parent[b] \notin Failed => b \in Members(unlinked'[Parent[b]])
    <3> SUFFICES ASSUME Parent[b] \notin Failed PROVE b \in Members(unlinked'[Parent[b]])
      OBVIOUS
    <3>1. unlinked'[Parent[b]] = Append(unlinked[Parent[b]], b) /\ unlinked[Parent[b]] \in Seq(Block)
      BY <2>1, <2>3
    <3> QED
      BY <3>1, AppendFacts
  <2>6. \A x \in haveData' : Complete(x)' => x \in linked
    <3> SUFFICES ASSUME NEW x \in haveData', Complete(x)' PROVE x \in linked
      OBVIOUS
    <3>1. x \in Block /\ x \in Ancestors[x] /\ Ancestors[x] \subseteq haveData \cup {b}
      BY <2>1, <2>3, Tree DEF Complete
    <3>2. b \notin Ancestors[x]
      <4> SUFFICES ASSUME b \in Ancestors[x] PROVE FALSE
        OBVIOUS
      <4>1. /\ Ancestors[Parent[b]] \subseteq Ancestors[x] /\ b \notin Ancestors[Parent[b]]
            /\ Parent[b] \in Ancestors[Parent[b]]
        BY <2>1, <3>1, Tree
      <4>2. Ancestors[Parent[b]] \subseteq haveData /\ Parent[b] \in haveData
        BY <3>1, <4>1
      <4> QED
        BY <2>1, <4>2 DEF DataInv, LinkInv, Complete
    <3>3. Ancestors[x] \subseteq haveData /\ x \in haveData
      BY <3>1, <3>2
    <3> QED
      BY <3>3 DEF DataInv, LinkInv, Complete
  <2>7. \A x \in linked : Complete(x)
    BY LinkedComplete
  <2>8. \A x \in haveData' : x \in linked' \/ x \in Members(unlinked'[Parent[x]]) \/ Blocked(x)'
    <3> TAKE x \in haveData'
    <3>1. CASE x # b
      <4>1. x \in haveData /\ (x = Genesis \/ Parent[x] \in Block) /\ Genesis \in linked
        BY <2>1, <2>3, <3>1, Tree, LinkedComplete
      <4> QED
        BY <2>1, <2>2, <2>4, <4>1 DEF DataInv, LinkInv
    <3>2. CASE x = b /\ Parent[b] \in Failed
      <4>1. Blocked(Parent[b])
        BY <2>1, <3>2 DEF DataInv, FlagsInv
      <4>2. Ancestors[Parent[b]] \subseteq Ancestors[b]
        BY <2>1, Tree
      <4>3. Blocked(b)
        BY <4>1, <4>2 DEF Blocked
      <4> QED
        BY <2>2, <3>2, <4>3
    <3>3. CASE x = b /\ Parent[b] \notin Failed
      BY <2>5, <3>3
    <3> QED
      BY <3>1, <3>2, <3>3
  <2>9. \A p \in Block : \A x \in Members(unlinked'[p]) : x \in haveData' /\ ~Complete(x)'
    <3> TAKE p \in Block
    <3> TAKE x \in Members(unlinked'[p])
    <3>1. x \in haveData' /\ ((x \in haveData /\ ~Complete(x)) \/ x = b)
      BY <2>1, <2>4 DEF DataInv, LinkInv
    <3>2. x \notin linked
      BY <2>1, <2>7, <3>1, BaseFacts
    <3> QED
      BY <2>6, <3>1, <3>2
  <2>10. LinkInv'
    BY <2>1, <2>4, <2>6, <2>8, <2>9 DEF LinkInv, Injective
  <2> QED
    BY <2>2, <2>10 DEF DataInv
<1>DataLink. ASSUME Base, DataInv, NEW t \in Thread, NEW b \in Block, BlockArrives(t, b), Link(t, b)
             PROVE  DataInv'
  <2> USE <1>DataLink
  <2> DEFINE new == Members(NewlyLinked(b))
  <2>1. /\ b \notin haveData /\ haveData' = haveData \cup {b} /\ failedValid' = failedValid
        /\ Parent[b] \in linked /\ linked' = linked \cup new
        /\ unlinked' = [p \in Block |-> IF p \in new THEN <<>> ELSE unlinked[p]]
        /\ b # Genesis /\ b \notin Failed
    BY DEF Link, BlockArrives
  <2>2. FlagsInv' /\ \A x : Blocked(x)' <=> Blocked(x)
    BY <2>1, <1>FlagsStored
  <2>3. /\ b \in new /\ haveData \subseteq Block /\ Waits
        /\ \A x \in new \ {b} : x \in haveData
    BY LinkFacts, BaseFacts
  <2>4. \A p \in new : Members(unlinked[p]) \subseteq new
    <3>1. \A p \in Block : Injective(unlinked[p]) /\ b \notin Members(unlinked[p])
      BY <2>1 DEF DataInv, LinkInv
    <3> QED
      BY <2>3, <3>1, QueueFacts, Zenon
  <2> HIDE DEF new
  <2>5. \A p \in Block : /\ p \in new => Members(unlinked'[p]) = {} /\ Injective(unlinked'[p])
                         /\ p \notin new => unlinked'[p] = unlinked[p]
    <3>1. Members(<<>>) = {} /\ Injective(<<>>)
      BY DEF Members, Injective
    <3> QED
      BY <2>1, <3>1
  <2>6. ASSUME NEW c \in haveData', Complete(c)' PROVE c \in linked'
    <3> DEFINE T == {x \in Block : x \in Ancestors[c] => x \in linked'}
    <3>1. c \in Block /\ c \in Ancestors[c] /\ Ancestors[c] \subseteq haveData'
      BY <2>1, <2>3, <2>6, Tree DEF Complete
    <3>2. Genesis \in T
      BY <2>1, LinkedComplete, Tree
    <3>3. ASSUME NEW x \in Block \ {Genesis}, Parent[x] \in T PROVE x \in T
      <4> SUFFICES ASSUME x \in Ancestors[c] PROVE x \in linked'
        OBVIOUS
      <4>1. /\ Parent[x] \in Ancestors[x] /\ Ancestors[x] \subseteq Ancestors[c]
            /\ Parent[x] \in Block /\ x \in haveData'
        BY <3>1, Tree
      <4>2. Parent[x] \in linked'
        BY <3>3, <4>1
      <4>3. CASE x = b
        BY <2>1, <2>3, <4>3
      <4>4. CASE x # b
        <5>1. x \in haveData
          BY <2>1, <4>1, <4>4
        <5>2. ~Blocked(x)
          BY <2>1, <3>1, <4>1 DEF Blocked
        <5>3. CASE Parent[x] \in linked
          BY <2>1, <5>1, <5>3, LinkedComplete DEF DataInv, LinkInv
        <5>4. CASE Parent[x] \in new
          BY <2>1, <2>4, <5>1, <5>2, <5>4 DEF DataInv, LinkInv
        <5> QED
          BY <2>1, <4>2, <5>3, <5>4
      <4> QED
        BY <4>3, <4>4
    <3>4. c \in T
      <4> HIDE DEF T
      <4> QED
        BY <3>1, <3>2, <3>3, WorkRank, TreeInduction
    <3> QED
      BY <3>1, <3>4
  <2>7. \A x \in haveData' : x \in linked' \/ x \in Members(unlinked'[Parent[x]]) \/ Blocked(x)'
    <3> TAKE x \in haveData'
    <3>1. CASE x = b \/ x = Genesis
      BY <2>1, <2>3, <3>1, LinkedComplete
    <3>2. CASE x # b /\ x # Genesis
      <4>1. x \in haveData /\ Parent[x] \in Block
        BY <2>1, <2>3, <3>2, Tree
      <4>2. x \in linked \/ x \in Members(unlinked[Parent[x]]) \/ Blocked(x)
        BY <4>1 DEF DataInv, LinkInv
      <4> QED
        BY <2>1, <2>2, <2>4, <2>5, <4>1, <4>2
    <3> QED
      BY <3>1, <3>2
  <2>8. \A p \in Block : Injective(unlinked'[p])
    BY <2>5 DEF DataInv, LinkInv
  <2>9. ASSUME NEW p \in Block, NEW x \in Members(unlinked'[p]) PROVE x \in haveData' /\ ~Complete(x)'
    <3>1. p \notin new /\ x \in Members(unlinked[p])
      BY <2>5, <2>9
    <3>2. /\ x \in haveData /\ ~Complete(x) /\ x # Genesis /\ Parent[x] = p /\ x \in Block
      BY <2>3, <3>1 DEF DataInv, LinkInv, Waits
    <3>3. p \notin linked
      BY <3>2, LinkedComplete
    <3>4. p \in Ancestors[x] /\ Ancestors[p] \subseteq Ancestors[x] /\ p \in Ancestors[p]
      BY <3>2, Tree
    <3>5. ~Complete(x)'
      <4> SUFFICES ASSUME Complete(x)' PROVE FALSE
        OBVIOUS
      <4>1. Complete(p)' /\ p \in haveData'
        BY <3>4 DEF Complete
      <4> QED
        BY <2>1, <2>6, <3>1, <3>3, <4>1
    <3> QED
      BY <2>1, <3>2, <3>5
  <2>10. LinkInv'
    BY <2>6, <2>7, <2>8, <2>9 DEF LinkInv, Injective
  <2> QED
    BY <2>2, <2>10 DEF DataInv
<1>1. DataInv /\ UNCHANGED vars => DataInv'
  BY DEF DataInv, FlagsInv, LinkInv, Failed, Invalid, Blocked, Complete, Injective, Members,
         vars, data, flags
<1> SUFFICES ASSUME Base, DataInv, Next PROVE DataInv'
  BY <1>1
<1>2. ASSUME NEW t \in Thread, NEW b \in Block, NEW r \in BOOLEAN, ProcessNewBlock(t, b, r)
      PROVE  DataInv'
  BY <1>2, BlockCases, <1>DataIgnoreRefuse, <1>DataSetAside, <1>DataLink, Zenon
<1> QED
  BY <1>2, <1>DataHeader, <1>DataDone, NextCases, Zenon

(* Without calls of the operator the flags, nChainTx and mapBlocksUnlinked are
   always as CheckBlockIndex wants them.                                    *)
THEOREM DataInvariance ==
  ASSUME Operated = {}
  PROVE  Spec => [](Base /\ DataInv)
<1>1. Init => Base /\ DataInv
  BY BaseInit, DataInit
<1>2. Base /\ DataInv /\ [Next]_vars => (Base /\ DataInv)'
  BY BaseNext, DataNext
<1> QED
  BY <1>1, <1>2, PTL DEF Spec

(* Without calls of the operator, for any number of threads, every entry of
   g_failed_blocks that a new header runs into still has BLOCK_FAILED_VALID:
   the assertion of AcceptBlockHeader.                                      *)
THEOREM FailedBlocksCorrect ==
  ASSUME Operated = {}
  PROVE  Spec => []FailedBlocksMarked
<1>1. Base /\ DataInv => FailedBlocksMarked
  BY DEF DataInv, FlagsInv, FailedBlocksMarked, HeaderFailedBy
<1> QED
  BY <1>1, DataInvariance, PTL

(* The candidates sort no worse than the tip.                               *)
OrderInv == \A c \in candidates : ~Worse(c, tip)

(* Some candidate is on a chain without an invalid block, and the candidates
   have every block that sorts no worse and has no invalid ancestor: what
   ActivateBestChain falls back on when it finds a block invalid.           *)
Sound(c) == Ancestors[c] \cap (failedValid \cup Unconnectable) = {}

Reserve(c) == \A b \in linked : ~Worse(b, c) /\ ~Invalid(b) => b \in candidates

ReturnInv == \E c \in candidates : Sound(c) /\ Reserve(c)

SupplyInv == OrderInv /\ ReturnInv /\ ActiveChainValid

(* A block with a failed ancestor is invalid, and so is what
   FindMostWorkChain discards.                                              *)
LEMMA FailedInvalid ==
  ASSUME Base, DataInv
  PROVE  /\ \A b \in Block : \A x \in Ancestors[b] : x \in Failed => Invalid(b)
         /\ \A t \in Thread : \A d \in Gone(t) : Invalid(d)
         /\ \A c \in candidates : ~Usable(c) => Invalid(c)
         /\ \A c \in candidates : ~Invalid(c) => Usable(c)
<1>1. ASSUME NEW b \in Block, NEW x \in Ancestors[b], x \in Failed PROVE Invalid(b)
  <2>1. Ancestors[x] \subseteq Ancestors[b]
    BY Tree
  <2> QED
    BY <1>1, <2>1 DEF DataInv, FlagsInv, Invalid
<1>2. ASSUME NEW t \in Thread, NEW d \in Gone(t) PROVE Invalid(d)
  <2>1. PICK h \in Ancestors[d] : h \in Failed
    BY <1>2, GoneFacts
  <2>2. d \in Block
    BY <1>2, GoneFacts, BaseFacts
  <2> QED
    BY <1>1, <2>1, <2>2
<1>3. ASSUME NEW c \in candidates, ~Usable(c) PROVE Invalid(c)
  BY <1>1, <1>3, BaseFacts DEF Usable, OffChain
<1> QED
  BY <1>1, <1>2, <1>3

LEMMA SupplyNext ==
  ASSUME Operated = {}
  PROVE  Base /\ DataInv /\ SupplyInv /\ [Next]_vars => SupplyInv'
(* What ReceivedBlockTransactions links was not linked; the others keep their
   sequence ids.                                                            *)
<1>LinkedAnew. ASSUME Base, DataInv, NEW t \in Thread, NEW b \in Block, Link(t, b)
               PROVE  /\ Members(NewlyLinked(b)) \cap linked = {}
                      /\ \A x, y \in linked : WorseBy(nSequenceId', x, y) <=> Worse(x, y)
  <2> USE <1>LinkedAnew
  <2>1. ASSUME NEW d \in Members(NewlyLinked(b)) PROVE d \notin linked
    <3>1. CASE d = b
      BY <3>1, BaseFacts DEF Link
    <3>2. CASE d # b
      <4>1. d \in Members(unlinked[Parent[d]]) /\ d # Genesis /\ Parent[d] \in Members(NewlyLinked(b))
        BY <3>2, LinkFacts
      <4>2. NewlyLinked(b) \in Seq(Block)
        BY QueueFacts, BaseFacts
      <4>3. Parent[d] \in Block
        BY <4>1, <4>2, SeqFacts
      <4>4. ~Complete(d)
        BY <4>1, <4>3 DEF DataInv, LinkInv
      <4> QED
        BY <4>4, LinkedComplete
    <3> QED
      BY <3>1, <3>2
  <2>2. \A x \in linked : nSequenceId'[x] = nSequenceId[x]
    BY <2>1, BaseFacts DEF Link
  <2> QED
    BY <2>1, <2>2 DEF Worse, WorseBy
<1>ChainStep. ASSUME Base, DataInv, ActiveChainValid, NEW t \in Thread, ActivateBestChainStep(t)
              PROVE  /\ ActiveChainValid' /\ ~Invalid(tip')
                     /\ Ancestors[tip'] \cap (failedValid' \cup Unconnectable) = {}
  <2> USE <1>ChainStep
  <2> DEFINE mw == Target(t)
  <2>1. mw \in Block /\ tip \in Block /\ tip' = Moved(mw) /\ Ancestors[mw] \subseteq haveData
        /\ failedValid' = failedValid \cup Rejected(mw)
    BY StepEffects, StepCandidates, BaseFacts
  <2> HIDE DEF mw
  <2>2. /\ Ancestors[tip'] \subseteq Ancestors[tip] \cup Connected(mw)
        /\ Connected(mw) \subseteq OffChain(mw) /\ Rejected(mw) \subseteq OffChain(mw)
        /\ Rejected(mw) \subseteq Unconnectable /\ Connected(mw) \cap Unconnectable = {}
    BY <2>1, MovedFacts
  <2>3. Connected(mw) \cap failedValid = {}
    BY <2>1, <2>2 DEF DataInv, FlagsInv, OffChain
  <2>4. Ancestors[tip'] \cap (failedValid' \cup Unconnectable) = {}
    BY <2>1, <2>2, <2>3 DEF ActiveChainValid, OffChain
  <2> QED
    BY <2>1, <2>4 DEF ActiveChainValid, Invalid
<1>SupplyKept. ASSUME Base, SupplyInv, candidates' = candidates, linked' = linked, tip' = tip,
                      nSequenceId' = nSequenceId, failedValid \subseteq failedValid',
                      failedValid' \cap haveData \subseteq failedValid
               PROVE  SupplyInv'
  <2> USE <1>SupplyKept
  <2>1. PICK c0 \in candidates : Sound(c0) /\ Reserve(c0)
    BY DEF SupplyInv, ReturnInv
  <2>2. Ancestors[c0] \subseteq haveData /\ Ancestors[tip] \subseteq haveData
    BY BaseFacts
  <2>3. \A b : ~Invalid(b)' => ~Invalid(b)
    BY DEF Invalid
  <2>4. ReturnInv'
    BY <2>1, <2>2, <2>3 DEF ReturnInv, Sound, Reserve, Worse
  <2> QED
    BY <2>2, <2>4 DEF SupplyInv, OrderInv, Worse, ActiveChainValid
<1>SupplyDone. ASSUME Base, DataInv, SupplyInv, NEW t \in Thread, ActivateDone(t)
               PROVE  SupplyInv'
  <2> USE <1>SupplyDone
  <2>1. PICK c0 \in candidates : Sound(c0) /\ Reserve(c0)
    BY DEF SupplyInv, ReturnInv
  <2>2. /\ nSequenceId' = nSequenceId /\ linked' = linked /\ failedValid' = failedValid
        /\ tip' = tip /\ candidates' = candidates \ Gone(t)
    BY DoneEffects
  <2>3. \A d \in Gone(t) : Invalid(d)
    BY FailedInvalid
  <2>4. c0 \in candidates'
    BY <2>1, <2>2, <2>3 DEF Sound, Invalid
  <2>5. \A b \in linked : ~Worse(b, c0) /\ ~Invalid(b) => b \in candidates'
    BY <2>1, <2>2, <2>3 DEF Reserve
  <2>6. ReturnInv'
    BY <2>1, <2>2, <2>4, <2>5 DEF ReturnInv, Sound, Reserve, Invalid, Worse
  <2>7. OrderInv'
    BY <2>2 DEF SupplyInv, OrderInv, Worse
  <2> QED
    BY <2>2, <2>6, <2>7 DEF SupplyInv, ActiveChainValid
<1>SupplyLink. ASSUME Base, DataInv, SupplyInv, NEW t \in Thread, NEW b \in Block,
                      BlockArrives(t, b), Link(t, b)
               PROVE  SupplyInv'
  <2> USE <1>SupplyLink
  <2> DEFINE new == Members(NewlyLinked(b))
  <2>1. PICK c0 \in candidates : Sound(c0) /\ Reserve(c0)
    BY DEF SupplyInv, ReturnInv
  <2>2. /\ linked' = linked \cup new /\ failedValid' = failedValid /\ tip' = tip
        /\ candidates' = candidates \cup {d \in new : ~WorseBy(nSequenceId', d, tip)}
    BY DEF Link, BlockArrives
  <2>3. /\ nSequenceId' \in [Block -> Int] /\ linked' \subseteq Block /\ linked \subseteq Block
        /\ tip \in linked /\ candidates \subseteq linked
    <3>1. haveData' \subseteq Block /\ Members(NewlyLinked(b)) \subseteq haveData'
      BY BaseFacts, LinkFacts DEF Link
    <3> QED
      BY <2>2, <3>1, BaseFacts, LinkFacts
  <2>4. \A x, y \in linked : WorseBy(nSequenceId', x, y) <=> Worse(x, y)
    BY <1>LinkedAnew
  <2> HIDE DEF new
  <2>5. \A c \in candidates : ~WorseBy(nSequenceId', c, tip)
    BY <2>3, <2>4 DEF SupplyInv, OrderInv
  <2>6. OrderInv'
    BY <2>2, <2>5 DEF OrderInv, Worse
  <2>7. ASSUME NEW x \in linked', ~WorseBy(nSequenceId', x, c0), ~Invalid(x)
        PROVE  x \in candidates'
    <3>1. CASE x \in linked
      BY <2>1, <2>2, <2>3, <2>4, <2>7, <3>1 DEF Reserve
    <3>2. CASE x \in new
      <4>1. ~WorseBy(nSequenceId', c0, tip)
        BY <2>5
      <4>2. ~WorseBy(nSequenceId', x, tip)
        BY <2>3, <2>7, <4>1, WorseOrder
      <4> QED
        BY <2>2, <3>2, <4>2
    <3> QED
      BY <2>2, <3>1, <3>2
  <2>8. ReturnInv'
    BY <2>1, <2>2, <2>7 DEF ReturnInv, Sound, Reserve, Invalid, Worse
  <2> QED
    BY <2>2, <2>6, <2>8 DEF SupplyInv, ActiveChainValid
<1>OrderStep. ASSUME Base, OrderInv, NEW t \in Thread, ActivateBestChainStep(t)
              PROVE  OrderInv'
  <2> USE <1>OrderStep
  <2>1. nSequenceId' = nSequenceId /\ nSequenceId \in [Block -> Int] /\ tip \in Block /\ tip' \in Block
        /\ tip' = Moved(Target(t)) /\ Target(t) \in Block /\ candidates' \subseteq candidates
        /\ candidates \subseteq Block
    BY StepEffects, StepCandidates, BaseFacts
  <2> SUFFICES ASSUME NEW c \in candidates' PROVE ~WorseBy(nSequenceId, c, tip')
    BY <2>1 DEF OrderInv, Worse
  <2>2. CASE Connected(Target(t)) # {}
    BY <2>2, StepCandidates DEF Worse
  <2>3. CASE Connected(Target(t)) = {}
    <3>1. tip' = Fork(Target(t)) /\ tip' \in Ancestors[tip']
      BY <2>1, <2>3, MovedFacts, Tree
    <3>2. tip' \in Ancestors[tip]
      BY <2>1, <3>1, ForkFacts
    <3>3. tip' = tip \/ nChainWork[tip'] < nChainWork[tip]
      BY <2>1, <3>2, Tree
    <3>4. ~WorseBy(nSequenceId, c, tip)
      BY <2>1 DEF OrderInv, Worse
    <3>5. CASE tip' = tip
      BY <3>4, <3>5
    <3>6. CASE nChainWork[tip'] < nChainWork[tip]
      <4>1. WorseBy(nSequenceId, tip', tip)
        BY <2>1, <3>6, WorseOrder
      <4>2. ~WorseBy(nSequenceId, tip, tip')
        BY <2>1, <4>1, WorseOrder
      <4> QED
        BY <2>1, <3>4, <4>2, WorseOrder
    <3> QED
      BY <3>3, <3>5, <3>6
  <2> QED
    BY <2>2, <2>3
<1>ReturnStep. ASSUME Base, DataInv, SupplyInv, NEW t \in Thread, ActivateBestChainStep(t)
               PROVE  ReturnInv'
  <2> USE <1>ReturnStep
  <2> DEFINE mw == Target(t)
  <2>1. PICK c0 \in candidates : Sound(c0) /\ Reserve(c0)
    BY DEF SupplyInv, ReturnInv
  <2>2. /\ nSequenceId' = nSequenceId /\ linked' = linked
        /\ failedValid' = failedValid \cup Rejected(mw)
        /\ mw \in Block /\ tip \in Block /\ tip' \in Block /\ tip' \in linked
        /\ candidates \subseteq linked /\ linked \subseteq Block
        /\ nSequenceId \in [Block -> Int]
    BY StepEffects, StepCandidates, BaseFacts
  <2>3. /\ \A c \in candidates : \/ c \in candidates' \/ c \in Gone(t)
                                 \/ Worse(c, tip') \/ c \in Rejected(mw)
    BY StepCandidates
  <2>4. /\ Ancestors[tip'] \cap (failedValid' \cup Unconnectable) = {} /\ ~Invalid(tip')
    BY <1>ChainStep DEF SupplyInv
  <2>5. Rejected(mw) \subseteq Unconnectable
    BY <2>2, MovedFacts
  <2> HIDE DEF mw
  <2>6. ASSUME NEW b \in linked, b \in candidates, ~Worse(b, tip'), Ancestors[b] \cap failedValid' = {}
        PROVE  b \in candidates'
    <3>1. ~Invalid(b) /\ b \in Ancestors[b]
      BY <2>2, <2>6, Tree DEF Invalid
    <3>2. b \notin Gone(t)
      BY <3>1, FailedInvalid
    <3>3. b \notin Rejected(mw)
      BY <2>2, <2>6, <3>1
    <3> QED
      BY <2>3, <2>6, <3>2, <3>3
  <2>7. ASSUME NEW b \in linked, Ancestors[b] \cap failedValid' = {}, ~Worse(b, c0)
        PROVE  b \in candidates
    BY <2>1, <2>2, <2>7 DEF Reserve, Invalid
  <2>8. c0 \in Block /\ c0 \in linked /\ Ancestors[c0] \cap (failedValid' \cup Unconnectable) = {}
    BY <2>1, <2>2, <2>5 DEF Sound
  <2>9. CASE ~Worse(c0, tip')
    <3>1. c0 \in candidates'
      BY <2>1, <2>6, <2>8, <2>9
    <3>2. \A b \in linked : ~Worse(b, c0) /\ Ancestors[b] \cap failedValid' = {} => b \in candidates'
      <4> SUFFICES ASSUME NEW b \in linked, ~Worse(b, c0), Ancestors[b] \cap failedValid' = {}
                   PROVE  b \in candidates'
        OBVIOUS
      <4>1. ~WorseBy(nSequenceId, b, tip')
        BY <2>2, <2>8, <2>9, WorseOrder DEF Worse
      <4> QED
        BY <2>6, <2>7, <4>1 DEF Worse
    <3> QED
      BY <2>2, <2>8, <3>1, <3>2 DEF ReturnInv, Sound, Reserve, Invalid, Worse
  <2>10. CASE Worse(c0, tip')
    <3>1. ~WorseBy(nSequenceId, tip', c0) /\ ~WorseBy(nSequenceId, tip', tip')
      BY <2>2, <2>8, <2>10, WorseOrder DEF Worse
    <3>2. tip' \in candidates'
      BY <2>2, <2>4, <2>6, <2>7, <3>1 DEF Worse
    <3>3. \A b \in linked : ~Worse(b, tip') /\ Ancestors[b] \cap failedValid' = {} => b \in candidates'
      <4> SUFFICES ASSUME NEW b \in linked, ~Worse(b, tip'), Ancestors[b] \cap failedValid' = {}
                   PROVE  b \in candidates'
        OBVIOUS
      <4>1. ~WorseBy(nSequenceId, b, c0)
        BY <2>2, <2>8, <2>10, WorseOrder DEF Worse
      <4> QED
        BY <2>6, <2>7, <4>1 DEF Worse
    <3> QED
      BY <2>2, <2>4, <3>2, <3>3 DEF ReturnInv, Sound, Reserve, Invalid, Worse
  <2> QED
    BY <2>9, <2>10
<1>1. Base /\ SupplyInv /\ UNCHANGED vars => SupplyInv'
  BY <1>SupplyKept DEF vars, data, flags, ids
<1> SUFFICES ASSUME Base, DataInv, SupplyInv, Next PROVE SupplyInv'
  BY <1>1
<1>2. ASSUME NEW b \in Block, AcceptBlockHeader(b) \/ RejectBlockHeader(b) PROVE SupplyInv'
  BY <1>2, <1>SupplyKept DEF AcceptBlockHeader, RejectBlockHeader, data, flags, ids
<1>3. ASSUME NEW t \in Thread, NEW b \in Block, NEW r \in BOOLEAN, ProcessNewBlock(t, b, r)
      PROVE  SupplyInv'
  <2>1. BlockArrives(t, b) /\ (Ignore(t) \/ Refuse(b) \/ Link(t, b) \/ SetAside(t, b))
    BY <1>3, BlockCases
  <2>2. CASE Link(t, b)
    BY <2>1, <2>2, <1>SupplyLink
  <2>3. CASE Ignore(t) \/ Refuse(b) \/ SetAside(t, b)
    BY <2>1, <2>3, <1>SupplyKept DEF BlockArrives, Ignore, Refuse, SetAside
  <2> QED
    BY <2>1, <2>2, <2>3
<1>4. ASSUME NEW t \in Thread, ActivateDone(t) PROVE SupplyInv'
  BY <1>4, <1>SupplyDone
<1>5. ASSUME NEW t \in Thread, ActivateBestChainStep(t) PROVE SupplyInv'
  BY <1>5, <1>ReturnStep, <1>OrderStep, <1>ChainStep DEF SupplyInv
<1> QED
  BY <1>2, <1>3, <1>4, <1>5, NextCases, Zenon

LEMMA SupplyInit == Init => SupplyInv
<1> SUFFICES ASSUME Init PROVE SupplyInv
  OBVIOUS
<1>1. /\ candidates = {Genesis} /\ tip = Genesis /\ failedValid = {} /\ linked = {Genesis}
      /\ Genesis \in Block /\ nSequenceId \in [Block -> Int]
  BY BaseInit, BaseFacts DEF Init
<1>2. Ancestors[Genesis] \cap (failedValid \cup Unconnectable) = {}
  BY <1>1, Tree, TreeAssumption
<1>3. ~Worse(Genesis, Genesis)
  BY <1>1, WorseOrder DEF Worse
<1> QED
  BY <1>1, <1>2, <1>3 DEF SupplyInv, OrderInv, ReturnInv, Sound, Reserve, ActiveChainValid

(* Without calls of the operator, for any number of threads, there is always
   a candidate without an invalid block to fall back on.                    *)
THEOREM SupplyInvariance ==
  ASSUME Operated = {}
  PROVE  Spec => [](Base /\ DataInv /\ SupplyInv)
<1>1. Init => Base /\ DataInv /\ SupplyInv
  BY BaseInit, DataInit, SupplyInit
<1>2. Base /\ DataInv /\ SupplyInv /\ [Next]_vars => (Base /\ DataInv /\ SupplyInv)'
  BY BaseNext, DataNext, SupplyNext
<1> QED
  BY <1>1, <1>2, PTL DEF Spec

(* Without calls of the operator, for any number of threads that interleave
   in ActivateBestChain, setBlockIndexCandidates is never empty.            *)
THEOREM CandidatesCorrect ==
  ASSUME Operated = {}
  PROVE  Spec => []CandidatesNotEmpty
<1>1. Base /\ DataInv /\ SupplyInv => CandidatesNotEmpty
  BY DEF SupplyInv, ReturnInv, CandidatesNotEmpty
<1> QED
  BY <1>1, SupplyInvariance, PTL

(* Without calls of the operator, for any number of threads that interleave
   in ActivateBestChain, no invalid block is in chainActive.                *)
THEOREM ActiveChainCorrectThreads ==
  ASSUME Operated = {}
  PROVE  Spec => []ActiveChainValid
<1>1. Base /\ DataInv /\ SupplyInv => ActiveChainValid
  BY DEF SupplyInv
<1> QED
  BY <1>1, SupplyInvariance, PTL

(***************************************************************************)
(* One thread and no calls of the operator.                                *)
(***************************************************************************)
(* Every candidate that sorts better than b is invalid.                     *)
Hopeless(b) == \A c \in candidates : Worse(b, c) => Invalid(c)

BestInv ==
  /\ \A t \in Thread : mostWork[t] # None => mostWork[t] # tip /\ Hopeless(mostWork[t])
  /\ Quiet => Hopeless(tip)

FullInv == DataInv /\ SupplyInv /\ SafeInv /\ BestInv

(* What a thread works towards is the best candidate that is not invalid.   *)
LEMMA TargetBest ==
  ASSUME Base, FullInv, NEW t \in Thread, Target(t) # None
  PROVE  Hopeless(Target(t))
<1>1. CASE mostWork[t] # None
  BY <1>1 DEF FullInv, BestInv, Target
<1>2. CASE mostWork[t] = None
  <2>1. candidates \subseteq Block /\ nSequenceId \in [Block -> Int]
    BY BaseFacts
  <2>2. \A c \in candidates : Usable(c) => ~Worse(FindMostWorkChain, c)
    BY <1>2, <2>1, FindFacts DEF Target
  <2>3. Target(t) = FindMostWorkChain
    BY <1>2 DEF Target
  <2> QED
    BY <2>2, <2>3, FailedInvalid DEF FullInv, Hopeless
<1> QED
  BY <1>1, <1>2

(* The candidates have all that sorts no worse than the best of them that is
   not invalid.                                                             *)
LEMMA BestReserve ==
  ASSUME Base, FullInv, NEW b \in Block, Hopeless(b)
  PROVE  Reserve(b)
<1>1. PICK c0 \in candidates : Sound(c0) /\ Reserve(c0)
  BY DEF FullInv, SupplyInv, ReturnInv
<1>2. c0 \in Block /\ linked \subseteq Block /\ nSequenceId \in [Block -> Int]
  BY BaseFacts
<1>3. ~WorseBy(nSequenceId, b, c0)
  BY <1>1 DEF Hopeless, Sound, Invalid, Worse
<1> SUFFICES ASSUME NEW x \in linked, ~Worse(x, b), ~Invalid(x) PROVE x \in candidates
  BY DEF Reserve
<1>4. ~WorseBy(nSequenceId, x, c0)
  BY <1>2, <1>3, WorseOrder DEF Worse
<1> QED
  BY <1>1, <1>4 DEF Reserve, Worse

LEMMA BestNext ==
  ASSUME OneThread, Operated = {}
  PROVE  Base /\ FullInv /\ [Next]_vars => BestInv'
(* The steps that leave the candidates and the tip alone.                   *)
<1>BestKept. ASSUME BestInv, candidates' = candidates, tip' = tip, nSequenceId' = nSequenceId,
                    failedValid \subseteq failedValid', pc' = pc, mostWork' = mostWork
             PROVE  BestInv'
  BY <1>BestKept, <1>BestKept DEF BestInv, Hopeless, Worse, Invalid, Quiet
<1>BestStep. ASSUME Base, FullInv, OneThread, NEW t \in Thread, ActivateBestChainStep(t)
             PROVE  BestInv'
  <2> USE <1>BestStep
  <2> DEFINE mw == Target(t)
  <2>1. /\ mw # None /\ pc[t] = "activate" /\ nSequenceId' = nSequenceId
        /\ failedValid' = failedValid \cup Rejected(mw)
        /\ IF tip' = mw /\ Rejected(mw) = {}
           THEN pc' = [pc EXCEPT ![t] = "idle"] /\ mostWork' = [mostWork EXCEPT ![t] = None]
           ELSE pc' = pc /\ mostWork' = [mostWork EXCEPT ![t] =
                  IF Rejected(mw) = {} THEN mw ELSE None]
    BY StepEffects, Zenon
  <2>2. Hopeless(mw)
    BY <2>1, TargetBest
  <2>3. candidates' \subseteq candidates /\ mostWork \in [Thread -> Block \cup {None}]
    BY StepCandidates DEF Base, TypeOK
  <2> HIDE DEF mw
  <2>4. \A c \in candidates' : Worse(mw, c) => Invalid(c)'
    BY <2>1, <2>2, <2>3 DEF Hopeless, Invalid
  <2>5. CASE tip' = mw /\ Rejected(mw) = {}
    <3>1. \A u \in Thread : mostWork'[u] = None
      BY <2>1, <2>3, <2>5 DEF OneThread
    <3>2. Hopeless(tip)'
      BY <2>1, <2>4, <2>5 DEF Hopeless, Worse
    <3> QED
      BY <3>1, <3>2 DEF BestInv
  <2>6. CASE ~(tip' = mw /\ Rejected(mw) = {})
    <3>1. pc'[t] = "activate"
      BY <2>1, <2>6
    <3>2. ~Quiet'
      BY <3>1 DEF Quiet
    <3>3. ASSUME NEW u \in Thread, mostWork'[u] # None
          PROVE  /\ mostWork'[u] # tip'
                 /\ \A c \in candidates' : WorseBy(nSequenceId', mostWork'[u], c) => Invalid(c)'
      <4>1. u = t
        BY DEF OneThread
      <4>2. mostWork'[u] = mw /\ Rejected(mw) = {}
        BY <2>1, <2>3, <2>6, <3>3, <4>1
      <4> QED
        BY <2>1, <2>4, <2>6, <4>2 DEF Worse
    <3> QED
      BY <3>2, <3>3 DEF BestInv, Hopeless, Worse
  <2> QED
    BY <2>5, <2>6
<1>BestDone. ASSUME Base, FullInv, OneThread, NEW t \in Thread, ActivateDone(t)
             PROVE  BestInv'
  <2> USE <1>BestDone
  <2>1. /\ Target(t) \in {None, tip} /\ candidates' = candidates \ Gone(t)
        /\ mostWork' = [mostWork EXCEPT ![t] = None] /\ tip' = tip
        /\ nSequenceId' = nSequenceId /\ failedValid' = failedValid
    BY DoneEffects
  <2>2. \A u \in Thread : mostWork'[u] = None
    BY <2>1 DEF OneThread, Base, TypeOK
  <2>3. Target(t) # None
    <3> SUFFICES ASSUME Target(t) = None PROVE FALSE
      OBVIOUS
    <3>1. FindMostWorkChain = None
      BY DEF Target
    <3>2. PICK c0 \in candidates : Sound(c0)
      BY DEF FullInv, SupplyInv, ReturnInv
    <3>3. Usable(c0)
      BY <3>2, FailedInvalid DEF FullInv, Sound, Invalid
    <3>4. candidates \subseteq Block /\ nSequenceId \in [Block -> Int]
      BY BaseFacts
    <3> QED
      BY <3>1, <3>2, <3>3, <3>4, FindFacts
  <2>4. Hopeless(tip)
    BY <2>1, <2>3, TargetBest
  <2>5. Hopeless(tip)'
    BY <2>1, <2>4 DEF Hopeless, Worse, Invalid
  <2> QED
    BY <2>2, <2>5 DEF BestInv
<1>1. BestInv /\ UNCHANGED vars => BestInv'
  BY <1>BestKept DEF vars, flags, ids
<1> SUFFICES ASSUME Base, FullInv, Next PROVE BestInv'
  BY <1>1 DEF FullInv
<1>2. ASSUME NEW b \in Block, AcceptBlockHeader(b) \/ RejectBlockHeader(b) PROVE BestInv'
  BY <1>2, <1>BestKept DEF AcceptBlockHeader, RejectBlockHeader, flags, ids, FullInv
<1>3. ASSUME NEW t \in Thread, NEW b \in Block, NEW r \in BOOLEAN, ProcessNewBlock(t, b, r)
      PROVE  BestInv'
  <2>1. BlockArrives(t, b) /\ (Ignore(t) \/ Refuse(b) \/ Link(t, b) \/ SetAside(t, b))
    BY <1>3, BlockCases
  <2>2. CASE Refuse(b)
    BY <2>1, <2>2, <1>BestKept DEF BlockArrives, Refuse, FullInv
  <2>3. CASE Ignore(t) \/ Link(t, b) \/ SetAside(t, b)
    <3>1. Activate(t)
      BY <2>3 DEF Ignore, Link, SetAside
    <3>2. pc'[t] = "activate" /\ mostWork'[t] = None
      BY <3>1, ActivateFacts
    <3>3. \A u \in Thread : mostWork'[u] = None
      BY <3>2 DEF OneThread
    <3>4. ~Quiet'
      BY <3>2 DEF Quiet
    <3> QED
      BY <3>3, <3>4 DEF BestInv
  <2> QED
    BY <2>1, <2>2, <2>3
<1>4. ASSUME NEW t \in Thread, ActivateDone(t) PROVE BestInv'
  BY <1>4, <1>BestDone
<1>5. ASSUME NEW t \in Thread, ActivateBestChainStep(t) PROVE BestInv'
  BY <1>5, <1>BestStep
<1> QED
  BY <1>2, <1>3, <1>4, <1>5, NextCases, Zenon

LEMMA BestInit == Init => BestInv
<1> SUFFICES ASSUME Init PROVE BestInv
  OBVIOUS
<1>1. /\ candidates = {Genesis} /\ tip = Genesis /\ \A t \in Thread : mostWork[t] = None
      /\ Genesis \in Block /\ nSequenceId \in [Block -> Int]
  <2>1. candidates = {Genesis} /\ tip = Genesis /\ \A t \in Thread : mostWork[t] = None
    BY DEF Init
  <2> QED
    BY <2>1, BaseInit, BaseFacts
<1>2. ~Worse(Genesis, Genesis)
  BY <1>1, WorseOrder DEF Worse
<1> QED
  BY <1>1, <1>2 DEF BestInv, Hopeless

(* With one thread and no calls of the operator, ActivateBestChain returns
   only when every better candidate has an invalid block.                   *)
THEOREM FullInvariance ==
  ASSUME OneThread, Operated = {}
  PROVE  Spec => [](Base /\ FullInv)
<1>1. Init => Base /\ FullInv
  BY BaseInit, DataInit, SupplyInit, SafeInit, BestInit DEF FullInv
<1>2. Base /\ FullInv /\ [Next]_vars => (Base /\ FullInv)'
  BY BaseNext, DataNext, SupplyNext, SafeNext, BestNext DEF FullInv
<1> QED
  BY <1>1, <1>2, PTL DEF Spec

(* With one thread and no calls of the operator, the assertions of
   CheckBlockIndex hold.                                                    *)
THEOREM CheckBlockIndexCorrect ==
  ASSUME OneThread, Operated = {}
  PROVE  Spec => []CheckBlockIndex
<1>1. ASSUME Base, FullInv PROVE CheckBlockIndex
  <2>1. Quiet => Reserve(tip)
    BY <1>1, BestReserve, BaseFacts DEF FullInv, BestInv
  <2>2. \A c \in candidates : c \in linked /\ ~Worse(c, tip)
    BY <1>1, BaseFacts DEF FullInv, SupplyInv, OrderInv
  <2>3. \A b \in Failed : Invalid(b)
    BY <1>1 DEF FullInv, DataInv, FlagsInv
  <2>4. linked = {b \in mapBlockIndex : Ancestors[b] \subseteq haveData}
    <3>1. \A b \in mapBlockIndex : b \in Ancestors[b]
      BY <1>1, BaseFacts, Tree
    <3> QED
      BY <1>1, <3>1, BaseFacts, LinkedComplete DEF FullInv, DataInv, LinkInv, Complete
  <2>5. ASSUME NEW b \in haveData
        PROVE  \/ Ancestors[b] \subseteq haveData \/ Invalid(b)
               \/ b \in Members(unlinked[Parent[b]])
    <3>1. Blocked(b) => Invalid(b)
      BY <1>1, BaseFacts, FailedInvalid DEF Blocked, FullInv
    <3> QED
      BY <1>1, <2>5, <3>1, LinkedComplete DEF FullInv, DataInv, LinkInv, Complete
  <2>6. \A p \in Block : \A b \in Members(unlinked[p]) :
          b \in haveData /\ ~(Ancestors[b] \subseteq haveData) /\ Parent[b] = p
    BY <1>1 DEF FullInv, DataInv, LinkInv, Complete, Base, Waits
  <2>7. ASSUME NEW p \in Block, NEW i \in DOMAIN unlinked[p], NEW j \in DOMAIN unlinked[p],
               unlinked[p][i] = unlinked[p][j]
        PROVE  i = j
    <3>1. unlinked[p] \in Seq(Block) /\ Injective(unlinked[p])
      BY <1>1 DEF Base, Waits, FullInv, DataInv, LinkInv
    <3>2. DOMAIN unlinked[p] = 1..Len(unlinked[p])
      BY <3>1, SeqFacts
    <3> QED
      BY <2>7, <3>1, <3>2 DEF Injective
  <2> QED
    BY <2>1, <2>2, <2>3, <2>4, <2>5, <2>6, <2>7 DEF CheckBlockIndex, Reserve
<1> QED
  BY <1>1, FullInvariance, PTL

(* With one thread and no calls of the operator, no chain without an invalid
   block has more work than chainActive once ActivateBestChain has returned. *)
THEOREM BestChainCorrect ==
  ASSUME OneThread, Operated = {}
  PROVE  Spec => []BestChainActive
<1>1. ASSUME Base, FullInv PROVE BestChainActive
  <2> SUFFICES ASSUME Quiet, NEW b \in linked, nChainWork[b] > nChainWork[tip], ~Invalid(b)
               PROVE  FALSE
    BY DEF BestChainActive, Invalid, Failed
  <2>1. b \in Block /\ tip \in Block /\ nSequenceId \in [Block -> Int]
    BY <1>1, BaseFacts
  <2>2. nChainWork[tip] < nChainWork[b]
    BY <2>1, Tree
  <2>3. WorseBy(nSequenceId, tip, b)
    BY <2>1, <2>2, WorseOrder
  <2>4. ~WorseBy(nSequenceId, b, tip)
    BY <2>1, <2>3, WorseOrder
  <2>5. Reserve(tip) /\ Hopeless(tip)
    BY <1>1, <2>1, BestReserve DEF FullInv, BestInv
  <2> QED
    BY <2>3, <2>4, <2>5 DEF Reserve, Hopeless, Worse
<1> QED
  BY <1>1, FullInvariance, PTL
=============================================================================
