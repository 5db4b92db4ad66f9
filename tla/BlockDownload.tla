--------------------------- MODULE BlockDownload ---------------------------
(***************************************************************************)
(* The block download of net_processing.cpp: which headers and blocks are  *)
(* asked of which peer, how the tables of blocks in flight follow the      *)
(* answers, and how peers that do not answer are given up.                 *)
(*                                                                         *)
(* Three threads take steps: the message handler, which processes one      *)
(* message or runs SendMessages for one peer; the socket thread, which     *)
(* connects and finalizes peers; and a thread that submits a block it      *)
(* mined.  A step is what happens while cs_main is held; the handler       *)
(* releases it before ProcessNewBlock, and "processing" is what it is      *)
(* about to do then.                                                       *)
(*                                                                         *)
(* Abstractions.  A block's work is its height.  Every peer has witness    *)
(* data and is neither fClient nor fOneShot; an outbound peer is not a     *)
(* manual connection.  nMinimumChainWork is 0, and chains are shorter than *)
(* MIN_BLOCKS_TO_KEEP and than a locator's dense part.  A time in the past *)
(* is kept as the number of ticks since, a time in the future as the       *)
(* number of ticks that are left; -1 is none.  How the tip is chosen is    *)
(* module ChainSelection: here it moves to a linked block of most work.    *)
(***************************************************************************)
EXTENDS Integers, Sequences, FiniteSets, FiniteSetsExt, SequencesExt

CONSTANTS Peer,
          Prompt,       \* peers that answer every request at once
          PeerTip,      \* the tip of a peer's chain
          Outbound,     \* peers we connected to: preferred for download
          Whitelisted,
          Compact,      \* peers with fSupportsDesiredCmpctVersion
          Block,        \* every block but the genesis block, which is 0
          Parent,
          Invalid,      \* blocks that fail ContextualCheckBlock
          Recent,       \* blocks less than a day old
          Fresh,        \* blocks less than twenty target spacings old
          Mined,        \* blocks that reach the node through submitblock
          None,
          MAX_BLOCKS_IN_TRANSIT_PER_PEER, BLOCK_DOWNLOAD_WINDOW, MAX_HEADERS_RESULTS,
          MAX_OUTBOUND_PEERS_TO_PROTECT,
          BLOCK_STALLING_TIMEOUT, BLOCK_DOWNLOAD_TIMEOUT_BASE,  \* in ticks
          BLOCK_DOWNLOAD_TIMEOUT_PER_PEER, HEADERS_DOWNLOAD_TIMEOUT,
          CHAIN_SYNC_TIMEOUT, HEADERS_RESPONSE_TIME,
          MaxConnects,  \* a bound on the connections of a peer
          MaxAnnounces  \* a bound on the blocks that peers announce unasked

Branch[b \in Block \cup {0}] == IF b = 0 THEN <<0>> ELSE Append(Branch[Parent[b]], b)
Ancestors == [b \in Block \cup {0} |-> ToSet(Branch[b])]
Height == [b \in Block \cup {0} |-> Len(Branch[b]) - 1]
nHeight(b) == Height[b]
GetAncestor(b, h) == CHOOSE a \in Ancestors[b] : nHeight(a) = h
Highest(s) == CHOOSE b \in s : \A x \in s : nHeight(x) <= nHeight(b)
Lowest(s) == CHOOSE b \in s : \A x \in s : nHeight(b) <= nHeight(x)
LastCommonAncestor(a, b) == Highest(Ancestors[a] \cap Ancestors[b])

\* The blocks of set s in the order of their height.
Ascending(s) == SetToSortSeq(s, LAMBDA a, b : nHeight(a) < nHeight(b))

AtMost(seq, n) == SubSeq(seq, 1, Min({n, Len(seq)}))

\* The oldest age any comparison distinguishes.
MaxAge ==
  1 + Max({BLOCK_STALLING_TIMEOUT,
           BLOCK_DOWNLOAD_TIMEOUT_BASE + BLOCK_DOWNLOAD_TIMEOUT_PER_PEER * (Cardinality(Peer) - 1)})

ASSUME DownloadAssumption ==
  /\ Prompt \cup Outbound \cup Whitelisted \cup Compact \subseteq Peer /\ None \notin Peer
  /\ Block \subseteq Nat \ {0} /\ Parent \in [Block -> Block \cup {0}]
  /\ \A b \in Block : Parent[b] < b /\ Parent[b] \notin Invalid
  /\ PeerTip \in [Peer -> Block] /\ Invalid \cap Mined = {}
  /\ Fresh \subseteq Recent /\ Recent \subseteq Block \cup {0}
  /\ \A a, b \in Block \cup {0} : nHeight(a) <= nHeight(b) =>
       (a \in Recent => b \in Recent) /\ (a \in Fresh => b \in Fresh)

VARIABLES mapBlockIndex, haveData, failed, connected, tip, \* the block tree
          mapNodeState,        \* the peers that have a CNodeState
          fDisconnect,         \* those that are about to be disconnected
          nodeState,           \* their CNodeState
          mapBlocksInFlight,   \* the peer a block was asked of, or None
          partialBlock,        \* blocks in flight with a partialBlock
          nPeersWithValidatedDownloads, nPreferredDownload, nSyncStarted,
          nProtected,          \* g_outbound_peers_with_protect_from_disconnect
          processing,          \* the block the handler is about to process
          requests,            \* what a peer was asked and has not answered
          connects, announces  \* how often; see the bounds

chain == <<mapBlockIndex, haveData, failed, connected, tip>>
tables == <<nodeState, mapBlocksInFlight, partialBlock, nPeersWithValidatedDownloads>>
counters == <<nPreferredDownload, nSyncStarted, nProtected>>
vars == <<chain, tables, counters, mapNodeState, fDisconnect, processing, requests, connects, announces>>

NewState ==
  [pindexBestKnownBlock |-> None, hashLastUnknownBlock |-> None, pindexLastCommonBlock |-> None,
   vBlocksInFlight |-> <<>>, nBlocksInFlight |-> 0, nDownloadingSince |-> 0, nStallingSince |-> -1,
   fSyncStarted |-> FALSE, nHeadersSyncTimeout |-> -1,
   m_timeout |-> -1, m_work_header |-> None, m_sent_getheaders |-> FALSE, m_protect |-> FALSE]

\* The tables as one value, which the operators below transform.
Tables ==
  [node |-> nodeState, flight |-> mapBlocksInFlight, partial |-> partialBlock,
   downloading |-> nPeersWithValidatedDownloads]

SetTables(d) ==
  /\ nodeState' = d.node /\ mapBlocksInFlight' = d.flight /\ partialBlock' = d.partial
  /\ nPeersWithValidatedDownloads' = d.downloading

fPreferredDownload(p) == p \in Outbound \cup Whitelisted
Has(p) == Ancestors[PeerTip[p]] \ {0}
Known == mapBlockIndex \cup {0}
chainActive == Ancestors[tip]
Linked(b) == Ancestors[b] \subseteq haveData \cup {0}    \* nChainTx # 0

\* Blocks of one height are alike in what the code reads of pindexBestHeader.
pindexBestHeader == Highest(Known)
CanDirectFetch == tip \in Fresh
IsInitialBlockDownload == tip \notin Recent    \* the height of tip never falls

-----------------------------------------------------------------------------
(* The tables of blocks in flight *)

\* What MarkBlockAsReceived does to the state of the peer.  Every caller of
\* MarkBlockAsInFlight passes pindex, so fValidatedHeaders is true and
\* nBlocksInFlightValidHeaders is nBlocksInFlight.
ReceivedKeepsStalling(s, b) ==
  [s EXCEPT !.vBlocksInFlight = Remove(@, b), !.nBlocksInFlight = @ - 1,
            !.nDownloadingSince = IF Head(s.vBlocksInFlight) = b THEN 0 ELSE @]

Received(s, b) ==
  [s EXCEPT !.vBlocksInFlight = Remove(@, b), !.nBlocksInFlight = @ - 1, !.nStallingSince = -1,
            !.nDownloadingSince = IF Head(s.vBlocksInFlight) = b THEN 0 ELSE @]

MarkBlockAsReceived(d, b) ==
  IF d.flight[b] = None THEN d
  ELSE [node |-> [d.node EXCEPT ![d.flight[b]] = Received(@, b)],
        flight |-> [d.flight EXCEPT ![b] = None],
        partial |-> d.partial \ {b},
        downloading |-> d.downloading - (IF d.node[d.flight[b]].nBlocksInFlight = 1 THEN 1 ELSE 0)]

\* For each of a sequence of blocks.  compact: the caller passes pit, and the
\* entry gets a partialBlock.  A block that is in flight from another peer is
\* never asked for again, so it needs no MarkBlockAsReceived first.
MarkBlocksAsInFlight(d, p, blocks, compact) ==
  LET new == SelectSeq(blocks, LAMBDA b : d.flight[b] # p)
      s == d.node[p]
      begins == s.nBlocksInFlight = 0 /\ new # <<>>
  IN [node |-> [d.node EXCEPT ![p] =
        [s EXCEPT !.vBlocksInFlight = @ \o new, !.nBlocksInFlight = @ + Len(new),
                  !.nDownloadingSince = IF begins THEN 0 ELSE @]],
      flight |-> [b \in Block |-> IF b \in ToSet(new) THEN p ELSE d.flight[b]],
      partial |-> IF compact THEN d.partial \cup ToSet(blocks) ELSE d.partial,
      downloading |-> d.downloading + (IF begins THEN 1 ELSE 0)]

Better(s, b) == s.pindexBestKnownBlock = None \/ nHeight(b) >= nHeight(s.pindexBestKnownBlock)

\* known is the block index at the time of the call.
ProcessBlockAvailability(s, known) ==
  IF s.hashLastUnknownBlock \notin known THEN s
  ELSE [s EXCEPT !.hashLastUnknownBlock = None,
                 !.pindexBestKnownBlock = IF Better(s, s.hashLastUnknownBlock)
                                          THEN s.hashLastUnknownBlock ELSE @]

UpdateBlockAvailability(d, p, b, known) ==
  LET s == ProcessBlockAvailability(d.node[p], known)
  IN [d EXCEPT !.node[p] =
        IF b \notin known THEN [s EXCEPT !.hashLastUnknownBlock = b]
        ELSE IF Better(s, b) THEN [s EXCEPT !.pindexBestKnownBlock = b] ELSE s]

-----------------------------------------------------------------------------
(* Choosing what to download *)

\* The best block known of the peer has at least the work of our tip.
LevelWithTip(s) ==
  s.pindexBestKnownBlock # None /\ nHeight(s.pindexBestKnownBlock) >= nHeight(tip)

\* Where the walk towards a peer's best block begins.
LastCommonBlock(s) ==
  LET guess == IF s.pindexLastCommonBlock # None THEN s.pindexLastCommonBlock
               ELSE GetAncestor(tip, Min({nHeight(s.pindexBestKnownBlock), nHeight(tip)}))
  IN LastCommonAncestor(guess, s.pindexBestKnownBlock)

\* The walk: the last common block it leaves, the blocks to ask of p and the
\* staller.  An invalid block ends the walk, and is the last of its branch;
\* the linked blocks come first.
WalkToFetch(p, best, common, count) ==
  LET nWindowEnd == nHeight(common) + BLOCK_DOWNLOAD_WINDOW
      vToFetch == {b \in Ancestors[best] : nHeight(common) < nHeight(b) /\ nHeight(b) <= nWindowEnd + 1}
      missing == vToFetch \ (haveData \cup failed)
      free == {b \in missing : mapBlocksInFlight[b] = None}
      blocks == AtMost(Ascending({b \in free : nHeight(b) <= nWindowEnd}), count)
      waitingfor == IF missing = free THEN None ELSE mapBlocksInFlight[Lowest(missing \ free)]
  IN [common |-> Highest({common} \cup {b \in vToFetch : Linked(b)}),
      blocks |-> blocks,
      staller |-> IF free # {} /\ blocks = <<>> /\ waitingfor # p THEN waitingfor ELSE None]

\* The state s of p after the call, the blocks to ask for and the staller.
FindNextBlocksToDownload(p, s, count) ==
  IF ~LevelWithTip(s)
  THEN {[state |-> s, blocks |-> <<>>, staller |-> None]}
  ELSE {[state |-> [s EXCEPT !.pindexLastCommonBlock = w.common], blocks |-> w.blocks, staller |-> w.staller] :
          w \in {WalkToFetch(p, s.pindexBestKnownBlock, LastCommonBlock(s), count)}}

-----------------------------------------------------------------------------
(* Blocks *)

BestTips(have) ==
  LET linked == {b \in have \cup {0} : Ancestors[b] \subseteq have \cup {0}}
      best == {b \in linked : \A x \in linked : nHeight(x) <= nHeight(b)}
  IN IF \E b \in best : nHeight(b) > nHeight(tip) THEN best ELSE {tip}

\* fRequested: the block was asked for.
AcceptBlock(b, fRequested) ==
  b \notin failed \cup haveData /\ (fRequested \/ nHeight(b) > nHeight(tip))

ProcessNewBlock(b, fForceProcessing) ==
  LET stored == AcceptBlock(b, fForceProcessing)
  IN /\ mapBlockIndex' = mapBlockIndex \cup {b}
     /\ failed' = IF stored /\ b \in Invalid THEN failed \cup {b} ELSE failed
     /\ haveData' = IF stored /\ b \notin Invalid THEN haveData \cup {b} ELSE haveData
     /\ tip' \in BestTips(haveData')
     /\ connected' = connected \cup Ancestors[tip']

\* submitblock, of a block mined on top of a block we know.
SubmitBlock(b) ==
  /\ b \in Mined \ (connected \cup failed) /\ Parent[b] \in Known
  /\ ProcessNewBlock(b, TRUE)
  /\ UNCHANGED <<tables, counters, mapNodeState, fDisconnect, processing, requests, connects, announces>>

-----------------------------------------------------------------------------
(* Messages.  "answered" is the set of requests the message answers.       *)

Listening(p) == p \in mapNodeState \ fDisconnect /\ processing = None
Exchange(p, answered, asked) == requests' = [requests EXCEPT ![p] = (@ \ answered) \cup asked]

\* Misbehaving by 100 and SendRejectsAndCheckIfBanned.
Ban(p) == fDisconnect' = IF p \in Whitelisted THEN fDisconnect ELSE fDisconnect \cup {p}

\* What a peer's getheaders handler answers to a locator of start.
Answer(p, start) ==
  LET fork == LastCommonAncestor(start, PeerTip[p])
  IN AtMost(Ascending({b \in Has(p) : nHeight(b) > nHeight(fork)}), MAX_HEADERS_RESULTS)

\* The blocks a connecting headers message makes us ask for at once.
DirectFetchUnlimited(d, p, last) ==
  IF CanDirectFetch /\ nHeight(tip) <= nHeight(last)
  THEN Ascending({b \in Ancestors[last] \ chainActive : b \notin haveData /\ d.flight[b] = None})
  ELSE <<>>

DirectFetch(d, p, last) ==
  LET path == Ancestors[last] \ chainActive
      missing == {b \in path : b \notin haveData /\ d.flight[b] = None}
      largeReorg == Cardinality({b \in missing : Parent[b] \notin chainActive}) > MAX_BLOCKS_IN_TRANSIT_PER_PEER
  IN IF CanDirectFetch /\ nHeight(tip) <= nHeight(last) /\ ~largeReorg
     THEN AtMost(Ascending(missing), MAX_BLOCKS_IN_TRANSIT_PER_PEER - d.node[p].nBlocksInFlight)
     ELSE <<>>

ConnectingHeaders(p, headers, answered) ==
  LET last == headers[Len(headers)]
  IN \E d \in {UpdateBlockAvailability(Tables, p, last, mapBlockIndex')} :
     \E fetch \in {DirectFetch(d, p, last)} :
     \E e \in {MarkBlocksAsInFlight(d, p, fetch, FALSE)} :
       LET compact == /\ p \in Compact /\ Len(fetch) = 1 /\ Parent[last] \in connected
                      /\ Cardinality({b \in Block : e.flight[b] # None}) = 1
           protect == /\ p \in Outbound /\ nProtected < MAX_OUTBOUND_PEERS_TO_PROTECT /\ ~e.node[p].m_protect
                      /\ nHeight(e.node[p].pindexBestKnownBlock) >= nHeight(tip)
       IN /\ SetTables([e EXCEPT !.node[p].m_protect = @ \/ protect])
          /\ nProtected' = nProtected + (IF protect THEN 1 ELSE 0)
          /\ Exchange(p, answered,
               {<<IF compact THEN "cmpct" ELSE "block", fetch[i]>> : i \in DOMAIN fetch}
               \cup (IF Len(headers) = MAX_HEADERS_RESULTS THEN {<<"headers", last>>} ELSE {}))

\* nUnconnectingHeaders stays below MAX_UNCONNECTING_HEADERS: MaxAnnounces.
ProcessHeadersMessage(p, headers, punish, answered) ==
  /\ UNCHANGED <<haveData, failed, connected, tip>>
  /\ \/ /\ headers = <<>>
        /\ Exchange(p, answered, {}) /\ UNCHANGED <<mapBlockIndex, tables, fDisconnect, nProtected>>
     \/ /\ headers # <<>> /\ Parent[headers[1]] \notin Known
        /\ SetTables(UpdateBlockAvailability(Tables, p, headers[Len(headers)], mapBlockIndex))
        /\ Exchange(p, answered, {<<"headers", pindexBestHeader>>})
        /\ UNCHANGED <<mapBlockIndex, fDisconnect, nProtected>>
     \/ /\ headers # <<>> /\ Parent[headers[1]] \in Known
        /\ mapBlockIndex' = mapBlockIndex \cup ToSet(headers)
        /\ \/ /\ ToSet(headers) \cap failed # {}
              /\ fDisconnect' = IF punish THEN fDisconnect \cup {p} ELSE fDisconnect
              /\ Exchange(p, answered, {}) /\ UNCHANGED <<tables, nProtected>>
           \/ /\ ToSet(headers) \cap failed = {}
              /\ ConnectingHeaders(p, headers, answered) /\ UNCHANGED fDisconnect

\* A headers message: the answer to a getheaders, or the announcement of b.
Headers(p) ==
  /\ Listening(p)
  /\ \E start \in Block \cup {0} :
       <<"headers", start>> \in requests[p]
       /\ ProcessHeadersMessage(p, Answer(p, start), p \in Outbound, {<<"headers", start>>})
  /\ UNCHANGED <<nPreferredDownload, nSyncStarted, mapNodeState, processing, connects, announces>>

AnnounceHeader(p, b) ==
  /\ Listening(p) /\ b \in Has(p) /\ announces < MaxAnnounces /\ announces' = announces + 1
  /\ ProcessHeadersMessage(p, <<b>>, p \in Outbound, {})
  /\ UNCHANGED <<nPreferredDownload, nSyncStarted, mapNodeState, processing, connects>>

\* An inv of the peer's tip.
Inv(p) ==
  LET b == PeerTip[p]
  IN /\ Listening(p) /\ announces < MaxAnnounces /\ announces' = announces + 1
     /\ SetTables(UpdateBlockAvailability(Tables, p, b, mapBlockIndex))
     /\ Exchange(p, {}, IF b \notin mapBlockIndex /\ mapBlocksInFlight[b] = None
                        THEN {<<"headers", pindexBestHeader>>} ELSE {})
     /\ UNCHANGED <<chain, counters, mapNodeState, fDisconnect, processing, connects>>

\* A BLOCK message; a peer may send the full block for a compact one.
ReceiveBlock(p, b) ==
  /\ Listening(p) /\ requests[p] \cap {<<"block", b>>, <<"cmpct", b>>} # {}
  /\ SetTables(MarkBlockAsReceived(Tables, b))
  /\ processing' = [peer |-> p, block |-> b, as |-> "block", force |-> mapBlocksInFlight[b] # None]
  /\ Exchange(p, {<<"block", b>>, <<"cmpct", b>>}, {})
  /\ UNCHANGED <<chain, counters, mapNodeState, fDisconnect, connects, announces>>

\* What reading a compact block or its missing transactions comes to.
ReadStatus(p) == {"ok", "missing", "failed"} \cup (IF p \in Prompt THEN {} ELSE {"invalid"})

\* The part of BLOCKTXN that a complete compact block runs too; d has b in
\* flight from p with a partialBlock.
FillBlock(d, p, b, status, answered) ==
  /\ SetTables(IF status = "failed" THEN d ELSE MarkBlockAsReceived(d, b))
  /\ IF status = "invalid" THEN Ban(p) ELSE UNCHANGED fDisconnect
  /\ processing' = IF status = "ok" THEN [peer |-> p, block |-> b, as |-> "txn", force |-> TRUE] ELSE None
  /\ Exchange(p, answered, IF status = "failed" THEN {<<"block", b>>} ELSE {})

BlockTxn(p, b) ==
  /\ Listening(p) /\ <<"txn", b>> \in requests[p]
  /\ \/ /\ mapBlocksInFlight[b] = p /\ b \in partialBlock
        /\ \E status \in ReadStatus(p) \ {"missing"} : FillBlock(Tables, p, b, status, {<<"txn", b>>})
     \/ /\ ~(mapBlocksInFlight[b] = p /\ b \in partialBlock)
        /\ Exchange(p, {<<"txn", b>>}, {}) /\ UNCHANGED <<tables, fDisconnect, processing>>
  /\ UNCHANGED <<chain, counters, mapNodeState, connects, announces>>

\* The compact block is to be put together as the download of b from p.
StartPartialBlock(d, p, b, answered) ==
  \E f \in {MarkBlocksAsInFlight(d, p, <<b>>, TRUE)} :
     \E status \in ReadStatus(p) :
       IF status = "missing"
       THEN SetTables(f) /\ Exchange(p, answered, {<<"txn", b>>}) /\ UNCHANGED <<fDisconnect, processing>>
       ELSE FillBlock(f, p, b, status, answered)

\* b is in flight from another peer, or p has too many blocks in flight.
OptimisticReconstruction(d, p, b, answered) ==
  /\ SetTables(d) /\ Exchange(p, answered, {}) /\ UNCHANGED fDisconnect
  /\ processing' \in {None, [peer |-> p, block |-> b, as |-> "optimistic", force |-> TRUE]}

CompactBlock(p, b, answered) ==
  LET d == UpdateBlockAvailability(Tables, p, b, mapBlockIndex')
      inFlight == mapBlocksInFlight[b] # None
      betterKnown == b \notin haveData /\ nHeight(b) <= nHeight(tip)
      wanted == /\ b \notin haveData /\ nHeight(b) > nHeight(tip)
                /\ (inFlight \/ CanDirectFetch) /\ p \in Compact
      near == nHeight(b) <= nHeight(tip) + 2
      mayStart == IF inFlight THEN mapBlocksInFlight[b] = p
                  ELSE nodeState[p].nBlocksInFlight < MAX_BLOCKS_IN_TRANSIT_PER_PEER
      Leave(asked) == SetTables(d) /\ Exchange(p, answered, asked) /\ UNCHANGED <<fDisconnect, processing>>
  IN /\ mapBlockIndex' = mapBlockIndex \cup {b}
     /\ UNCHANGED <<haveData, failed, connected, tip>>
     /\ \/ ~wanted /\ Leave(IF betterKnown /\ inFlight THEN {<<"block", b>>} ELSE {}) /\ UNCHANGED nProtected
        \/ /\ wanted /\ near /\ mayStart /\ UNCHANGED nProtected
           /\ IF b \in partialBlock THEN Leave({}) ELSE StartPartialBlock(d, p, b, answered)
        \/ wanted /\ near /\ ~mayStart /\ OptimisticReconstruction(d, p, b, answered) /\ UNCHANGED nProtected
        \/ wanted /\ ~near /\ inFlight /\ Leave({<<"block", b>>}) /\ UNCHANGED nProtected
        \/ wanted /\ ~near /\ ~inFlight /\ ProcessHeadersMessage(p, <<b>>, FALSE, answered) /\ UNCHANGED processing

\* A CMPCTBLOCK message, as an answer or unasked.
ReceiveCompactBlock(p, b) ==
  /\ Listening(p) /\ b \in Has(p)
  /\ \/ <<"cmpct", b>> \in requests[p] /\ UNCHANGED announces
     \/ <<"cmpct", b>> \notin requests[p] /\ announces < MaxAnnounces /\ announces' = announces + 1
  /\ LET answered == {<<"cmpct", b>>}
     IN IF Parent[b] \in Known /\ b \notin failed THEN CompactBlock(p, b, answered)
        ELSE /\ Exchange(p, answered, IF b \in failed \/ IsInitialBlockDownload THEN {}
                                      ELSE {<<"headers", pindexBestHeader>>})
             /\ UNCHANGED <<chain, tables, nProtected, fDisconnect, processing>>
  /\ UNCHANGED <<nPreferredDownload, nSyncStarted, mapNodeState, connects>>

\* The handler goes on with ProcessNewBlock, without cs_main until then.
ContinueProcessing ==
  LET p == processing.peer
      b == processing.block
  IN /\ processing # None /\ processing' = None
     /\ ProcessNewBlock(b, processing.force)
     /\ IF processing.as = "block" /\ failed' # failed THEN Ban(p) ELSE UNCHANGED fDisconnect
     /\ SetTables(IF processing.as = "optimistic" /\ b \in haveData' THEN MarkBlockAsReceived(Tables, b) ELSE Tables)
     /\ UNCHANGED <<counters, mapNodeState, requests, connects, announces>>

-----------------------------------------------------------------------------
(* SendMessages *)

fFetch(p) == fPreferredDownload(p) \/ nPreferredDownload = 0

\* Start block sync; an initial getheaders starts before the best header.
StartBlockSync(p) ==
  LET s == nodeState[p]
  IN ~s.fSyncStarted /\ ((nSyncStarted = 0 /\ fFetch(p)) \/ pindexBestHeader \in Recent)

\* s is the state of p once sync has started.
Stalling(s) == s.nStallingSince > BLOCK_STALLING_TIMEOUT

DownloadTimedOut(s) ==
  LET others == nPeersWithValidatedDownloads - (IF s.nBlocksInFlight > 0 THEN 1 ELSE 0)
  IN /\ s.nBlocksInFlight > 0
     /\ s.nDownloadingSince > BLOCK_DOWNLOAD_TIMEOUT_BASE + BLOCK_DOWNLOAD_TIMEOUT_PER_PEER * others

HeadersTimedOutLater(p, s, started) ==
  /\ s.fSyncStarted /\ s.nHeadersSyncTimeout = 0 /\ pindexBestHeader \notin Recent
  /\ started = 1 /\ nPreferredDownload - (IF fPreferredDownload(p) THEN 1 ELSE 0) > 1

HeadersTimedOut(p, s, started) ==
  /\ s.fSyncStarted /\ s.nHeadersSyncTimeout = 0 /\ pindexBestHeader \notin Recent
  /\ started = 1 /\ nPreferredDownload - (IF fPreferredDownload(p) THEN 1 ELSE 0) >= 1

\* The state of an outbound peer that may be behind, what it is asked, and
\* whether it is given up.
ConsiderEviction(p, s) ==
  LET progress == /\ s.m_work_header # None /\ s.pindexBestKnownBlock # None
                  /\ nHeight(s.pindexBestKnownBlock) >= nHeight(s.m_work_header)
      keep == [state |-> s, asked |-> {}, evict |-> FALSE]
  IN IF s.m_protect \/ p \notin Outbound \/ ~s.fSyncStarted THEN keep
     ELSE IF LevelWithTip(s)
     THEN [keep EXCEPT !.state = [s EXCEPT !.m_timeout = -1, !.m_work_header = None, !.m_sent_getheaders = FALSE]]
     ELSE IF s.m_timeout = -1 \/ progress
     THEN [keep EXCEPT !.state = [s EXCEPT !.m_timeout = CHAIN_SYNC_TIMEOUT + 1, !.m_work_header = tip,
                                           !.m_sent_getheaders = FALSE]]
     ELSE IF s.m_timeout > 0 THEN keep
     ELSE IF s.m_sent_getheaders THEN [keep EXCEPT !.evict = TRUE]
     ELSE [keep EXCEPT !.state = [s EXCEPT !.m_timeout = HEADERS_RESPONSE_TIME + 1, !.m_sent_getheaders = TRUE],
                       !.asked = {<<"headers", IF s.m_work_header = 0 THEN tip ELSE Parent[s.m_work_header]>>}]

\* The rest of SendMessages, s being the state of p: getdata for blocks, and
\* the clock of a peer that keeps the window from moving.
RequestBlocks(p, s, asked) ==
  IF (fFetch(p) \/ ~IsInitialBlockDownload) /\ s.nBlocksInFlight < MAX_BLOCKS_IN_TRANSIT_PER_PEER
  THEN \E t \in {ProcessBlockAvailability(s, mapBlockIndex)} :
       \E f \in FindNextBlocksToDownload(p, t, MAX_BLOCKS_IN_TRANSIT_PER_PEER - s.nBlocksInFlight) :
       \E e \in {MarkBlocksAsInFlight([Tables EXCEPT !.node[p] = f.state], p, f.blocks, FALSE)} :
         /\ SetTables(IF e.node[p].nBlocksInFlight = 0 /\ f.staller # None
                      THEN [e EXCEPT !.node[f.staller].nStallingSince = Max({@, 0})] ELSE e)
         /\ Exchange(p, {}, asked \cup {<<"block", f.blocks[i]>> : i \in DOMAIN f.blocks})
  ELSE SetTables([Tables EXCEPT !.node[p] = s]) /\ Exchange(p, {}, asked)

\* s is the state of p and started the value of nSyncStarted once sync has
\* been started.  The headers timeout of a whitelisted peer lets another one
\* try; once the best header is recent the timeout is off.
CheckTimeouts(p, s, started, asked) ==
  LET late == HeadersTimedOut(p, s, started)
      t == IF late THEN [s EXCEPT !.fSyncStarted = FALSE, !.nHeadersSyncTimeout = -1]
           ELSE IF s.fSyncStarted /\ pindexBestHeader \in Recent THEN [s EXCEPT !.nHeadersSyncTimeout = -1]
           ELSE s
  IN IF Stalling(s) \/ DownloadTimedOut(s) \/ (late /\ p \notin Whitelisted)
     THEN /\ fDisconnect' = fDisconnect \cup {p} /\ nSyncStarted' = started
          /\ SetTables([Tables EXCEPT !.node[p] = s]) /\ Exchange(p, {}, asked)
     ELSE \E c \in {ConsiderEviction(p, t)} :
          /\ fDisconnect' = IF c.evict THEN fDisconnect \cup {p} ELSE fDisconnect
          /\ nSyncStarted' = started - (IF late THEN 1 ELSE 0)
          /\ RequestBlocks(p, c.state, asked \cup c.asked)

SendMessages(p) ==
  /\ Listening(p)
  /\ IF StartBlockSync(p)
     THEN \E s \in {[nodeState[p] EXCEPT !.fSyncStarted = TRUE, !.nHeadersSyncTimeout = HEADERS_DOWNLOAD_TIMEOUT + 1]} :
            CheckTimeouts(p, s, nSyncStarted + 1,
              {<<"headers", IF pindexBestHeader = 0 THEN 0 ELSE Parent[pindexBestHeader]>>})
     ELSE CheckTimeouts(p, nodeState[p], nSyncStarted, {})
  /\ UNCHANGED <<chain, nPreferredDownload, nProtected, mapNodeState, processing, connects, announces>>

-----------------------------------------------------------------------------
(* Connections and the clock *)

\* InitializeNode and the version handshake.
Connect(p) ==
  /\ p \notin mapNodeState /\ connects[p] < MaxConnects
  /\ mapNodeState' = mapNodeState \cup {p} /\ connects' = [connects EXCEPT ![p] = @ + 1]
  /\ nPreferredDownload' = nPreferredDownload + (IF fPreferredDownload(p) THEN 1 ELSE 0)
  /\ UNCHANGED <<chain, tables, nSyncStarted, nProtected, fDisconnect, processing, requests, announces>>

\* A peer that is not prompt may close its connection.
Disconnect(p) ==
  /\ p \in mapNodeState \ (fDisconnect \cup Prompt) /\ fDisconnect' = fDisconnect \cup {p}
  /\ UNCHANGED <<chain, tables, counters, mapNodeState, processing, requests, connects, announces>>

\* The handler holds a reference to the peer whose message it processes.
FinalizeNode(p) ==
  LET s == nodeState[p]
      gone == ToSet(s.vBlocksInFlight)
  IN /\ p \in fDisconnect /\ (processing # None => processing.peer # p)
     /\ mapNodeState' = mapNodeState \ {p} /\ fDisconnect' = fDisconnect \ {p}
     /\ nSyncStarted' = nSyncStarted - (IF s.fSyncStarted THEN 1 ELSE 0)
     /\ nPreferredDownload' = nPreferredDownload - (IF fPreferredDownload(p) THEN 1 ELSE 0)
     /\ nProtected' = nProtected - (IF s.m_protect THEN 1 ELSE 0)
     /\ SetTables([node |-> [nodeState EXCEPT ![p] = NewState],
                   flight |-> [b \in Block |-> IF b \in gone THEN None ELSE mapBlocksInFlight[b]],
                   partial |-> partialBlock \ gone,
                   downloading |-> nPeersWithValidatedDownloads - (IF s.nBlocksInFlight # 0 THEN 1 ELSE 0)])
     /\ requests' = [requests EXCEPT ![p] = {}]
     /\ UNCHANGED <<chain, processing, connects, announces>>

Older(age) == IF age = -1 THEN -1 ELSE Min({age + 1, MaxAge})
Sooner(left) == IF left = -1 THEN -1 ELSE Max({left - 1, 0})

Aged(s) ==
  [s EXCEPT !.nStallingSince = Older(@), !.nHeadersSyncTimeout = Sooner(@), !.m_timeout = Sooner(@),
            !.nDownloadingSince = IF s.nBlocksInFlight > 0 THEN Older(@) ELSE 0]

\* Prompt peers answer before the clock moves.
Tick ==
  /\ \A p \in Prompt \ fDisconnect : requests[p] = {}
  /\ nodeState' = [p \in Peer |-> Aged(nodeState[p])]
  /\ UNCHANGED <<chain, mapBlocksInFlight, partialBlock, nPeersWithValidatedDownloads, counters, mapNodeState,
                 fDisconnect, processing, requests, connects, announces>>

Init ==
  /\ mapBlockIndex = {} /\ haveData = {} /\ failed = {} /\ connected = {0} /\ tip = 0
  /\ mapNodeState = {} /\ fDisconnect = {} /\ nodeState = [p \in Peer |-> NewState]
  /\ mapBlocksInFlight = [b \in Block |-> None] /\ partialBlock = {}
  /\ nPeersWithValidatedDownloads = 0 /\ nPreferredDownload = 0 /\ nSyncStarted = 0 /\ nProtected = 0
  /\ processing = None /\ requests = [p \in Peer |-> {}]
  /\ connects = [p \in Peer |-> 0] /\ announces = 0

AnswerRequest(p) ==
  \/ Headers(p)
  \/ \E b \in Block : ReceiveBlock(p, b) \/ BlockTxn(p, b)
  \/ \E b \in Block : <<"cmpct", b>> \in requests[p] /\ ReceiveCompactBlock(p, b)

Next ==
  \/ \E p \in Peer : Connect(p) \/ Disconnect(p) \/ FinalizeNode(p) \/ SendMessages(p) \/ Headers(p) \/ Inv(p)
  \/ \E p \in Peer, b \in Block :
       AnnounceHeader(p, b) \/ ReceiveBlock(p, b) \/ BlockTxn(p, b) \/ ReceiveCompactBlock(p, b)
  \/ ContinueProcessing
  \/ \E b \in Block : SubmitBlock(b)
  \/ Tick

\* The handler calls SendMessages for the peers in turn, so what one peer
\* could do between two turns of another it gets to do; the socket thread
\* finalizes every disconnected peer; prompt peers connect and answer.
Fairness ==
  /\ \A p \in Peer : SF_vars(SendMessages(p)) /\ WF_vars(FinalizeNode(p))
  /\ \A p \in Prompt : WF_vars(Connect(p)) /\ WF_vars(AnswerRequest(p))
  /\ WF_vars(ContinueProcessing) /\ WF_vars(Tick)

Spec == Init /\ [][Next]_vars /\ Fairness

-----------------------------------------------------------------------------
(* Properties *)

Timer(n) == -1..(n + 1)

\* Types; at most MAX_BLOCKS_IN_TRANSIT_PER_PEER blocks are in flight from a
\* peer, whichever of the three places that ask for blocks asked for them.
TypeOK ==
  /\ mapBlockIndex \subseteq Block /\ haveData \cup failed \subseteq mapBlockIndex
  /\ tip \in connected /\ connected \subseteq haveData \cup {0}
  /\ mapNodeState \subseteq Peer /\ fDisconnect \subseteq mapNodeState
  /\ mapBlocksInFlight \in [Block -> Peer \cup {None}] /\ partialBlock \subseteq Block
  /\ \A p \in Peer :
       LET s == nodeState[p]
       IN /\ s.pindexBestKnownBlock \in mapBlockIndex \cup {None}
          /\ s.hashLastUnknownBlock \in Block \cup {None}
          /\ s.pindexLastCommonBlock \in Known \cup {None}
          /\ s.vBlocksInFlight \in Seq(mapBlockIndex)
          /\ s.nBlocksInFlight \in 0..MAX_BLOCKS_IN_TRANSIT_PER_PEER
          /\ s.nDownloadingSince \in 0..MaxAge /\ s.nStallingSince \in -1..MaxAge
          /\ s.nHeadersSyncTimeout \in Timer(HEADERS_DOWNLOAD_TIMEOUT)
          /\ s.m_timeout \in Timer(Max({CHAIN_SYNC_TIMEOUT, HEADERS_RESPONSE_TIME}))
          /\ s.m_work_header \in Known \cup {None}
  /\ processing # None => processing.peer \in mapNodeState

\* The tables describe one and the same set of downloads: a block is in flight
\* from the peer in whose list it is, once, and only from a connected peer, and
\* every counter counts what it stands for.  The stalling clock runs only against
\* a peer with blocks in flight: what it delivers, or another peer delivers for
\* it, stops the clock.  The assertions of FinalizeNode and
\* of MarkBlockAsReceived, and the State(staller) that SendMessages
\* dereferences, rest on this.
DownloadTablesAgree ==
  /\ \A p \in Peer :
       LET s == nodeState[p]
       IN /\ ToSet(s.vBlocksInFlight) = {b \in Block : mapBlocksInFlight[b] = p}
          /\ Len(s.vBlocksInFlight) = s.nBlocksInFlight
          /\ Cardinality(ToSet(s.vBlocksInFlight)) = s.nBlocksInFlight
          /\ s.nStallingSince # -1 => s.nBlocksInFlight > 0
          /\ p \notin mapNodeState => s = NewState
  /\ \A b \in partialBlock : mapBlocksInFlight[b] # None
  /\ nPeersWithValidatedDownloads = Cardinality({p \in Peer : nodeState[p].nBlocksInFlight > 0})
  /\ nSyncStarted = Cardinality({p \in Peer : nodeState[p].fSyncStarted})
  /\ nPreferredDownload = Cardinality({p \in mapNodeState : fPreferredDownload(p)})
  /\ nProtected = Cardinality({p \in Peer : nodeState[p].m_protect})

\* A peer that answers every request at once, and whose chain has the most
\* work, is never disconnected, whatever the other peers leave unanswered: none
\* of the four timeouts of SendMessages runs out against it.
PromptPeerKept ==
  \A p \in Prompt \cap fDisconnect : \E b \in Block \ Invalid : nHeight(b) > nHeight(PeerTip[p])

\* The tip gets to the work of every prompt peer's chain, although other peers
\* leave requests for headers and blocks unanswered and come back after they
\* were disconnected.
SyncsToPromptPeer ==
  \A p \in Prompt : <>(nHeight(tip) >= nHeight(PeerTip[p]))
=============================================================================
