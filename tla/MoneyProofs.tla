----------------------------- MODULE MoneyProofs -----------------------------
(***************************************************************************)
(* What holds of the gateway's money beside the ledger for every value of  *)
(* the constants: the deposit watcher skips no payment and handles none    *)
(* that may still be reorganised away, paid inference serves no cent that  *)
(* is not paid for, a card payment is credited once and stays refundable,  *)
(* and the billing monitor reports every row of the time it watches, once, *)
(* and a standing problem neither too soon nor too late.                   *)
(***************************************************************************)
EXTENDS DepositWatcher, Inference, Stripe, Monitor, TotalsProofs, TLAPS

(***************************************************************************)
(* The deposit watcher: the inductive invariant.                           *)
(***************************************************************************)

\* What has been handled is too deep to be replaced.
HandledIsDeep == \A b \in handled : b \in pays /\ b <= SafeHead(head)

\* So is what the cursor has passed.
CursorIsDeep == cursor # -1 => NextUnread <= SafeHead(head) + 1

\* The tick in progress starts at the cursor, reads nothing that may be
\* replaced, and, while it is ok, has every payment of its range handled or ahead.
TickIsSound ==
  scan.on =>
    /\ scan.head <= head /\ scan.from <= scan.to /\ scan.to <= SafeHead(scan.head)
    /\ cursor # -1 => scan.from = cursor
    /\ \A b \in scan.todo : b \in pays /\ b \in ScanRange(scan.from, scan.to)
    /\ scan.ok => \A b \in pays : b \in ScanRange(scan.from, scan.to) => b \in handled \/ b \in scan.todo
    /\ chain = "bittensor" => scan.ok

ScanInv == ScanTypeOK /\ NothingSkipped /\ HandledIsDeep /\ CursorIsDeep /\ TickIsSound

\* The settings of the watcher, as numbers.
LEMMA Bounds ==
  /\ MaxBlock \in Nat /\ Confirmations \in Nat /\ BlocksPerTick \in Nat /\ FallbackBlocks \in Nat
  /\ FirstBack \in Nat /\ StrandedAfter \in Nat /\ ResumeBehind \in Nat /\ MaxScanFaults \in Nat
BY DepositWatcherAssumption

\* The range of a tick begins within the chain, at the cursor when there is one
\* (scan_evm_chain and scan_bittensor).
LEMMA FromBlockBounds ==
  ASSUME ScanTypeOK, SafeHead(head) > 0
  PROVE  FromBlock(head) \in 0 .. MaxBlock + 1 /\ (cursor # -1 => FromBlock(head) = cursor)
<1>1. CASE cursor # -1
  BY <1>1 DEF FromBlock, ScanTypeOK
<1>2. CASE cursor = -1
  <2> DEFINE back == SafeHead(head) - FirstBack
             start == Max({0, back})
  <2>1. back \in Int /\ back <= MaxBlock
    BY Bounds DEF ScanTypeOK, SafeHead
  <2>2. start \in {0, back} /\ 0 <= start
    <3> HIDE DEF back
    <3> QED  BY <2>1, MaxOfTwo
  <2>3. FromBlock(head) = start
    BY <1>2 DEF FromBlock
  <2> HIDE DEF back, start
  <2> QED  BY Bounds, <1>2, <2>1, <2>2, <2>3
<1> QED  BY <1>1, <1>2

\* ... and never ends above what is final.
LEMMA ToBlockBounds ==
  ASSUME ScanTypeOK, NEW from \in Int
  PROVE  ToBlock(head, from) \in Int /\ ToBlock(head, from) <= SafeHead(head)
<1> DEFINE to == Min({SafeHead(head), from + BlocksPerTick})
<1>1. SafeHead(head) \in Int /\ from + BlocksPerTick \in Int /\ from + FallbackBlocks - 1 \in Int
  BY Bounds DEF ScanTypeOK, SafeHead
<1>2. to \in Int /\ to <= SafeHead(head)
  BY <1>1, MinOfTwo
<1>3. Min({to, from + FallbackBlocks - 1}) \in Int /\ Min({to, from + FallbackBlocks - 1}) <= to
  <2> HIDE DEF to
  <2> QED  BY <1>1, <1>2, MinOfTwo
<1>4. ToBlock(head, from) \in {to, Min({to, from + FallbackBlocks - 1})}
  BY DEF ToBlock
<1> HIDE DEF to
<1> QED  BY <1>1, <1>2, <1>3, <1>4

(***************************************************************************)
(* The invariant holds at the start and every action keeps it.             *)
(***************************************************************************)

\* Before the first tick (no row in key_value_state).
LEMMA ScanInvInit == ScanInit => ScanInv
<1> SUFFICES ASSUME ScanInit PROVE ScanInv
  OBVIOUS
<1>1. ScanTypeOK
  <2>1. chain \in {"evm", "bittensor"} /\ onFallback \in BOOLEAN
    BY DEF ScanInit
  <2>2. scan \in [on : BOOLEAN, head : 0 .. MaxBlock, from : 0 .. MaxBlock + 1, to : 0 .. MaxBlock,
                  todo : SUBSET (1 .. MaxBlock), ok : BOOLEAN]
    BY DepositWatcherAssumption DEF ScanInit, NoScan
  <2> QED  BY <2>1, <2>2, DepositWatcherAssumption DEF ScanInit, ScanTypeOK
<1>2. NothingSkipped /\ HandledIsDeep /\ CursorIsDeep /\ TickIsSound
  BY DEF ScanInit, NothingSkipped, HandledIsDeep, CursorIsDeep, TickIsSound, NoScan
<1> QED  BY <1>1, <1>2 DEF ScanInv

\* New blocks, and replaced ones, are above everything the watcher has read.
LEMMA ChainKeeps ==
  ASSUME ScanInv, Mine \/ Reorg
  PROVE  ScanInv'
<1> USE DEF ScanInv
<1>1. ScanTypeOK'
  <2>1. head' \in 0 .. MaxBlock /\ pays' \subseteq 1 .. MaxBlock
    <3>1. CASE Mine  BY Bounds, <3>1 DEF ScanTypeOK, Mine
    <3>2. CASE Reorg  BY Bounds, <3>2 DEF ScanTypeOK, Reorg
    <3> QED  BY <3>1, <3>2
  <2>2. UNCHANGED <<chain, cursor, first, handled, onFallback, scan, scanFaults>>
    BY DEF Mine, Reorg
  <2> QED  BY <2>1, <2>2 DEF ScanTypeOK
<1>2. PICK fixed \in SUBSET Int : fixed = {b \in Int : b <= SafeHead(head)}
  OBVIOUS
<1>3. /\ \A b \in fixed : b \in pays <=> b \in pays'
      /\ head' >= head /\ head \in Int /\ head' \in Int
      /\ UNCHANGED <<chain, cursor, first, handled, scan>>
  <2>1. CASE Mine  BY Bounds, <1>2, <2>1 DEF ScanTypeOK, Mine, SafeHead
  <2>2. CASE Reorg  BY Bounds, <1>2, <2>2 DEF ScanTypeOK, Reorg, SafeHead
  <2> QED  BY <2>1, <2>2
<1>4. NothingSkipped'
  <2> SUFFICES ASSUME NEW b \in pays', cursor # -1, first <= b, b < NextUnread
               PROVE  b \in handled
    BY <1>3 DEF NothingSkipped, NextUnread
  <2>1. b \in Int /\ NextUnread \in Int /\ NextUnread <= SafeHead(head) + 1 /\ SafeHead(head) \in Int
    BY Bounds, <1>1 DEF ScanTypeOK, CursorIsDeep, NextUnread, SafeHead
  <2>2. b \in fixed
    BY <1>2, <2>1
  <2> QED  BY <1>3, <2>2 DEF NothingSkipped
<1>5. HandledIsDeep'
  <2> SUFFICES ASSUME NEW b \in handled
               PROVE  b \in pays' /\ b <= head' - Confirmations
    BY <1>3 DEF HandledIsDeep, SafeHead
  <2>1. b \in Int /\ b \in pays /\ b <= head - Confirmations
    BY DEF HandledIsDeep, ScanTypeOK, SafeHead
  <2>2. b \in fixed
    BY <1>2, <2>1 DEF SafeHead
  <2>3. PICK h \in Int : head' = h /\ head <= h
    BY <1>3
  <2>4. b <= head' - Confirmations
    BY Bounds, <1>3, <2>1, <2>3
  <2> QED  BY <1>3, <2>1, <2>2, <2>4
<1>6. CursorIsDeep'
  <2> SUFFICES ASSUME cursor # -1
               PROVE  NextUnread <= head' - Confirmations + 1
    BY <1>3 DEF CursorIsDeep, NextUnread, SafeHead
  <2>1. NextUnread \in Int /\ NextUnread <= head - Confirmations + 1
    BY DEF CursorIsDeep, ScanTypeOK, NextUnread, SafeHead
  <2>2. PICK h \in Int : head' = h /\ head <= h
    BY <1>3
  <2> QED  BY Bounds, <1>3, <2>1, <2>2
<1>7. TickIsSound'
  <2> SUFFICES ASSUME scan.on
               PROVE  /\ scan.head <= head' /\ scan.from <= scan.to /\ scan.to <= SafeHead(scan.head)
                      /\ cursor # -1 => scan.from = cursor
                      /\ \A b \in scan.todo : b \in pays' /\ b \in ScanRange(scan.from, scan.to)
                      /\ scan.ok => \A b \in pays' : b \in ScanRange(scan.from, scan.to) => b \in handled \/ b \in scan.todo
                      /\ chain = "bittensor" => scan.ok
    BY <1>3 DEF TickIsSound, ScanRange, SafeHead
  <2>1. /\ scan.head \in Int /\ scan.from \in Int /\ scan.to \in Int
        /\ scan.head <= head /\ scan.to <= SafeHead(scan.head) /\ SafeHead(scan.head) <= SafeHead(head)
    BY Bounds DEF TickIsSound, ScanTypeOK, SafeHead
  <2>2. \A b \in ScanRange(scan.from, scan.to) : b \in fixed
    BY Bounds, <1>2, <2>1 DEF ScanRange, SafeHead, ScanTypeOK
  <2>3. scan.head <= head'
    <3>1. head \in Int /\ head' \in Int /\ head <= head'
      BY <1>3
    <3> QED  BY <2>1, <3>1
  <2>4. \A b \in scan.todo : b \in pays' /\ b \in ScanRange(scan.from, scan.to)
    BY <1>3, <2>2 DEF TickIsSound
  <2>5. scan.ok => \A b \in pays' : b \in ScanRange(scan.from, scan.to) => b \in handled \/ b \in scan.todo
    BY <1>3, <2>2 DEF TickIsSound
  <2> QED  BY <2>3, <2>4, <2>5 DEF TickIsSound
<1> QED  BY <1>1, <1>4, <1>5, <1>6, <1>7

\* scan_evm_chain reads a range of final blocks, whole when every query succeeds.
LEMMA EvmScanKeeps ==
  ASSUME ScanInv, StartEvmScan
  PROVE  ScanInv'
<1> USE DEF ScanInv
<1> DEFINE from == FromBlock(head)
           to == ToBlock(head, from)
<1>1. from \in 0 .. MaxBlock + 1 /\ (cursor # -1 => from = cursor)
  BY FromBlockBounds DEF StartEvmScan
<1>2. to \in Int /\ to <= SafeHead(head)
  <2> HIDE DEF from
  <2> QED  BY <1>1, ToBlockBounds
<1>3. from <= to /\ chain = "evm" /\ UNCHANGED <<chain, head, pays, cursor, first, handled>>
  BY DEF StartEvmScan
<1>4. scanFaults' \in 0 .. MaxScanFaults /\ onFallback' \in BOOLEAN
  BY Bounds DEF StartEvmScan, ScanFault, ScanTypeOK
<1>5. PICK got \in SUBSET (pays \cap ScanRange(from, to)), ok \in BOOLEAN :
        /\ ok => got = pays \cap ScanRange(from, to)
        /\ scan' = [on |-> TRUE, head |-> head, from |-> from, to |-> to, todo |-> got, ok |-> ok]
  BY DEF StartEvmScan
<1> HIDE DEF from, to
<1>6. ScanTypeOK'
  BY Bounds, <1>1, <1>2, <1>3, <1>4, <1>5 DEF ScanTypeOK, SafeHead
<1>7. TickIsSound'
  BY <1>1, <1>2, <1>3, <1>5 DEF TickIsSound, ScanTypeOK, SafeHead, ScanRange
<1>8. NothingSkipped' /\ HandledIsDeep' /\ CursorIsDeep'
  BY <1>3 DEF NothingSkipped, HandledIsDeep, CursorIsDeep, NextUnread, SafeHead
<1> QED  BY <1>6, <1>7, <1>8

\* scan_bittensor reads final blocks up to the first that cannot be read.
LEMMA BittensorScanKeeps ==
  ASSUME ScanInv, StartBittensorScan
  PROVE  ScanInv'
<1> USE DEF ScanInv
<1> DEFINE from == FromBlock(head)
           to == ToBlock(head, from)
<1>1. from \in 0 .. MaxBlock + 1 /\ (cursor # -1 => from = cursor)
  BY FromBlockBounds DEF StartBittensorScan
<1>2. to \in Int /\ to <= SafeHead(head)
  <2> HIDE DEF from
  <2> QED  BY <1>1, ToBlockBounds
<1>3. chain = "bittensor" /\ UNCHANGED <<chain, head, pays, cursor, first, handled, onFallback>>
  BY DEF StartBittensorScan
<1>4. scanFaults' \in 0 .. MaxScanFaults /\ onFallback' \in BOOLEAN
  BY Bounds DEF StartBittensorScan, ScanFault, ScanTypeOK
<1>5. PICK reach \in from .. to :
        scan' = [on |-> TRUE, head |-> head, from |-> from, to |-> reach,
                 todo |-> pays \cap ScanRange(from, reach), ok |-> TRUE]
  BY DEF StartBittensorScan
<1> HIDE DEF from, to
<1>6. ScanTypeOK'
  <2>1. pays \cap ScanRange(from, reach) \in SUBSET (1 .. MaxBlock)
    BY DEF ScanTypeOK
  <2>2. reach \in 0 .. MaxBlock
    <3>1. head \in Int /\ head <= MaxBlock /\ to <= head - Confirmations
      BY Bounds, <1>2 DEF ScanTypeOK, SafeHead
    <3>2. to <= MaxBlock
      BY Bounds, <1>2, <3>1
    <3> QED  BY Bounds, <1>1, <1>2, <1>5, <3>2
  <2>3. scan' \in [on : BOOLEAN, head : 0 .. MaxBlock, from : 0 .. MaxBlock + 1, to : 0 .. MaxBlock,
                   todo : SUBSET (1 .. MaxBlock), ok : BOOLEAN]
    BY <1>1, <1>5, <2>1, <2>2 DEF ScanTypeOK
  <2> QED  BY <1>3, <1>4, <2>3 DEF ScanTypeOK
<1>7. TickIsSound'
  BY Bounds, <1>1, <1>2, <1>3, <1>5 DEF TickIsSound, ScanTypeOK, SafeHead, ScanRange
<1>8. NothingSkipped' /\ HandledIsDeep' /\ CursorIsDeep'
  BY <1>3 DEF NothingSkipped, HandledIsDeep, CursorIsDeep, NextUnread, SafeHead
<1> QED  BY <1>6, <1>7, <1>8

\* resolve_deposit returned or raised: what is handled is final, and what failed
\* is out of the range or the tick is not ok.
LEMMA PaymentKeeps ==
  ASSUME ScanInv, HandlePayment \/ PaymentFails
  PROVE  ScanInv'
<1> USE DEF ScanInv
<1>1. /\ scan.on /\ UNCHANGED <<chain, head, pays, cursor, first, onFallback>>
      /\ scanFaults' \in 0 .. MaxScanFaults
      /\ handled \subseteq handled'
  <2>1. CASE HandlePayment  BY <2>1 DEF HandlePayment, ScanTypeOK
  <2>2. CASE PaymentFails
    <3>1. ScanFault
      BY <2>2 DEF PaymentFails
    <3>2. scanFaults' \in 0 .. MaxScanFaults
      BY Bounds, <3>1 DEF ScanFault, ScanTypeOK
    <3> QED  BY <2>2, <3>2 DEF PaymentFails
  <2> QED  BY <2>1, <2>2
<1>2. PICK b \in scan.todo :
        /\ chain = "bittensor" => \A c \in scan.todo : b <= c
        /\ \/ handled' = handled \cup {b} /\ scan' = [scan EXCEPT !.todo = @ \ {b}]
           \/ /\ handled' = handled
              /\ scan' = IF chain = "evm" THEN [scan EXCEPT !.todo = @ \ {b}, !.ok = FALSE]
                         ELSE [scan EXCEPT !.todo = {}, !.to = b - 1]
  BY DEF HandlePayment, PaymentFails, ComesNext
<1>3. /\ b \in pays /\ b \in 1 .. MaxBlock /\ b \in ScanRange(scan.from, scan.to)
      /\ scan.head \in Int /\ scan.from \in Int /\ scan.to \in Int /\ head \in Int
      /\ scan.head <= head /\ scan.to <= SafeHead(scan.head) /\ scan.from <= scan.to
      /\ scan.from >= 0 /\ scan.to <= MaxBlock
  BY <1>1, <1>2 DEF TickIsSound, ScanTypeOK
<1>4. scan.from <= b /\ b <= scan.to /\ (chain = "bittensor" => scan.from <= b - 1)
  BY <1>3 DEF ScanRange, ScanTypeOK
<1>5. ScanTypeOK'
  <2>1. handled' \subseteq 1 .. MaxBlock
    BY <1>2, <1>3 DEF ScanTypeOK
  <2>2. b - 1 \in 0 .. MaxBlock
    BY Bounds, <1>3
  <2>3. scan' \in [on : BOOLEAN, head : 0 .. MaxBlock, from : 0 .. MaxBlock + 1, to : 0 .. MaxBlock,
                   todo : SUBSET (1 .. MaxBlock), ok : BOOLEAN]
    BY <1>2, <2>2 DEF ScanTypeOK
  <2> QED  BY <1>1, <2>1, <2>3 DEF ScanTypeOK
<1>6. HandledIsDeep'
  BY Bounds, <1>1, <1>2, <1>3, <1>4 DEF HandledIsDeep, SafeHead, ScanTypeOK
<1>7. NothingSkipped' /\ CursorIsDeep'
  BY <1>1 DEF NothingSkipped, CursorIsDeep, NextUnread, SafeHead
<1>8. TickIsSound'
  <2>1. CASE scan' = [scan EXCEPT !.todo = @ \ {b}] /\ handled' = handled \cup {b}
    BY <1>1, <1>2, <2>1 DEF TickIsSound, ScanTypeOK, ScanRange, SafeHead
  <2>2. CASE chain = "evm" /\ scan' = [scan EXCEPT !.todo = @ \ {b}, !.ok = FALSE] /\ handled' = handled
    BY <1>1, <1>2, <2>2 DEF TickIsSound, ScanTypeOK, ScanRange, SafeHead
  <2>3. CASE chain = "bittensor" /\ scan' = [scan EXCEPT !.todo = {}, !.to = b - 1] /\ handled' = handled
    <3>1. /\ scan'.on = scan.on /\ scan'.head = scan.head /\ scan'.from = scan.from /\ scan'.ok = scan.ok
          /\ scan'.to = b - 1 /\ scan'.todo = {}
      BY <2>3 DEF ScanTypeOK
    <3>2. \A x \in pays : x \in ScanRange(scan.from, b - 1) => x \in handled
      BY <1>1, <1>2, <1>3, <1>4, <2>3 DEF TickIsSound, ScanRange, ScanTypeOK
    <3> QED  BY Bounds, <1>1, <1>3, <1>4, <2>3, <3>1, <3>2 DEF TickIsSound, ScanRange, SafeHead, ScanTypeOK
  <2> QED  BY <1>2, <2>1, <2>2, <2>3 DEF ScanTypeOK
<1> QED  BY <1>5, <1>6, <1>7, <1>8

\* The cursor moves past what was handled or received nothing.
LEMMA FinishKeeps ==
  ASSUME ScanInv, FinishScan
  PROVE  ScanInv'
<1> USE DEF ScanInv
<1>1. PICK asked \in BOOLEAN :
        /\ cursor' = NextCursor(asked)
        /\ first' = IF cursor = -1 /\ NextCursor(asked) # -1
                    THEN (IF chain = "evm" THEN scan.from ELSE scan.from + 1) ELSE first
  BY DEF FinishScan
<1>2. /\ scan.on /\ scan.todo = {} /\ scan' = NoScan
      /\ UNCHANGED <<chain, head, pays, handled, onFallback, scanFaults>>
  BY DEF FinishScan
<1>3. /\ scan.head \in 0 .. head /\ scan.from \in 0 .. scan.to /\ scan.to \in 0 .. MaxBlock
      /\ scan.to <= scan.head - Confirmations /\ head \in 0 .. MaxBlock
      /\ cursor # -1 => scan.from = cursor
      /\ cursor \in Int /\ first \in Int /\ pays \subseteq Int
  BY <1>2 DEF TickIsSound, ScanTypeOK, SafeHead
<1> DEFINE unread(c) == IF chain = "evm" THEN c ELSE c + 1
           clean(c) == \A b \in pays : unread(scan.from) <= b /\ b < unread(c) => b \in handled
<1>4. \/ cursor' = cursor
      \/ cursor' \in 0 .. MaxBlock + 1 /\ unread(cursor') <= SafeHead(head) + 1 /\ clean(cursor')
  <2>1. CASE chain = "bittensor"
    <3>1. cursor' = scan.to
      BY <1>1, <2>1 DEF NextCursor
    <3>2. clean(cursor')
      BY <1>2, <1>3, <2>1, <3>1 DEF TickIsSound, ScanRange
    <3> QED  BY Bounds, <1>3, <2>1, <3>1, <3>2 DEF SafeHead
  <2>2. CASE chain = "evm" /\ scan.ok
    <3>1. cursor' = scan.to + 1
      BY <1>1, <2>2 DEF NextCursor
    <3>2. clean(cursor')
      BY <1>2, <1>3, <2>2, <3>1 DEF TickIsSound, ScanRange
    <3> QED  BY Bounds, <1>3, <2>2, <3>1, <3>2 DEF SafeHead
  <2>3. CASE chain = "evm" /\ ~scan.ok /\ cursor' # cursor
    <3>1. cursor' = ResumeAt /\ ResumeAt > scan.from /\ NothingReceived(scan.from, ResumeAt - 1)
      BY <1>1, <2>3 DEF NextCursor
    <3>2. ResumeAt \in Int /\ ResumeAt <= scan.head - Confirmations
      BY Bounds, <1>3 DEF ResumeAt, SafeHead
    <3>3. clean(cursor')
      BY <1>3, <2>3, <3>1, <3>2 DEF NothingReceived
    <3> QED  BY Bounds, <1>3, <2>3, <3>1, <3>2, <3>3 DEF SafeHead
  <2> QED  BY <2>1, <2>2, <2>3 DEF ScanTypeOK
<1>5. cursor' = cursor => first' = first
  BY <1>1
<1>6. cursor' # cursor => IF cursor = -1 THEN first' = unread(scan.from) ELSE first' = first
  BY <1>1 DEF ScanTypeOK
<1>7. ScanTypeOK'
  BY Bounds, <1>2, <1>3, <1>4, <1>5, <1>6 DEF ScanTypeOK, NoScan
<1>8. NothingSkipped'
  <2>1. CASE cursor' = cursor
    BY <1>2, <1>5, <2>1 DEF NothingSkipped, NextUnread
  <2>2. CASE cursor' # cursor
    <3> SUFFICES ASSUME NEW b \in pays, first' <= b, b < unread(cursor')
                 PROVE  b \in handled
      BY <1>2 DEF NothingSkipped, NextUnread
    <3>1. CASE unread(scan.from) <= b
      BY <1>4, <2>2, <3>1
    <3>2. CASE ~(unread(scan.from) <= b)
      <4>1. cursor # -1 /\ first' = first /\ scan.from = cursor
        BY <1>3, <1>6, <2>2, <3>2
      <4>2. b < NextUnread /\ first <= b
        BY <1>3, <3>2, <4>1 DEF NextUnread
      <4> QED  BY <4>1, <4>2 DEF NothingSkipped
    <3> QED  BY <3>1, <3>2
  <2> QED  BY <2>1, <2>2
<1>9. HandledIsDeep' /\ CursorIsDeep' /\ TickIsSound'
  BY <1>2, <1>4 DEF HandledIsDeep, CursorIsDeep, TickIsSound, NextUnread, SafeHead, NoScan
<1> QED  BY <1>7, <1>8, <1>9

\* A death drops the tick and nothing else; so does the end of the fallback's time.
LEMMA DeathKeeps ==
  ASSUME ScanInv, WatcherDies \/ HoldEnds \/ UNCHANGED scanVars
  PROVE  ScanInv'
<1>1. CASE UNCHANGED scanVars
  BY <1>1 DEF ScanInv, ScanTypeOK, NothingSkipped, HandledIsDeep, CursorIsDeep, TickIsSound, NextUnread,
              SafeHead, ScanRange, scanVars
<1>2. CASE WatcherDies
  <2>1. onFallback' \in BOOLEAN
    BY <1>2 DEF WatcherDies
  <2>2. scanFaults' \in 0 .. MaxScanFaults
    BY Bounds, <1>2 DEF WatcherDies, ScanFault, ScanInv, ScanTypeOK
  <2>3. scan' \in [on : BOOLEAN, head : 0 .. MaxBlock, from : 0 .. MaxBlock + 1, to : 0 .. MaxBlock,
                   todo : SUBSET (1 .. MaxBlock), ok : BOOLEAN]
    BY Bounds, <1>2 DEF WatcherDies, NoScan
  <2>4. ScanTypeOK'
    BY <1>2, <2>1, <2>2, <2>3 DEF WatcherDies, ScanInv, ScanTypeOK
  <2>5. NothingSkipped' /\ HandledIsDeep' /\ CursorIsDeep' /\ TickIsSound'
    BY <1>2 DEF WatcherDies, ScanInv, NothingSkipped, HandledIsDeep, CursorIsDeep, TickIsSound, NextUnread,
                SafeHead, NoScan
  <2> QED  BY <2>4, <2>5 DEF ScanInv
<1>3. CASE HoldEnds
  BY <1>3 DEF HoldEnds, ScanInv, ScanTypeOK, NothingSkipped, HandledIsDeep, CursorIsDeep,
              TickIsSound, NextUnread, SafeHead, ScanRange
<1> QED  BY <1>1, <1>2, <1>3

(***************************************************************************)
(* The theorem.                                                            *)
(***************************************************************************)

\* However ticks fail, endpoints lag and processes die, the cursor passes no payment
\* that was not handled, and nothing is handled that the chain may still take back
\* (scan_evm_chain, scan_bittensor).
THEOREM ScanSafetyHolds == ScanSpec => []ScanSafety
<1>1. ScanInit => ScanInv
  BY ScanInvInit
<1>2. ScanInv /\ [ScanNext]_scanVars => ScanInv'
  BY ChainKeeps, EvmScanKeeps, BittensorScanKeeps, PaymentKeeps, FinishKeeps, DeathKeeps DEF ScanNext
<1>3. ScanInv => ScanSafety
  BY DEF ScanInv, ScanSafety, HandledIsDeep, OnlyConfirmed
<1> QED  BY <1>1, <1>2, <1>3, PTL DEF ScanSpec

(***************************************************************************)
(* Paid inference: the inductive invariant.                                *)
(***************************************************************************)

ReqPc == {"new", "route", "reserve", "call", "charge", "release", "broken", "refused", "done", "failed", "abandoned"}

\* What is owed was held; a private model owes and holds nothing.
OwedIsBounded ==
  \A r \in Request :
    /\ req[r].owed <= Worst[r]
    /\ ~PerToken(r) => req[r].owed = 0 /\ hold[r] = "none" /\ charged[r] = 0

\* Nobody pays before the answer, everybody who owes has paid after it.
ChargedOnAnswer ==
  \A r \in Request :
    /\ req[r].pc \notin {"release", "done", "abandoned"} => charged[r] = 0
    /\ req[r].pc \in {"release", "done"} /\ req[r].owed > 0 /\ ~disturbed => charged[r] = 1

\* A request to a shared model runs under its hold.
RunsUnderHold ==
  ~disturbed => \A r \in Request : PerToken(r) /\ InFlight(r) => hold[r] = "active"

InfInv == InfTypeOK /\ OwedIsBounded /\ ChargedOnAnswer /\ RunsUnderHold /\ NoFreeInference /\ HoldsAreCovered

\* The debit to the floor takes what is asked for when the balance covers it, and never more.
LEMMA TakeBounds ==
  ASSUME credit \in Int, NEW cents \in Nat
  PROVE  /\ Take(cents) \in Nat /\ Take(cents) <= cents
         /\ cents <= credit \/ cents = 0 => Take(cents) = cents
<1> DEFINE floor == Max({0, credit})
<1>1. floor \in {0, credit} /\ 0 <= floor /\ credit <= floor
  BY MaxOfTwo
<1> HIDE DEF floor
<1>2. Min({cents, floor}) \in {cents, floor} /\ Min({cents, floor}) <= cents /\ Min({cents, floor}) <= floor
  BY <1>1, MinOfTwo
<1> QED
  BY <1>1, <1>2 DEF Take, floor

Covered == {r \in Request : hold[r] = "active" /\ InFlight(r)}
ReqRec == [pc : ReqPc, left : SUBSET Backend, sent : BOOLEAN, owed : Nat]

\* Holds, charges and credit are numbers.
LEMMA InfNumbers ==
  ASSUME InfInv
  PROVE  /\ credit \in Int /\ IsFiniteSet(Covered) /\ Total(Covered, Worst) \in Nat
         /\ req \in [Request -> ReqRec]
         /\ \A r \in Request : Worst[r] \in Nat /\ Worst[r] > 0 /\ req[r].owed \in Nat /\ charged[r] \in {0, 1}
<1> USE InferenceAssumption
<1>1. \A r \in Request : Worst[r] \in Nat /\ Worst[r] > 0
  OBVIOUS
<1>2. IsFiniteSet(Covered)
  BY FS_Subset DEF Covered
<1>3. Total(Covered, Worst) \in Nat
  <2>1. \A r \in Covered : Worst[r] \in Nat
    BY <1>1 DEF Covered
  <2> QED
    BY <1>2, <2>1, TotalType
<1>4. \A r \in Request : req[r].owed \in Nat /\ charged[r] \in {0, 1}
  BY DEF InfInv, InfTypeOK
<1> QED
  BY <1>1, <1>2, <1>3, <1>4 DEF InfInv, InfTypeOK, ReqRec, ReqPc

\* The hold of a covered request is there: an undisturbed charge is paid in full.
LEMMA PaidInFull ==
  ASSUME InfInv, NEW r \in Request, req[r].pc = "charge"
  PROVE  /\ Take(req[r].owed) \in Nat /\ Take(req[r].owed) <= req[r].owed
         /\ ~PerToken(r) => Take(req[r].owed) = 0
         /\ ~disturbed => Take(req[r].owed) = req[r].owed
<1>1. /\ Take(req[r].owed) \in Nat /\ Take(req[r].owed) <= req[r].owed
      /\ req[r].owed <= credit \/ req[r].owed = 0 => Take(req[r].owed) = req[r].owed
  BY TakeBounds, InfNumbers
<1>2. ~PerToken(r) => req[r].owed = 0
  BY DEF InfInv, OwedIsBounded
<1>3. ASSUME ~disturbed, PerToken(r) PROVE req[r].owed <= credit
  <2>1. r \in Covered
    BY <1>3 DEF Covered, InfInv, RunsUnderHold, InFlight
  <2>2. Total(Covered, Worst) = Total(Covered \ {r}, Worst) + Worst[r] /\ Total(Covered \ {r}, Worst) \in Nat
    <3>1. \A q \in Covered : Worst[q] \in Nat
      BY InfNumbers DEF Covered
    <3> QED
      BY <2>1, <3>1, InfNumbers, TotalWithout
  <2>3. Total(Covered, Worst) <= credit /\ req[r].owed <= Worst[r]
    BY <1>3 DEF InfInv, HoldsAreCovered, OwedIsBounded, Covered
  <2> QED
    BY <2>2, <2>3, InfNumbers
<1> QED
  BY <1>1, <1>2, <1>3

\* A request that goes on keeps its record.
LEMMA GotoType ==
  ASSUME InfInv, NEW r, NEW pc \in ReqPc, Goto(r, pc)
  PROVE  req' \in [Request -> ReqRec]
BY InfNumbers DEF Goto, ReqRec

\* So does a request that gets new candidates and one that gets its answer.
LEMMA RouteType ==
  ASSUME InfInv, NEW r \in Request, NEW left \in SUBSET Backend, NEW pc \in ReqPc,
         req' = [req EXCEPT ![r].left = left, ![r].pc = pc]
  PROVE  req' \in [Request -> ReqRec]
BY InfNumbers DEF ReqRec

\* ... and one that has its answer.
LEMMA AnswerType ==
  ASSUME InfInv, NEW r \in Request, NEW pc \in ReqPc, NEW owed \in Nat,
         req' = [req EXCEPT ![r].pc = pc, ![r].owed = owed]
  PROVE  req' \in [Request -> ReqRec]
BY InfNumbers DEF ReqRec

\* Every step keeps the types, and charges a request once.
LEMMA InfTypes ==
  ASSUME InfInv, InfNext
  PROVE  InfTypeOK'
<1> USE InferenceAssumption
<1>1. ASSUME NEW r \in Request, BalanceGate(r) PROVE InfTypeOK'
  BY <1>1 DEF BalanceGate, Goto, InfFault, InfInv, InfTypeOK, ReqPc, ChargedOnAnswer, BillableCents, ReserveInferenceHold, InFlight
<1>2. ASSUME NEW r \in Request, SelectHealthyDeployments(r) PROVE InfTypeOK'
  <2>1. req' \in [Request -> ReqRec]
    <3>1. PICK healthy \in SUBSET Backend : req' = [req EXCEPT ![r].left = healthy, ![r].pc = IF healthy = {} THEN "refused" ELSE "reserve"]
      BY <1>2 DEF SelectHealthyDeployments
    <3>2. (IF healthy = {} THEN "refused" ELSE "reserve") \in ReqPc
      BY DEF ReqPc
    <3> QED
      BY <3>1, <3>2, RouteType
  <2> QED
    BY <1>2, <2>1 DEF SelectHealthyDeployments, Goto, InfFault, InfInv, InfTypeOK, ReqRec, ReqPc
<1>3. ASSUME NEW r \in Request, ReserveInferenceBudget(r) PROVE InfTypeOK'
  BY <1>3 DEF ReserveInferenceBudget, Goto, InfFault, InfInv, InfTypeOK, ReqPc, ChargedOnAnswer, BillableCents, ReserveInferenceHold, InFlight
<1>4. ASSUME NEW r \in Request, ReserveFailsOpen(r) PROVE InfTypeOK'
  BY <1>4 DEF ReserveFailsOpen, Goto, InfFault, InfInv, InfTypeOK, ReqPc, ChargedOnAnswer, BillableCents, ReserveInferenceHold, InFlight
<1>5. ASSUME NEW r \in Request, StreamChunk(r) PROVE InfTypeOK'
  BY <1>5 DEF StreamChunk, Goto, InfFault, InfInv, InfTypeOK, ReqPc, ChargedOnAnswer, BillableCents, ReserveInferenceHold, InFlight
<1>6. ASSUME NEW r \in Request, UpstreamFails(r) PROVE InfTypeOK'
  <2>1. req' \in [Request -> ReqRec]
    <3>1. PICK b \in req[r].left : req' = [req EXCEPT ![r].left = @ \ {b}, ![r].pc = IF req[r].sent \/ req[r].left = {b} THEN "broken" ELSE @]
      BY <1>6 DEF UpstreamFails
    <3> DEFINE left == req[r].left \ {b}
    <3> DEFINE pc == IF req[r].sent \/ req[r].left = {b} THEN "broken" ELSE req[r].pc
    <3>2. left \in SUBSET Backend /\ pc \in ReqPc
      BY InfNumbers DEF ReqRec, ReqPc
    <3>3. req' = [req EXCEPT ![r].left = left, ![r].pc = pc]
      BY <3>1, InfNumbers
    <3> HIDE DEF left, pc
    <3> QED
      BY <3>2, <3>3, RouteType
  <2> QED
    BY <1>6, <2>1 DEF UpstreamFails, Goto, InfFault, InfInv, InfTypeOK, ReqRec, ReqPc
<1>7. ASSUME NEW r \in Request, UpstreamSucceeds(r) PROVE InfTypeOK'
  <2>1. req' \in [Request -> ReqRec]
    <3>1. PICK cents \in BillableCents(r) \cup {0} : req' = [req EXCEPT ![r].pc = "charge", ![r].owed = cents]
      BY <1>7 DEF UpstreamSucceeds
    <3>2. BillableCents(r) \subseteq Nat
      BY InfNumbers DEF BillableCents
    <3>3. "charge" \in ReqPc
      BY DEF ReqPc
    <3> QED
      BY <3>1, <3>2, <3>3, AnswerType
  <2> QED
    BY <1>7, <2>1 DEF UpstreamSucceeds, Goto, InfFault, InfInv, InfTypeOK, ReqRec, ReqPc
<1>8. ASSUME NEW r \in Request, ClientDisconnects(r) PROVE InfTypeOK'
  <2>1. req' \in [Request -> ReqRec]
    <3>1. PICK cents \in BillableCents(r) \cup {0} : req' = [req EXCEPT ![r].pc = "charge", ![r].owed = cents]
      BY <1>8 DEF ClientDisconnects
    <3>2. BillableCents(r) \subseteq Nat
      BY InfNumbers DEF BillableCents
    <3>3. "charge" \in ReqPc
      BY DEF ReqPc
    <3> QED
      BY <3>1, <3>2, <3>3, AnswerType
  <2> QED
    BY <1>8, <2>1 DEF ClientDisconnects, Goto, InfFault, InfInv, InfTypeOK, ReqRec, ReqPc
<1>9. ASSUME NEW r \in Request, StreamNeverStarted(r) PROVE InfTypeOK'
  BY <1>9 DEF StreamNeverStarted, Goto, InfFault, InfInv, InfTypeOK, ReqPc, ChargedOnAnswer, BillableCents, ReserveInferenceHold, InFlight
<1>10. ASSUME NEW r \in Request, ChargeInferenceTokens(r) PROVE InfTypeOK'
  <2>1. req' \in [Request -> ReqRec]
    BY <1>10, GotoType DEF ChargeInferenceTokens, ReqPc
  <2>2. req[r].pc = "charge" /\ charged[r] = 0
    BY <1>10 DEF ChargeInferenceTokens, InfInv, ChargedOnAnswer
  <2>3. credit' \in Int /\ shortfall' \in Nat
    BY <1>10, <2>2, InfNumbers, PaidInFull DEF ChargeInferenceTokens, InfInv, InfTypeOK
  <2>4. charged' \in [Request -> 0 .. 1]
    BY <1>10, <2>2 DEF ChargeInferenceTokens, InfInv, InfTypeOK
  <2>5. UNCHANGED <<hold, disturbed, infFaults>>
    BY <1>10 DEF ChargeInferenceTokens
  <2> QED
    BY <2>1, <2>3, <2>4, <2>5 DEF InfInv, InfTypeOK, ReqRec, ReqPc
<1>11. ASSUME NEW r \in Request, ChargeFails(r) PROVE InfTypeOK'
  <2>1. req' \in [Request -> ReqRec]
    BY <1>11, GotoType DEF ChargeFails, ReqPc
  <2> QED
    BY <1>11, <2>1 DEF ChargeFails, Goto, InfFault, InfInv, InfTypeOK, ReqRec, ReqPc
<1>12. ASSUME NEW r \in Request, ReleaseInferenceBudget(r) PROVE InfTypeOK'
  BY <1>12 DEF ReleaseInferenceBudget, Goto, InfFault, InfInv, InfTypeOK, ReqPc, ChargedOnAnswer, BillableCents, ReserveInferenceHold, InFlight
<1>13. ASSUME NEW r \in Request, HoldExpires(r) PROVE InfTypeOK'
  BY <1>13 DEF HoldExpires, Goto, InfFault, InfInv, InfTypeOK, ReqPc, ChargedOnAnswer, BillableCents, ReserveInferenceHold, InFlight
<1>14. CASE OtherDebit
  BY <1>14 DEF OtherDebit, InfFault, InfInv, InfTypeOK, ReqPc, ChargedOnAnswer, BillableCents, ReserveInferenceHold, InFlight
<1>15. CASE GatewayDies
  BY <1>15 DEF GatewayDies, InfFault, InfInv, InfTypeOK, ReqPc, ChargedOnAnswer, BillableCents, ReserveInferenceHold, InFlight
<1> QED
  BY <1>1, <1>2, <1>3, <1>4, <1>5, <1>6, <1>7, <1>8, <1>9, <1>10, <1>11, <1>12, <1>13, <1>14, <1>15 DEF InfNext

\* Every step keeps what is owed within what was held.
LEMMA OwedKept ==
  ASSUME InfInv, InfNext
  PROVE  OwedIsBounded'
<1> USE InferenceAssumption
<1>1. ASSUME NEW r \in Request, BalanceGate(r) PROVE OwedIsBounded'
  BY <1>1 DEF BalanceGate, Goto, InfFault, InfInv, InfTypeOK, OwedIsBounded, PerToken, BillableCents, ReserveInferenceHold, InFlight, Take
<1>2. ASSUME NEW r \in Request, SelectHealthyDeployments(r) PROVE OwedIsBounded'
  BY <1>2 DEF SelectHealthyDeployments, Goto, InfFault, InfInv, InfTypeOK, OwedIsBounded, PerToken, BillableCents, ReserveInferenceHold, InFlight, Take
<1>3. ASSUME NEW r \in Request, ReserveInferenceBudget(r) PROVE OwedIsBounded'
  BY <1>3 DEF ReserveInferenceBudget, Goto, InfFault, InfInv, InfTypeOK, OwedIsBounded, PerToken, BillableCents, ReserveInferenceHold, InFlight, Take
<1>4. ASSUME NEW r \in Request, ReserveFailsOpen(r) PROVE OwedIsBounded'
  BY <1>4 DEF ReserveFailsOpen, Goto, InfFault, InfInv, InfTypeOK, OwedIsBounded, PerToken, BillableCents, ReserveInferenceHold, InFlight, Take
<1>5. ASSUME NEW r \in Request, StreamChunk(r) PROVE OwedIsBounded'
  BY <1>5 DEF StreamChunk, Goto, InfFault, InfInv, InfTypeOK, OwedIsBounded, PerToken, BillableCents, ReserveInferenceHold, InFlight, Take
<1>6. ASSUME NEW r \in Request, UpstreamFails(r) PROVE OwedIsBounded'
  BY <1>6 DEF UpstreamFails, Goto, InfFault, InfInv, InfTypeOK, OwedIsBounded, PerToken, BillableCents, ReserveInferenceHold, InFlight, Take
<1>7. ASSUME NEW r \in Request, UpstreamSucceeds(r) PROVE OwedIsBounded'
  BY <1>7 DEF UpstreamSucceeds, Goto, InfFault, InfInv, InfTypeOK, OwedIsBounded, PerToken, BillableCents, ReserveInferenceHold, InFlight, Take
<1>8. ASSUME NEW r \in Request, ClientDisconnects(r) PROVE OwedIsBounded'
  BY <1>8 DEF ClientDisconnects, Goto, InfFault, InfInv, InfTypeOK, OwedIsBounded, PerToken, BillableCents, ReserveInferenceHold, InFlight, Take
<1>9. ASSUME NEW r \in Request, StreamNeverStarted(r) PROVE OwedIsBounded'
  BY <1>9 DEF StreamNeverStarted, Goto, InfFault, InfInv, InfTypeOK, OwedIsBounded, PerToken, BillableCents, ReserveInferenceHold, InFlight, Take
<1>10. ASSUME NEW r \in Request, ChargeInferenceTokens(r) PROVE OwedIsBounded'
  <2>1. UNCHANGED hold /\ \A q \in Request : req'[q].owed = req[q].owed
    BY <1>10, InfNumbers DEF ChargeInferenceTokens, Goto, ReqRec
  <2>2. \A q \in Request : ~PerToken(q) => charged'[q] = charged[q]
    BY <1>10, PaidInFull DEF ChargeInferenceTokens, InfInv, InfTypeOK
  <2> QED
    BY <2>1, <2>2 DEF InfInv, OwedIsBounded, PerToken
<1>11. ASSUME NEW r \in Request, ChargeFails(r) PROVE OwedIsBounded'
  BY <1>11 DEF ChargeFails, Goto, InfFault, InfInv, InfTypeOK, OwedIsBounded, PerToken, BillableCents, ReserveInferenceHold, InFlight, Take
<1>12. ASSUME NEW r \in Request, ReleaseInferenceBudget(r) PROVE OwedIsBounded'
  BY <1>12 DEF ReleaseInferenceBudget, Goto, InfFault, InfInv, InfTypeOK, OwedIsBounded, PerToken, BillableCents, ReserveInferenceHold, InFlight, Take
<1>13. ASSUME NEW r \in Request, HoldExpires(r) PROVE OwedIsBounded'
  BY <1>13 DEF HoldExpires, Goto, InfFault, InfInv, InfTypeOK, OwedIsBounded, PerToken, BillableCents, ReserveInferenceHold, InFlight, Take
<1>14. CASE OtherDebit
  BY <1>14 DEF OtherDebit, InfFault, InfInv, InfTypeOK, OwedIsBounded, PerToken, BillableCents, ReserveInferenceHold, InFlight, Take
<1>15. CASE GatewayDies
  BY <1>15 DEF GatewayDies, InfFault, InfInv, InfTypeOK, OwedIsBounded, PerToken, BillableCents, ReserveInferenceHold, InFlight, Take
<1> QED
  BY <1>1, <1>2, <1>3, <1>4, <1>5, <1>6, <1>7, <1>8, <1>9, <1>10, <1>11, <1>12, <1>13, <1>14, <1>15 DEF InfNext

\* Every step keeps payment and answer together.
LEMMA ChargedKept ==
  ASSUME InfInv, InfNext
  PROVE  ChargedOnAnswer'
<1> USE InferenceAssumption
<1>1. ASSUME NEW r \in Request, BalanceGate(r) PROVE ChargedOnAnswer'
  BY <1>1 DEF BalanceGate, Goto, InfFault, InfInv, InfTypeOK, ChargedOnAnswer, InFlight
<1>2. ASSUME NEW r \in Request, SelectHealthyDeployments(r) PROVE ChargedOnAnswer'
  BY <1>2 DEF SelectHealthyDeployments, Goto, InfFault, InfInv, InfTypeOK, ChargedOnAnswer, InFlight
<1>3. ASSUME NEW r \in Request, ReserveInferenceBudget(r) PROVE ChargedOnAnswer'
  BY <1>3 DEF ReserveInferenceBudget, Goto, InfFault, InfInv, InfTypeOK, ChargedOnAnswer, InFlight
<1>4. ASSUME NEW r \in Request, ReserveFailsOpen(r) PROVE ChargedOnAnswer'
  BY <1>4 DEF ReserveFailsOpen, Goto, InfFault, InfInv, InfTypeOK, ChargedOnAnswer, InFlight
<1>5. ASSUME NEW r \in Request, StreamChunk(r) PROVE ChargedOnAnswer'
  BY <1>5 DEF StreamChunk, Goto, InfFault, InfInv, InfTypeOK, ChargedOnAnswer, InFlight
<1>6. ASSUME NEW r \in Request, UpstreamFails(r) PROVE ChargedOnAnswer'
  BY <1>6 DEF UpstreamFails, Goto, InfFault, InfInv, InfTypeOK, ChargedOnAnswer, InFlight
<1>7. ASSUME NEW r \in Request, UpstreamSucceeds(r) PROVE ChargedOnAnswer'
  BY <1>7 DEF UpstreamSucceeds, Goto, InfFault, InfInv, InfTypeOK, ChargedOnAnswer, InFlight
<1>8. ASSUME NEW r \in Request, ClientDisconnects(r) PROVE ChargedOnAnswer'
  BY <1>8 DEF ClientDisconnects, Goto, InfFault, InfInv, InfTypeOK, ChargedOnAnswer, InFlight
<1>9. ASSUME NEW r \in Request, StreamNeverStarted(r) PROVE ChargedOnAnswer'
  BY <1>9 DEF StreamNeverStarted, Goto, InfFault, InfInv, InfTypeOK, ChargedOnAnswer, InFlight
<1>10. ASSUME NEW r \in Request, ChargeInferenceTokens(r) PROVE ChargedOnAnswer'
  <2>1. req[r].pc = "charge" /\ charged[r] = 0 /\ disturbed' = disturbed
    BY <1>10 DEF ChargeInferenceTokens, InfInv, ChargedOnAnswer
  <2>2. \A q \in Request : q # r => req'[q] = req[q] /\ charged'[q] = charged[q]
    BY <1>10, InfNumbers DEF ChargeInferenceTokens, Goto, InfInv, InfTypeOK
  <2>3. req'[r].pc = "release" /\ req'[r].owed = req[r].owed
    BY <1>10, InfNumbers DEF ChargeInferenceTokens, Goto, ReqRec
  <2>4. ~disturbed /\ req[r].owed > 0 => charged'[r] = 1
    BY <1>10, <2>1, PaidInFull, InfNumbers DEF ChargeInferenceTokens, InfInv, InfTypeOK
  <2> QED
    BY <2>1, <2>2, <2>3, <2>4 DEF InfInv, ChargedOnAnswer
<1>11. ASSUME NEW r \in Request, ChargeFails(r) PROVE ChargedOnAnswer'
  BY <1>11 DEF ChargeFails, Goto, InfFault, InfInv, InfTypeOK, ChargedOnAnswer, InFlight
<1>12. ASSUME NEW r \in Request, ReleaseInferenceBudget(r) PROVE ChargedOnAnswer'
  BY <1>12 DEF ReleaseInferenceBudget, Goto, InfFault, InfInv, InfTypeOK, ChargedOnAnswer, InFlight
<1>13. ASSUME NEW r \in Request, HoldExpires(r) PROVE ChargedOnAnswer'
  BY <1>13 DEF HoldExpires, Goto, InfFault, InfInv, InfTypeOK, ChargedOnAnswer, InFlight
<1>14. CASE OtherDebit
  BY <1>14 DEF OtherDebit, InfFault, InfInv, InfTypeOK, ChargedOnAnswer, InFlight
<1>15. CASE GatewayDies
  BY <1>15 DEF GatewayDies, InfFault, InfInv, InfTypeOK, ChargedOnAnswer, InFlight
<1> QED
  BY <1>1, <1>2, <1>3, <1>4, <1>5, <1>6, <1>7, <1>8, <1>9, <1>10, <1>11, <1>12, <1>13, <1>14, <1>15 DEF InfNext

\* Every step keeps running requests under their holds.
LEMMA RunsKept ==
  ASSUME InfInv, InfNext
  PROVE  RunsUnderHold'
<1> USE InferenceAssumption
<1>1. ASSUME NEW r \in Request, BalanceGate(r) PROVE RunsUnderHold'
  BY <1>1 DEF BalanceGate, Goto, InfFault, InfInv, InfTypeOK, RunsUnderHold, InFlight, ReserveInferenceHold, PerToken, OwedIsBounded
<1>2. ASSUME NEW r \in Request, SelectHealthyDeployments(r) PROVE RunsUnderHold'
  BY <1>2 DEF SelectHealthyDeployments, Goto, InfFault, InfInv, InfTypeOK, RunsUnderHold, InFlight, ReserveInferenceHold, PerToken, OwedIsBounded
<1>3. ASSUME NEW r \in Request, ReserveInferenceBudget(r) PROVE RunsUnderHold'
  BY <1>3 DEF ReserveInferenceBudget, Goto, InfFault, InfInv, InfTypeOK, RunsUnderHold, InFlight, ReserveInferenceHold, PerToken, OwedIsBounded
<1>4. ASSUME NEW r \in Request, ReserveFailsOpen(r) PROVE RunsUnderHold'
  BY <1>4 DEF ReserveFailsOpen, Goto, InfFault, InfInv, InfTypeOK, RunsUnderHold, InFlight, ReserveInferenceHold, PerToken, OwedIsBounded
<1>5. ASSUME NEW r \in Request, StreamChunk(r) PROVE RunsUnderHold'
  BY <1>5 DEF StreamChunk, Goto, InfFault, InfInv, InfTypeOK, RunsUnderHold, InFlight, ReserveInferenceHold, PerToken, OwedIsBounded
<1>6. ASSUME NEW r \in Request, UpstreamFails(r) PROVE RunsUnderHold'
  BY <1>6 DEF UpstreamFails, Goto, InfFault, InfInv, InfTypeOK, RunsUnderHold, InFlight, ReserveInferenceHold, PerToken, OwedIsBounded
<1>7. ASSUME NEW r \in Request, UpstreamSucceeds(r) PROVE RunsUnderHold'
  BY <1>7 DEF UpstreamSucceeds, Goto, InfFault, InfInv, InfTypeOK, RunsUnderHold, InFlight, ReserveInferenceHold, PerToken, OwedIsBounded
<1>8. ASSUME NEW r \in Request, ClientDisconnects(r) PROVE RunsUnderHold'
  BY <1>8 DEF ClientDisconnects, Goto, InfFault, InfInv, InfTypeOK, RunsUnderHold, InFlight, ReserveInferenceHold, PerToken, OwedIsBounded
<1>9. ASSUME NEW r \in Request, StreamNeverStarted(r) PROVE RunsUnderHold'
  BY <1>9 DEF StreamNeverStarted, Goto, InfFault, InfInv, InfTypeOK, RunsUnderHold, InFlight, ReserveInferenceHold, PerToken, OwedIsBounded
<1>10. ASSUME NEW r \in Request, ChargeInferenceTokens(r) PROVE RunsUnderHold'
  BY <1>10 DEF ChargeInferenceTokens, Goto, InfFault, InfInv, InfTypeOK, RunsUnderHold, InFlight, ReserveInferenceHold, PerToken, OwedIsBounded
<1>11. ASSUME NEW r \in Request, ChargeFails(r) PROVE RunsUnderHold'
  BY <1>11 DEF ChargeFails, Goto, InfFault, InfInv, InfTypeOK, RunsUnderHold, InFlight, ReserveInferenceHold, PerToken, OwedIsBounded
<1>12. ASSUME NEW r \in Request, ReleaseInferenceBudget(r) PROVE RunsUnderHold'
  BY <1>12 DEF ReleaseInferenceBudget, Goto, InfFault, InfInv, InfTypeOK, RunsUnderHold, InFlight, ReserveInferenceHold, PerToken, OwedIsBounded
<1>13. ASSUME NEW r \in Request, HoldExpires(r) PROVE RunsUnderHold'
  BY <1>13 DEF HoldExpires, Goto, InfFault, InfInv, InfTypeOK, RunsUnderHold, InFlight, ReserveInferenceHold, PerToken, OwedIsBounded
<1>14. CASE OtherDebit
  BY <1>14 DEF OtherDebit, InfFault, InfInv, InfTypeOK, RunsUnderHold, InFlight, ReserveInferenceHold, PerToken, OwedIsBounded
<1>15. CASE GatewayDies
  BY <1>15 DEF GatewayDies, InfFault, InfInv, InfTypeOK, RunsUnderHold, InFlight, ReserveInferenceHold, PerToken, OwedIsBounded
<1> QED
  BY <1>1, <1>2, <1>3, <1>4, <1>5, <1>6, <1>7, <1>8, <1>9, <1>10, <1>11, <1>12, <1>13, <1>14, <1>15 DEF InfNext

\* When fewer holds run and the balance stays, they are still covered.
LEMMA FewerCovered ==
  ASSUME InfInv, Covered' \subseteq Covered, credit' = credit, disturbed' = disturbed
  PROVE  HoldsAreCovered'
<1>1. Total(Covered', Worst) <= Total(Covered, Worst) /\ Total(Covered', Worst) \in Nat
  <2>1. \A r \in Covered : Worst[r] \in Nat
    BY InfNumbers DEF Covered
  <2> QED
    BY <2>1, InfNumbers, TotalOfPart
<1> QED
  BY <1>1, InfNumbers DEF InfInv, HoldsAreCovered, Covered

\* Every step keeps the holds of running requests covered.
LEMMA CoverKept ==
  ASSUME InfInv, InfNext
  PROVE  HoldsAreCovered'
<1> USE InferenceAssumption
<1>1. ASSUME NEW r \in Request, BalanceGate(r) PROVE HoldsAreCovered'
  <2>1. Covered' \subseteq Covered /\ credit' = credit /\ disturbed' = disturbed
    BY <1>1, InfNumbers DEF BalanceGate, Goto, InfFault, Covered, InFlight, ReqRec, InfInv, InfTypeOK
  <2> QED
    BY <2>1, FewerCovered
<1>2. ASSUME NEW r \in Request, SelectHealthyDeployments(r) PROVE HoldsAreCovered'
  <2>1. Covered' \subseteq Covered /\ credit' = credit /\ disturbed' = disturbed
    BY <1>2, InfNumbers DEF SelectHealthyDeployments, Goto, InfFault, Covered, InFlight, ReqRec, InfInv, InfTypeOK
  <2> QED
    BY <2>1, FewerCovered
<1>3. ASSUME NEW r \in Request, ReserveInferenceBudget(r) PROVE HoldsAreCovered'
  <2>1. UNCHANGED <<credit, disturbed>>
    BY <1>3 DEF ReserveInferenceBudget
  <2>2. CASE Covered' \subseteq Covered
    BY <2>1, <2>2, FewerCovered
  <2>3. CASE PerToken(r) /\ ReserveInferenceHold(r) /\ Goto(r, "call")
    <3> DEFINE active == {q \in Request \ {r} : hold[q] = "active"}
    <3>1. Covered' \subseteq active \cup {r}
      BY <2>3, InfNumbers DEF ReserveInferenceHold, Goto, Covered, InFlight, ReqRec
    <3>2. credit - Total(active, Worst) >= Worst[r]
      BY <2>3 DEF ReserveInferenceHold, ActiveHolds
    <3>3. IsFiniteSet(active) /\ r \notin active /\ \A q \in active \cup {r} : Worst[q] \in Nat
      BY InfNumbers, FS_Subset
    <3> HIDE DEF active
    <3>4. Total(active \cup {r}, Worst) = Total(active, Worst) + Worst[r] /\ Total(active, Worst) \in Nat
      BY <3>3, TotalWith, TotalType
    <3>5. IsFiniteSet(active \cup {r})
      BY <3>3, FS_AddElement
    <3>6. Total(Covered', Worst) <= Total(active \cup {r}, Worst) /\ Total(Covered', Worst) \in Nat
      BY <3>1, <3>3, <3>5, TotalOfPart
    <3>7. Total(Covered', Worst) <= credit
      BY <3>2, <3>4, <3>6, InfNumbers
    <3> QED
      BY <2>1, <3>7 DEF HoldsAreCovered, Covered
  <2>4. CASE ((~PerToken(r) /\ Goto(r, "call")) \/ Goto(r, "refused")) /\ UNCHANGED hold
    <3>1. Covered' \subseteq Covered
      BY <1>3, <2>4, InfNumbers DEF ReserveInferenceBudget, Goto, Covered, InFlight, ReqRec, InfInv, OwedIsBounded
    <3> QED
      BY <2>1, <3>1, FewerCovered
  <2> QED
    BY <1>3, <2>3, <2>4 DEF ReserveInferenceBudget
<1>4. ASSUME NEW r \in Request, ReserveFailsOpen(r) PROVE HoldsAreCovered'
  BY <1>4 DEF ReserveFailsOpen, HoldsAreCovered
<1>5. ASSUME NEW r \in Request, StreamChunk(r) PROVE HoldsAreCovered'
  <2>1. Covered' \subseteq Covered /\ credit' = credit /\ disturbed' = disturbed
    BY <1>5, InfNumbers DEF StreamChunk, Goto, InfFault, Covered, InFlight, ReqRec, InfInv, InfTypeOK
  <2> QED
    BY <2>1, FewerCovered
<1>6. ASSUME NEW r \in Request, UpstreamFails(r) PROVE HoldsAreCovered'
  <2>1. Covered' \subseteq Covered /\ credit' = credit /\ disturbed' = disturbed
    BY <1>6, InfNumbers DEF UpstreamFails, Goto, InfFault, Covered, InFlight, ReqRec, InfInv, InfTypeOK
  <2> QED
    BY <2>1, FewerCovered
<1>7. ASSUME NEW r \in Request, UpstreamSucceeds(r) PROVE HoldsAreCovered'
  <2>1. Covered' \subseteq Covered /\ credit' = credit /\ disturbed' = disturbed
    BY <1>7, InfNumbers DEF UpstreamSucceeds, Goto, InfFault, Covered, InFlight, ReqRec, InfInv, InfTypeOK
  <2> QED
    BY <2>1, FewerCovered
<1>8. ASSUME NEW r \in Request, ClientDisconnects(r) PROVE HoldsAreCovered'
  <2>1. Covered' \subseteq Covered /\ credit' = credit /\ disturbed' = disturbed
    BY <1>8, InfNumbers DEF ClientDisconnects, Goto, InfFault, Covered, InFlight, ReqRec, InfInv, InfTypeOK
  <2> QED
    BY <2>1, FewerCovered
<1>9. ASSUME NEW r \in Request, StreamNeverStarted(r) PROVE HoldsAreCovered'
  <2>1. Covered' \subseteq Covered /\ credit' = credit /\ disturbed' = disturbed
    BY <1>9, InfNumbers DEF StreamNeverStarted, Goto, InfFault, Covered, InFlight, ReqRec, InfInv, InfTypeOK
  <2> QED
    BY <2>1, FewerCovered
<1>10. ASSUME NEW r \in Request, ChargeInferenceTokens(r) PROVE HoldsAreCovered'
  <2>1. SUFFICES ASSUME ~disturbed PROVE Total(Covered', Worst) <= credit'
    BY <1>10 DEF ChargeInferenceTokens, HoldsAreCovered, Covered
  <2>2. req[r].pc = "charge" /\ credit' = credit - Take(req[r].owed) /\ hold' = hold
    BY <1>10 DEF ChargeInferenceTokens
  <2>3. Total(Covered, Worst) <= credit /\ req[r].owed <= Worst[r]
    BY <2>1 DEF InfInv, HoldsAreCovered, OwedIsBounded, Covered
  <2>4. Covered' = Covered \ {r}
    BY <1>10, <2>2, InfNumbers DEF ChargeInferenceTokens, Goto, Covered, InFlight, ReqRec
  <2>5. \A q \in Covered : Worst[q] \in Nat
    BY InfNumbers DEF Covered
  <2>6. CASE PerToken(r)
    <3>1. r \in Covered
      BY <2>1, <2>2, <2>6 DEF Covered, InfInv, RunsUnderHold, InFlight
    <3>2. Total(Covered, Worst) = Total(Covered \ {r}, Worst) + Worst[r] /\ Total(Covered \ {r}, Worst) \in Nat
      BY <2>5, <3>1, InfNumbers, TotalWithout
    <3> QED
      BY <2>2, <2>3, <2>4, <3>2, InfNumbers, PaidInFull
  <2>7. CASE ~PerToken(r)
    <3>1. Covered' = Covered
      BY <2>4, <2>7 DEF Covered, InfInv, OwedIsBounded
    <3>2. Take(req[r].owed) = 0
      BY <2>2, <2>7, PaidInFull
    <3> QED
      BY <2>2, <2>3, <3>1, <3>2, InfNumbers
  <2> QED
    BY <2>6, <2>7
<1>11. ASSUME NEW r \in Request, ChargeFails(r) PROVE HoldsAreCovered'
  BY <1>11 DEF ChargeFails, HoldsAreCovered
<1>12. ASSUME NEW r \in Request, ReleaseInferenceBudget(r) PROVE HoldsAreCovered'
  <2>1. Covered' \subseteq Covered /\ credit' = credit /\ disturbed' = disturbed
    BY <1>12, InfNumbers DEF ReleaseInferenceBudget, Goto, InfFault, Covered, InFlight, ReqRec, InfInv, InfTypeOK
  <2> QED
    BY <2>1, FewerCovered
<1>13. ASSUME NEW r \in Request, HoldExpires(r) PROVE HoldsAreCovered'
  <2>1. CASE InFlight(r)
    BY <1>13, <2>1 DEF HoldExpires, HoldsAreCovered
  <2>2. CASE ~InFlight(r)
    <3>1. Covered' \subseteq Covered /\ credit' = credit /\ disturbed' = disturbed
      BY <1>13, <2>2 DEF HoldExpires, Covered, InFlight, InfInv, InfTypeOK
    <3> QED
      BY <3>1, FewerCovered
  <2> QED
    BY <2>1, <2>2
<1>14. CASE OtherDebit
  BY <1>14 DEF OtherDebit, HoldsAreCovered
<1>15. CASE GatewayDies
  <2>1. Covered' \subseteq Covered /\ credit' = credit /\ disturbed' = disturbed
    BY <1>15, InfNumbers DEF GatewayDies, Goto, InfFault, Covered, InFlight, ReqRec, InfInv, InfTypeOK
  <2> QED
    BY <2>1, FewerCovered
<1> QED
  BY <1>1, <1>2, <1>3, <1>4, <1>5, <1>6, <1>7, <1>8, <1>9, <1>10, <1>11, <1>12, <1>13, <1>14, <1>15 DEF InfNext

\* Every step leaves no served cent unpaid.
LEMMA FreeKept ==
  ASSUME InfInv, InfNext
  PROVE  NoFreeInference'
<1> USE InferenceAssumption
<1>1. ASSUME NEW r \in Request, BalanceGate(r) PROVE NoFreeInference'
  BY <1>1 DEF BalanceGate, InfInv, NoFreeInference
<1>2. ASSUME NEW r \in Request, SelectHealthyDeployments(r) PROVE NoFreeInference'
  BY <1>2 DEF SelectHealthyDeployments, InfInv, NoFreeInference
<1>3. ASSUME NEW r \in Request, ReserveInferenceBudget(r) PROVE NoFreeInference'
  BY <1>3 DEF ReserveInferenceBudget, InfInv, NoFreeInference
<1>4. ASSUME NEW r \in Request, ReserveFailsOpen(r) PROVE NoFreeInference'
  BY <1>4 DEF ReserveFailsOpen, InfInv, NoFreeInference
<1>5. ASSUME NEW r \in Request, StreamChunk(r) PROVE NoFreeInference'
  BY <1>5 DEF StreamChunk, InfInv, NoFreeInference
<1>6. ASSUME NEW r \in Request, UpstreamFails(r) PROVE NoFreeInference'
  BY <1>6 DEF UpstreamFails, InfInv, NoFreeInference
<1>7. ASSUME NEW r \in Request, UpstreamSucceeds(r) PROVE NoFreeInference'
  BY <1>7 DEF UpstreamSucceeds, InfInv, NoFreeInference
<1>8. ASSUME NEW r \in Request, ClientDisconnects(r) PROVE NoFreeInference'
  BY <1>8 DEF ClientDisconnects, InfInv, NoFreeInference
<1>9. ASSUME NEW r \in Request, StreamNeverStarted(r) PROVE NoFreeInference'
  BY <1>9 DEF StreamNeverStarted, InfInv, NoFreeInference
<1>10. ASSUME NEW r \in Request, ChargeInferenceTokens(r) PROVE NoFreeInference'
  <2>1. req[r].pc = "charge" /\ disturbed' = disturbed /\ shortfall' = shortfall + req[r].owed - Take(req[r].owed)
    BY <1>10 DEF ChargeInferenceTokens
  <2> QED
    BY <2>1, PaidInFull, InfNumbers DEF InfInv, NoFreeInference
<1>11. ASSUME NEW r \in Request, ChargeFails(r) PROVE NoFreeInference'
  BY <1>11 DEF ChargeFails, InfInv, NoFreeInference
<1>12. ASSUME NEW r \in Request, ReleaseInferenceBudget(r) PROVE NoFreeInference'
  BY <1>12 DEF ReleaseInferenceBudget, InfInv, NoFreeInference
<1>13. ASSUME NEW r \in Request, HoldExpires(r) PROVE NoFreeInference'
  BY <1>13 DEF HoldExpires, InfInv, NoFreeInference
<1>14. CASE OtherDebit
  BY <1>14 DEF OtherDebit, InfInv, NoFreeInference
<1>15. CASE GatewayDies
  BY <1>15 DEF GatewayDies, InfInv, NoFreeInference
<1> QED
  BY <1>1, <1>2, <1>3, <1>4, <1>5, <1>6, <1>7, <1>8, <1>9, <1>10, <1>11, <1>12, <1>13, <1>14, <1>15 DEF InfNext

\* Before the first request nothing is held or owed.
LEMMA InfInvInit == InfInit => InfInv
<1> SUFFICES ASSUME InfInit PROVE InfInv
  OBVIOUS
<1> USE InferenceAssumption
<1>1. req \in [Request -> ReqRec]
  BY DEF InfInit, NewRequest, ReqRec, ReqPc
<1>2. disturbed \in BOOLEAN
  BY Zenon DEF InfInit
<1>3. InfTypeOK
  BY <1>1, <1>2 DEF InfInit, InfTypeOK, ReqRec, ReqPc
<1>4. OwedIsBounded /\ ChargedOnAnswer /\ RunsUnderHold /\ NoFreeInference
  BY DEF InfInit, NewRequest, OwedIsBounded, ChargedOnAnswer, RunsUnderHold, NoFreeInference, InFlight
<1>5. HoldsAreCovered
  <2>1. {r \in Request : hold[r] = "active" /\ InFlight(r)} = {}
    BY DEF InfInit
  <2>2. Total({}, Worst) = 0
    BY TotalOfNone
  <2> QED
    BY <2>1, <2>2 DEF InfInit, HoldsAreCovered
<1> QED
  BY <1>3, <1>4, <1>5 DEF InfInv

\* Every step keeps InfInv.
LEMMA InfInvKept == InfInv /\ [InfNext]_infVars => InfInv'
<1> SUFFICES ASSUME InfInv, [InfNext]_infVars PROVE InfInv'
  OBVIOUS
<1>1. CASE InfNext
  BY <1>1, InfTypes, OwedKept, ChargedKept, RunsKept, CoverKept, FreeKept DEF InfInv
<1>2. CASE UNCHANGED infVars
  <2>1. Covered' = Covered
    BY <1>2 DEF infVars, Covered, InFlight
  <2>2. HoldsAreCovered'
    BY <1>2, <2>1, FewerCovered DEF infVars
  <2>3. InfTypeOK' /\ OwedIsBounded' /\ ChargedOnAnswer' /\ RunsUnderHold' /\ NoFreeInference'
    BY <1>2 DEF infVars, InfInv, InfTypeOK, OwedIsBounded, ChargedOnAnswer, RunsUnderHold, NoFreeInference, InFlight, PerToken
  <2> QED
    BY <2>2, <2>3 DEF InfInv
<1> QED
  BY <1>1, <1>2

\* "A near-zero balance can't fan out into many free completions" (reserve_inference_hold): for any
\* requests, worst cases and other debits, undisturbed requests are covered and paid for in full, a
\* delivered answer is charged once, and nobody pays for one that was not delivered.
THEOREM InferenceSafetyHolds == InfSpec => []InferenceSafety
<1>1. InfInit => InfInv
  BY InfInvInit
<1>2. InfInv /\ [InfNext]_infVars => InfInv'
  BY InfInvKept
<1>3. InfInv => InferenceSafety
  <2> SUFFICES ASSUME InfInv PROVE InferenceSafety
    OBVIOUS
  <2>1. DeliveredIsCharged
    BY DEF InfInv, ChargedOnAnswer, DeliveredIsCharged
  <2>2. OnlyDeliveredIsCharged
    BY InfNumbers DEF InfInv, OwedIsBounded, ChargedOnAnswer, OnlyDeliveredIsCharged
  <2> QED
    BY <2>1, <2>2 DEF InfInv, InferenceSafety
<1> QED
  BY <1>1, <1>2, <1>3, PTL DEF InfSpec

(***************************************************************************)
(* Card payments: the inductive invariant.                                 *)
(***************************************************************************)

\* A refund event as its reversal is booked.
AsReversal(e) == [id |-> e.id, s |-> e.s, cents |-> e.cents]

\* The refunds that wait for their answer, are handled, or are booked.
Refunds ==
  {AsReversal(e) : e \in {e \in outbox : e.kind = "refund"}}
  \cup {AsReversal(handler[h].ev) : h \in {h \in Handler : handler[h].pc \in {"resolve", "reverse"}}}
  \cup reversals

RefundRecord == [id : Nat, s : Session, cents : Nat]
RefundsOf(s) == {r \in Refunds : r.s = s}
CentsOf(S) == [r \in S |-> r.cents]

Event == [id : Nat, kind : {"paid", "unpaid", "refund"}, s : Session, cents : Nat]
HandlerPc == {"idle", "intent", "credit", "resolve", "reverse"}

\* Every event is one of Stripe's, every handler works for a session of ours.
StripeTypes ==
  /\ lastId \in Nat /\ outbox \subseteq Event
  /\ handler \in [Handler -> [pc : HandlerPc, ev : Event \cup {NoEvent}, s : Session \cup {NoEvent}]]
  /\ \A h \in Handler :
       /\ handler[h].pc # "idle" => handler[h].s \in Session
       /\ handler[h].pc \in {"resolve", "reverse"} => handler[h].ev \in Event /\ handler[h].ev.s = handler[h].s

\* A session is paid by one ledger row.
PaidByOneRow == \A s \in Session : topups[s] = IF session[s].status = "paid" THEN 1 ELSE 0

\* Nobody credits before the payment_intent is written, or lost.
IntentBeforeCredit ==
  /\ \A h \in Handler : handler[h].pc = "credit" => session[handler[h].s].pi \/ handler[h].s \in piLost
  /\ \A s \in Session : session[s].status = "paid" => session[s].pi \/ s \in piLost

\* What was refunded covers every refund on its way.
RefundsCovered ==
  /\ IsFiniteSet(Refunds) /\ Refunds \subseteq RefundRecord
  /\ \A s \in Session : Total(RefundsOf(s), CentsOf(Refunds)) <= remote[s].refunded

StripeInv == StripeTypeOK /\ StripeTypes /\ PaidByOneRow /\ IntentBeforeCredit /\ RefundsCovered

\* The first state satisfies it.
LEMMA StripeInvInit == StripeInit => StripeInv
<1> SUFFICES ASSUME StripeInit PROVE StripeInv
  OBVIOUS
<1> USE StripeAssumption
<1>1. StripeTypeOK /\ PaidByOneRow
  BY DEF StripeInit, StripeTypeOK, PaidByOneRow
<1>2. StripeTypes /\ IntentBeforeCredit
  BY DEF StripeInit, StripeTypes, IntentBeforeCredit, StripeIdle, HandlerPc
<1>3. Refunds = {}
  BY DEF StripeInit, Refunds, StripeIdle
<1>4. \A s \in Session : RefundsOf(s) = {}
  BY <1>3 DEF RefundsOf
<1>5. RefundsCovered
  BY <1>3, <1>4, TotalOfNone, FS_EmptySet DEF RefundsCovered, StripeInit
<1> QED
  BY <1>1, <1>2, <1>5 DEF StripeInv

\* Fewer refunds on their way stay covered.
LEMMA FewerRefundsCovered ==
  ASSUME StripeInv, Refunds' \subseteq Refunds, \A s \in Session : remote'[s].refunded = remote[s].refunded
  PROVE  RefundsCovered'
<1>1. IsFiniteSet(Refunds') /\ Refunds' \subseteq RefundRecord
  BY FS_Subset DEF StripeInv, RefundsCovered
<1>2. ASSUME NEW s \in Session PROVE Total(RefundsOf(s)', CentsOf(Refunds)') <= remote'[s].refunded
  <2>1. RefundsOf(s)' \subseteq RefundsOf(s) /\ RefundsOf(s) \subseteq Refunds /\ IsFiniteSet(RefundsOf(s))
    BY FS_Subset DEF RefundsOf, StripeInv, RefundsCovered
  <2>2. \A x \in RefundsOf(s) : CentsOf(Refunds)[x] \in Nat
    BY <2>1 DEF StripeInv, RefundsCovered, CentsOf, RefundRecord
  <2>3. \A x \in RefundsOf(s)' : CentsOf(Refunds)[x] = CentsOf(Refunds)'[x]
    BY <2>1 DEF CentsOf, RefundsOf
  <2>4. /\ Total(RefundsOf(s)', CentsOf(Refunds)) \in Nat
        /\ Total(RefundsOf(s)', CentsOf(Refunds)) <= Total(RefundsOf(s), CentsOf(Refunds))
    BY <2>1, <2>2, TotalOfPart
  <2>5. Total(RefundsOf(s)', CentsOf(Refunds)) = Total(RefundsOf(s)', CentsOf(Refunds)')
    BY <2>3, TotalAgrees
  <2>6. Total(RefundsOf(s), CentsOf(Refunds)) <= remote[s].refunded /\ remote[s].refunded \in Nat /\ Total(RefundsOf(s), CentsOf(Refunds)) \in Nat
    <3>1. remote[s].refunded \in Nat
      BY StripeAssumption DEF StripeInv, StripeTypeOK
    <3> QED
      BY <2>1, <2>2, <3>1, TotalType DEF StripeInv, RefundsCovered
  <2> QED
    BY <2>4, <2>5, <2>6
<1> QED
  BY <1>1, <1>2 DEF RefundsCovered

\* A refund of n cents adds its event of n cents.
LEMMA RefundCovered ==
  ASSUME StripeInv, RefundsListed = TRUE, NEW s \in Session, RefundCharge(s)
  PROVE  RefundsCovered'
<1> USE StripeAssumption
<1>1. PICK n \in 1 .. Price - remote[s].refunded :
        /\ remote' = [remote EXCEPT ![s].refunded = @ + n]
        /\ outbox' = outbox \cup {[id |-> lastId + 1, kind |-> "refund", s |-> s, cents |-> n]}
  BY DEF RefundCharge, Emit, RefundEventCents
<1>2. UNCHANGED <<handler, reversals>>
  BY DEF RefundCharge
<1>3. n \in Nat /\ remote[s].refunded \in Nat
  BY DEF StripeInv, StripeTypeOK
<1> DEFINE new == [id |-> lastId + 1, s |-> s, cents |-> n]
<1>4. Refunds' = Refunds \cup {new}
  <2> DEFINE raw == [id |-> lastId + 1, kind |-> "refund", s |-> s, cents |-> n]
  <2>1. outbox' = outbox \cup {raw} /\ raw.kind = "refund" /\ AsReversal(raw) = new
    BY <1>1 DEF AsReversal
  <2> HIDE DEF raw, new
  <2> QED
    BY <1>2, <2>1, Zenon DEF Refunds
<1>5. new \in RefundRecord /\ new.s = s /\ new.cents = n
  BY <1>3 DEF RefundRecord, StripeInv, StripeTypes
<1> HIDE DEF new
<1>6. IsFiniteSet(Refunds') /\ Refunds' \subseteq RefundRecord
  BY <1>4, <1>5, FS_AddElement DEF StripeInv, RefundsCovered
<1>7. ASSUME NEW t \in Session PROVE Total(RefundsOf(t)', CentsOf(Refunds)') <= remote'[t].refunded
  <2>1. RefundsOf(t) \subseteq Refunds /\ IsFiniteSet(RefundsOf(t))
    BY FS_Subset DEF RefundsOf, StripeInv, RefundsCovered
  <2>2. \A x \in Refunds' : CentsOf(Refunds)'[x] \in Nat
    BY <1>6 DEF CentsOf, RefundRecord
  <2>3. Refunds \subseteq Refunds' /\ new \in Refunds'
    BY <1>4
  <2>4. \A x \in RefundsOf(t) : CentsOf(Refunds)[x] = CentsOf(Refunds)'[x]
    BY <2>1, <2>3 DEF CentsOf
  <2>5. Total(RefundsOf(t), CentsOf(Refunds)) = Total(RefundsOf(t), CentsOf(Refunds)')
    BY <2>4, TotalAgrees
  <2>6. Total(RefundsOf(t), CentsOf(Refunds)') \in Nat
    BY <2>1, <2>2, <2>3, TotalType
  <2>7. Total(RefundsOf(t), CentsOf(Refunds)') <= remote[t].refunded /\ remote[t].refunded \in Nat
    BY <2>5 DEF StripeInv, RefundsCovered, StripeTypeOK
  <2>8. CASE t = s /\ new \notin Refunds
    <3>1. RefundsOf(t)' = RefundsOf(t) \cup {new} /\ new \notin RefundsOf(t)
      BY <1>4, <1>5, <2>8 DEF RefundsOf
    <3>2. \A x \in RefundsOf(t) \cup {new} : CentsOf(Refunds)'[x] \in Nat
      BY <2>1, <2>2, <2>3
    <3>3. Total(RefundsOf(t) \cup {new}, CentsOf(Refunds)') = Total(RefundsOf(t), CentsOf(Refunds)') + CentsOf(Refunds)'[new]
      BY <2>1, <3>1, <3>2, TotalWith
    <3>4. CentsOf(Refunds)'[new] = n
      BY <1>5, <2>3 DEF CentsOf
    <3>5. remote'[t].refunded = remote[t].refunded + n
      BY <1>1, <2>8 DEF StripeInv, StripeTypeOK
    <3> QED
      BY <1>3, <2>6, <2>7, <3>1, <3>3, <3>4, <3>5
  <2>9. CASE ~(t = s /\ new \notin Refunds)
    <3>1. RefundsOf(t)' = RefundsOf(t)
      BY <1>4, <1>5, <2>9 DEF RefundsOf
    <3>2. remote'[t].refunded >= remote[t].refunded /\ remote'[t].refunded \in Nat
      BY <1>1, <1>3, <2>7 DEF StripeInv, StripeTypeOK
    <3> QED
      BY <2>6, <2>7, <3>1, <3>2
  <2> QED
    BY <2>8, <2>9
<1> QED
  BY <1>6, <1>7 DEF RefundsCovered

\* No other step adds a refund.
LEMMA NoNewRefund ==
  ASSUME StripeInv, StripeNext, \A s \in Session : ~RefundCharge(s)
  PROVE  Refunds' \subseteq Refunds /\ \A s \in Session : remote'[s].refunded = remote[s].refunded
<1>1. ASSUME NEW s \in Session, CreateStripeTopup(s) PROVE Refunds' \subseteq Refunds /\ \A t \in Session : remote'[t].refunded = remote[t].refunded
  BY <1>1 DEF CreateStripeTopup, Refunds, StripeInv, StripeTypeOK
<1>2. ASSUME NEW s \in Session, Checkout(s) PROVE Refunds' \subseteq Refunds /\ \A t \in Session : remote'[t].refunded = remote[t].refunded
  <2>1. \A t \in Session : remote'[t].refunded = remote[t].refunded
    BY <1>2 DEF Checkout, StripeInv, StripeTypeOK
  <2>2. \A e \in outbox' : e \in outbox \/ e.kind = "paid" \/ e.kind = "unpaid"
    BY <1>2 DEF Checkout, Emit
  <2>3. UNCHANGED <<handler, reversals>>
    BY <1>2 DEF Checkout
  <2> QED
    BY <2>1, <2>2, <2>3 DEF Refunds
<1> USE DEF StripeIdle
<1>3. ASSUME NEW h \in Handler, StripeWebhook(h) PROVE Refunds' \subseteq Refunds /\ UNCHANGED remote
  <2>1. PICK e \in outbox :
          \/ e.kind = "unpaid" /\ outbox' = outbox \ {e} /\ UNCHANGED handler
          \/ e.kind = "paid" /\ handler' = [handler EXCEPT ![h] = [pc |-> "intent", ev |-> e, s |-> e.s]] /\ UNCHANGED outbox
          \/ e.kind = "refund" /\ handler' = [handler EXCEPT ![h] = [pc |-> "resolve", ev |-> e, s |-> e.s]] /\ UNCHANGED outbox
    BY <1>3 DEF StripeWebhook, StripeInv, StripeTypes, Event
  <2>2. UNCHANGED <<remote, reversals>>
    BY <1>3 DEF StripeWebhook
  <2>3. handler \in [Handler -> [pc : HandlerPc, ev : Event \cup {NoEvent}, s : Session \cup {NoEvent}]]
    BY DEF StripeInv, StripeTypes
  <2>4. outbox' \subseteq outbox /\ \A i \in Handler : handler'[i].pc \in {"resolve", "reverse"} =>
            (handler'[i].ev = handler[i].ev /\ handler[i].pc \in {"resolve", "reverse"})
            \/ (handler'[i].ev \in outbox /\ handler'[i].ev.kind = "refund")
    BY <2>1, <2>3
  <2> QED
    BY <2>2, <2>4 DEF Refunds
<1>4. ASSUME NEW h \in Handler, NEW s \in Session, ReconcilePendingStripeSession(h, s) PROVE Refunds' \subseteq Refunds /\ UNCHANGED remote
  BY <1>4 DEF ReconcilePendingStripeSession, Refunds, StripeInv, StripeTypes
<1>5. ASSUME NEW h \in Handler, SetStripePaymentIntent(h) \/ PaymentIntentLost(h) PROVE Refunds' \subseteq Refunds /\ UNCHANGED remote
  BY <1>5 DEF SetStripePaymentIntent, PaymentIntentLost, Refunds, StripeInv, StripeTypes
<1>6. ASSUME NEW h \in Handler, CompleteAndCredit(h) PROVE Refunds' \subseteq Refunds /\ UNCHANGED remote
  BY <1>6 DEF CompleteAndCredit, Answer, Refunds, StripeInv, StripeTypes
<1>7. ASSUME NEW h \in Handler, ResolveRefund(h) PROVE Refunds' \subseteq Refunds /\ UNCHANGED remote
  BY <1>7 DEF ResolveRefund, Answer, Refunds, StripeInv, StripeTypes
<1>8. ASSUME NEW h \in Handler, ReverseStripeTopup(h) PROVE Refunds' \subseteq Refunds /\ UNCHANGED remote
  <2>1. AsReversal(handler[h].ev) \in Refunds /\ reversals \subseteq Refunds
    BY <1>8 DEF ReverseStripeTopup, Refunds
  <2>2. reversals' \subseteq reversals \cup {AsReversal(handler[h].ev)}
    BY <1>8 DEF ReverseStripeTopup, AsReversal
  <2>3. outbox' \subseteq outbox /\ handler' = [handler EXCEPT ![h] = StripeIdle] /\ UNCHANGED remote
    BY <1>8 DEF ReverseStripeTopup, Answer
  <2>4. \A i \in Handler : handler'[i].pc \in {"resolve", "reverse"} => handler'[i].ev = handler[i].ev /\ handler[i].pc \in {"resolve", "reverse"}
    BY <2>3 DEF StripeInv, StripeTypes
  <2> QED
    BY <2>1, <2>2, <2>3, <2>4 DEF Refunds
<1>9. ASSUME NEW h \in Handler, StripeHandlerDies(h) PROVE Refunds' \subseteq Refunds /\ UNCHANGED remote
  BY <1>9 DEF StripeHandlerDies, Refunds, StripeInv, StripeTypes
<1> QED
  BY <1>1, <1>2, <1>3, <1>4, <1>5, <1>6, <1>7, <1>8, <1>9 DEF StripeNext

\* Every step keeps the types.
LEMMA StripeTypesKept ==
  ASSUME StripeInv, StripeNext
  PROVE  StripeTypeOK' /\ StripeTypes'
<1> USE StripeAssumption DEF StripeIdle
<1>0. StripeTypeOK /\ StripeTypes
  BY DEF StripeInv
<1>1. ASSUME NEW s \in Session, CreateStripeTopup(s) PROVE StripeTypeOK' /\ StripeTypes'
  BY <1>0, <1>1 DEF CreateStripeTopup, StripeTypeOK, StripeTypes
<1>2. ASSUME NEW s \in Session, Checkout(s) PROVE StripeTypeOK' /\ StripeTypes'
  <2>1. /\ lastId' = lastId + 1 /\ UNCHANGED <<session, topups, reversals, skipped, piLost, handler, stripeFaults>>
        /\ remote' \in [Session -> [state : {"none", "open", "unpaid", "paid"}, refunded : 0 .. Price]]
    BY <1>0, <1>2 DEF Checkout, Emit, StripeTypeOK
  <2>2. PICK k \in {"paid", "unpaid"} : outbox' = outbox \cup {[id |-> lastId + 1, kind |-> k, s |-> s, cents |-> 0]}
    BY <1>2 DEF Checkout, Emit
  <2> QED
    BY <1>0, <2>1, <2>2 DEF StripeTypeOK, StripeTypes, Event
<1>3. ASSUME NEW s \in Session, RefundCharge(s) PROVE StripeTypeOK' /\ StripeTypes'
  <2>1. PICK n \in 1 .. Price - remote[s].refunded :
          /\ remote' = [remote EXCEPT ![s].refunded = @ + n]
          /\ lastId' = lastId + 1
          /\ outbox' = outbox \cup {[id |-> lastId + 1, kind |-> "refund", s |-> s, cents |-> RefundEventCents(s, n)]}
    BY <1>3 DEF RefundCharge, Emit
  <2>2. n \in Nat /\ remote[s].refunded \in 0 .. Price /\ remote[s].refunded + n \in 0 .. Price /\ RefundEventCents(s, n) \in Nat
    BY <1>0 DEF StripeTypeOK, RefundEventCents
  <2>3. remote' \in [Session -> [state : {"none", "open", "unpaid", "paid"}, refunded : 0 .. Price]]
    BY <1>0, <2>1, <2>2 DEF StripeTypeOK
  <2>4. UNCHANGED <<session, topups, reversals, skipped, piLost, handler, stripeFaults>>
    BY <1>3 DEF RefundCharge
  <2> QED
    BY <1>0, <2>1, <2>2, <2>3, <2>4 DEF StripeTypeOK, StripeTypes, Event
<1>4. ASSUME NEW h \in Handler, StripeWebhook(h) PROVE StripeTypeOK' /\ StripeTypes'
  <2>1. PICK e \in outbox :
          \/ outbox' = outbox \ {e} /\ UNCHANGED handler
          \/ handler' = [handler EXCEPT ![h] = [pc |-> "intent", ev |-> e, s |-> e.s]] /\ UNCHANGED outbox
          \/ handler' = [handler EXCEPT ![h] = [pc |-> "resolve", ev |-> e, s |-> e.s]] /\ UNCHANGED outbox
    BY <1>4 DEF StripeWebhook
  <2>2. UNCHANGED <<remote, lastId, session, topups, reversals, skipped, piLost, stripeFaults>>
    BY <1>4 DEF StripeWebhook
  <2>3. e \in Event /\ e.s \in Session
    BY <1>0 DEF StripeTypes, Event
  <2> QED
    BY <1>0, <2>1, <2>2, <2>3 DEF StripeTypeOK, StripeTypes, HandlerPc
<1>5. ASSUME NEW h \in Handler, NEW s \in Session, ReconcilePendingStripeSession(h, s) PROVE StripeTypeOK' /\ StripeTypes'
  BY <1>0, <1>5 DEF ReconcilePendingStripeSession, StripeTypeOK, StripeTypes, HandlerPc
<1>6. ASSUME NEW h \in Handler, SetStripePaymentIntent(h) PROVE StripeTypeOK' /\ StripeTypes'
  BY <1>0, <1>6 DEF SetStripePaymentIntent, StripeTypeOK, StripeTypes, HandlerPc
<1>7. ASSUME NEW h \in Handler, PaymentIntentLost(h) PROVE StripeTypeOK' /\ StripeTypes'
  <2>1. /\ piLost' = piLost \cup {handler[h].s} /\ stripeFaults < MaxStripeFaults /\ stripeFaults' = stripeFaults + 1
        /\ handler[h].pc = "intent" /\ handler' = [handler EXCEPT ![h].pc = "credit"]
        /\ UNCHANGED <<remote, outbox, lastId, session, topups, reversals, skipped>>
    BY <1>7 DEF PaymentIntentLost, StripeFault
  <2>2. handler[h].s \in Session
    BY <1>0, <2>1 DEF StripeTypes
  <2>3. stripeFaults' \in 0 .. MaxStripeFaults
    BY <1>0, <2>1 DEF StripeTypeOK
  <2>4. StripeTypeOK'
    BY <1>0, <2>1, <2>2, <2>3 DEF StripeTypeOK
  <2>5. StripeTypes'
    BY <1>0, <2>1 DEF StripeTypes, HandlerPc
  <2> QED
    BY <2>4, <2>5
<1>8. ASSUME NEW h \in Handler, CompleteAndCredit(h) PROVE StripeTypeOK' /\ StripeTypes'
  <2>1. handler' = [handler EXCEPT ![h] = StripeIdle] /\ outbox' \subseteq outbox
    BY <1>8 DEF CompleteAndCredit, Answer
  <2>2. handler[h].s \in Session
    BY <1>0, <1>8 DEF CompleteAndCredit, StripeTypes
  <2>3. session' \in [Session -> [status : {"none", "pending", "paid"}, pi : BOOLEAN]] /\ topups' \in [Session -> Nat]
    <3>1. CASE session[handler[h].s].status = "paid"
      BY <1>0, <1>8, <3>1 DEF CompleteAndCredit, StripeTypeOK
    <3>2. CASE session[handler[h].s].status # "paid"
      <4>1. /\ session' = [session EXCEPT ![handler[h].s].status = "paid"]
            /\ topups' = [topups EXCEPT ![handler[h].s] = @ + 1]
        BY <1>8, <3>2 DEF CompleteAndCredit
      <4>2. session \in [Session -> [status : {"none", "pending", "paid"}, pi : BOOLEAN]] /\ topups \in [Session -> Nat]
        BY <1>0 DEF StripeTypeOK
      <4>3. topups[handler[h].s] + 1 \in Nat
        BY <2>2, <4>2
      <4>4. topups' \in [Session -> Nat]
        BY <4>1, <4>2, <4>3
      <4>5. session' \in [Session -> [status : {"none", "pending", "paid"}, pi : BOOLEAN]]
        BY <4>1, <4>2
      <4> QED
        BY <4>4, <4>5
    <3> QED
      BY <3>1, <3>2
  <2>4. UNCHANGED <<remote, lastId, reversals, skipped, piLost, stripeFaults>>
    BY <1>8 DEF CompleteAndCredit
  <2> QED
    BY <1>0, <2>1, <2>3, <2>4 DEF StripeTypeOK, StripeTypes, HandlerPc
<1>9. ASSUME NEW h \in Handler, ResolveRefund(h) PROVE StripeTypeOK' /\ StripeTypes'
  <2>1. handler[h].s \in Session /\ handler[h].ev \in Event /\ handler[h].ev.s = handler[h].s
    BY <1>0, <1>9 DEF ResolveRefund, StripeTypes
  <2>2. /\ outbox' \subseteq outbox /\ skipped' \subseteq skipped \cup {handler[h].s}
        /\ handler' = [handler EXCEPT ![h].pc = "reverse"] \/ handler' = [handler EXCEPT ![h] = StripeIdle]
        /\ UNCHANGED <<remote, lastId, session, topups, reversals, piLost, stripeFaults>>
    BY <1>9 DEF ResolveRefund, Answer
  <2>3. StripeTypeOK'
    BY <1>0, <2>1, <2>2 DEF StripeTypeOK
  <2>4. StripeTypes'
    BY <1>0, <2>1, <2>2 DEF StripeTypes, HandlerPc
  <2> QED
    BY <2>3, <2>4
<1>10. ASSUME NEW h \in Handler, ReverseStripeTopup(h) PROVE StripeTypeOK' /\ StripeTypes'
  BY <1>0, <1>10 DEF ReverseStripeTopup, Answer, StripeTypeOK, StripeTypes, HandlerPc
<1>11. ASSUME NEW h \in Handler, StripeHandlerDies(h) PROVE StripeTypeOK' /\ StripeTypes'
  BY <1>0, <1>11 DEF StripeHandlerDies, StripeFault, StripeTypeOK, StripeTypes, HandlerPc
<1> QED
  BY <1>1, <1>2, <1>3, <1>4, <1>5, <1>6, <1>7, <1>8, <1>9, <1>10, <1>11 DEF StripeNext

\* Every step keeps what is said of sessions: one row, and the intent before it.
LEMMA SessionsKept ==
  ASSUME StripeInv, StripeNext
  PROVE  PaidByOneRow' /\ IntentBeforeCredit'
<1> USE StripeAssumption DEF StripeIdle
<1>0. StripeTypeOK /\ StripeTypes /\ PaidByOneRow /\ IntentBeforeCredit
  BY DEF StripeInv
<1>1. ASSUME NEW s \in Session, CreateStripeTopup(s) PROVE PaidByOneRow' /\ IntentBeforeCredit'
  BY <1>0, <1>1 DEF CreateStripeTopup, StripeTypeOK, StripeTypes, PaidByOneRow, IntentBeforeCredit
<1>2. ASSUME NEW s \in Session, Checkout(s) PROVE PaidByOneRow' /\ IntentBeforeCredit'
  BY <1>0, <1>2 DEF Checkout, PaidByOneRow, IntentBeforeCredit
<1>3. ASSUME NEW s \in Session, RefundCharge(s) PROVE PaidByOneRow' /\ IntentBeforeCredit'
  BY <1>0, <1>3 DEF RefundCharge, PaidByOneRow, IntentBeforeCredit
<1>4. ASSUME NEW h \in Handler, StripeWebhook(h) PROVE PaidByOneRow' /\ IntentBeforeCredit'
  <2>1. \/ UNCHANGED handler
        \/ \E e \in outbox : handler' = [handler EXCEPT ![h] = [pc |-> "intent", ev |-> e, s |-> e.s]]
        \/ \E e \in outbox : handler' = [handler EXCEPT ![h] = [pc |-> "resolve", ev |-> e, s |-> e.s]]
    BY <1>4 DEF StripeWebhook
  <2>2. UNCHANGED <<session, topups, piLost>>
    BY <1>4 DEF StripeWebhook
  <2> QED
    BY <1>0, <2>1, <2>2 DEF StripeTypes, PaidByOneRow, IntentBeforeCredit
<1>5. ASSUME NEW h \in Handler, NEW s \in Session, ReconcilePendingStripeSession(h, s) PROVE PaidByOneRow' /\ IntentBeforeCredit'
  BY <1>0, <1>5 DEF ReconcilePendingStripeSession, StripeTypes, PaidByOneRow, IntentBeforeCredit
<1>6. ASSUME NEW h \in Handler, SetStripePaymentIntent(h) PROVE PaidByOneRow' /\ IntentBeforeCredit'
  BY <1>0, <1>6 DEF SetStripePaymentIntent, StripeTypeOK, StripeTypes, PaidByOneRow, IntentBeforeCredit
<1>7. ASSUME NEW h \in Handler, PaymentIntentLost(h) PROVE PaidByOneRow' /\ IntentBeforeCredit'
  BY <1>0, <1>7 DEF PaymentIntentLost, StripeTypes, PaidByOneRow, IntentBeforeCredit
<1>8. ASSUME NEW h \in Handler, CompleteAndCredit(h) PROVE PaidByOneRow' /\ IntentBeforeCredit'
  <2> DEFINE s == handler[h].s
  <2>1. s \in Session /\ handler' = [handler EXCEPT ![h] = StripeIdle] /\ UNCHANGED piLost
    BY <1>0, <1>8 DEF CompleteAndCredit, Answer, StripeTypes
  <2>2. session[s].pi \/ s \in piLost
    BY <1>0, <1>8 DEF CompleteAndCredit, IntentBeforeCredit
  <2>3. CASE session[s].status = "paid"
    BY <1>0, <1>8, <2>1, <2>3 DEF CompleteAndCredit, StripeTypes, PaidByOneRow, IntentBeforeCredit
  <2>4. CASE session[s].status # "paid"
    <3>1. session' = [session EXCEPT ![s].status = "paid"] /\ topups' = [topups EXCEPT ![s] = @ + 1]
      BY <1>8, <2>4 DEF CompleteAndCredit
    <3> QED
      BY <1>0, <2>1, <2>2, <2>4, <3>1 DEF StripeTypeOK, StripeTypes, PaidByOneRow, IntentBeforeCredit
  <2> QED
    BY <2>3, <2>4
<1>9. ASSUME NEW h \in Handler, ResolveRefund(h) PROVE PaidByOneRow' /\ IntentBeforeCredit'
  BY <1>0, <1>9 DEF ResolveRefund, Answer, StripeTypes, PaidByOneRow, IntentBeforeCredit
<1>10. ASSUME NEW h \in Handler, ReverseStripeTopup(h) PROVE PaidByOneRow' /\ IntentBeforeCredit'
  BY <1>0, <1>10 DEF ReverseStripeTopup, Answer, StripeTypes, PaidByOneRow, IntentBeforeCredit
<1>11. ASSUME NEW h \in Handler, StripeHandlerDies(h) PROVE PaidByOneRow' /\ IntentBeforeCredit'
  BY <1>0, <1>11 DEF StripeHandlerDies, StripeTypes, PaidByOneRow, IntentBeforeCredit
<1> QED
  BY <1>1, <1>2, <1>3, <1>4, <1>5, <1>6, <1>7, <1>8, <1>9, <1>10, <1>11 DEF StripeNext

\* Every step keeps StripeInv, when Stripe lists a charge's refunds in its events.
LEMMA StripeInvKept ==
  ASSUME RefundsListed = TRUE
  PROVE  StripeInv /\ [StripeNext]_stripeVars => StripeInv'
<1>1. ASSUME StripeInv, StripeNext PROVE StripeInv'
  <2>1. RefundsCovered'
    BY <1>1, RefundCovered, NoNewRefund, FewerRefundsCovered
  <2> QED
    BY <1>1, <2>1, StripeTypesKept, SessionsKept DEF StripeInv
<1>2. ASSUME StripeInv, UNCHANGED stripeVars PROVE StripeInv'
  <2>1. UNCHANGED <<remote, outbox, lastId, session, topups, reversals, skipped, piLost, handler, stripeFaults>>
    BY <1>2 DEF stripeVars
  <2>2. Refunds' = Refunds
    BY <2>1 DEF Refunds
  <2>3. \A s \in Session : RefundsOf(s)' = RefundsOf(s)
    BY <2>2 DEF RefundsOf
  <2>4. CentsOf(Refunds)' = CentsOf(Refunds)
    BY <2>2 DEF CentsOf
  <2>5. RefundsCovered'
    BY <1>2, <2>1, <2>2, <2>3, <2>4 DEF StripeInv, RefundsCovered
  <2> QED
    BY <1>2, <2>1, <2>5 DEF StripeInv, StripeTypeOK, StripeTypes, PaidByOneRow, IntentBeforeCredit
<1> QED
  BY <1>1, <1>2

\* The invariant says what the run checks.
LEMMA StripeInvIsSafe ==
  ASSUME StripeInv PROVE StripeTypeOK /\ SessionCreditedOnce /\ NeverOverReversed
<1>1. StripeTypeOK /\ SessionCreditedOnce
  BY DEF StripeInv, PaidByOneRow, SessionCreditedOnce
<1>2. ASSUME NEW s \in Session
      PROVE  Total({r \in reversals : r.s = s}, CentsOf(reversals)) <= remote[s].refunded
  <2> DEFINE R == {r \in reversals : r.s = s}
  <2>1. R \subseteq RefundsOf(s) /\ reversals \subseteq Refunds /\ RefundsOf(s) \subseteq Refunds /\ IsFiniteSet(RefundsOf(s))
    BY FS_Subset DEF RefundsOf, Refunds, StripeInv, RefundsCovered
  <2>2. \A x \in RefundsOf(s) : CentsOf(Refunds)[x] \in Nat
    BY <2>1 DEF StripeInv, RefundsCovered, CentsOf, RefundRecord
  <2>3. \A x \in R : CentsOf(Refunds)[x] = CentsOf(reversals)[x]
    BY <2>1 DEF CentsOf
  <2> HIDE DEF R
  <2>4. Total(R, CentsOf(Refunds)) \in Nat /\ Total(R, CentsOf(Refunds)) <= Total(RefundsOf(s), CentsOf(Refunds))
    BY <2>1, <2>2, TotalOfPart
  <2>5. Total(R, CentsOf(Refunds)) = Total(R, CentsOf(reversals))
    BY <2>3, TotalAgrees
  <2>6. Total(RefundsOf(s), CentsOf(Refunds)) \in Nat
    BY <2>1, <2>2, TotalType
  <2>7. Total(RefundsOf(s), CentsOf(Refunds)) <= remote[s].refunded /\ remote[s].refunded \in Nat
    BY StripeAssumption DEF StripeInv, RefundsCovered, StripeTypeOK
  <2>8. Total(R, CentsOf(reversals)) <= remote[s].refunded
    BY <2>4, <2>5, <2>6, <2>7
  <2> QED
    BY <2>8 DEF R
<1>3. NeverOverReversed
  BY <1>2 DEF NeverOverReversed, CentsOf
<1> QED
  BY <1>1, <1>3

\* A refund is skipped only for a session that nobody credited, or whose payment_intent was lost.
LEMMA SkipsNoCredited ==
  ASSUME StripeInv, [StripeNext]_stripeVars
  PROVE  \A s \in Session : (topups[s] > 0 /\ s \notin piLost /\ s \notin skipped) => s \notin skipped'
<1> SUFFICES ASSUME NEW s \in Session, topups[s] > 0, s \notin piLost, s \notin skipped
             PROVE  s \notin skipped'
  OBVIOUS
<1>1. session[s].pi
  BY DEF StripeInv, PaidByOneRow, IntentBeforeCredit
<1>2. ASSUME NEW h \in Handler, ResolveRefund(h) PROVE s \notin skipped'
  BY <1>1, <1>2 DEF ResolveRefund, Answer
<1>3. \/ UNCHANGED skipped
      \/ \E h \in Handler : ResolveRefund(h)
  BY DEF StripeNext, CreateStripeTopup, Checkout, RefundCharge, StripeWebhook, SetStripePaymentIntent, PaymentIntentLost,
     CompleteAndCredit, ReverseStripeTopup, StripeHandlerDies, ReconcilePendingStripeSession, stripeVars
<1> QED
  BY <1>2, <1>3

\* A card payment is credited at most once, reversed no further than it was refunded, and no refund of a
\* credited session is skipped, whatever Stripe repeats or reorders and whichever handler dies; provided the
\* refund events list the refunds (billing_stripe_webhook, reverse_stripe_topup_for_event).
THEOREM StripeSafetyHolds ==
  ASSUME RefundsListed = TRUE
  PROVE  StripeSpec => StripeSafety
<1>1. StripeSpec => []StripeInv
  BY StripeInvInit, StripeInvKept, PTL DEF StripeSpec
<1>2. StripeInv => StripeTypeOK /\ SessionCreditedOnce /\ NeverOverReversed
  BY StripeInvIsSafe
<1>3. StripeInv /\ [StripeNext]_stripeVars
      => [\A s \in Session : (topups[s] > 0 /\ s \notin piLost /\ s \notin skipped) => s \notin skipped']_stripeVars
  BY SkipsNoCredited
<1>4. StripeSpec => CreditedIsReversible
  BY <1>1, <1>3, PTL DEF StripeSpec, CreditedIsReversible
<1> QED
  BY <1>1, <1>2, <1>4, PTL DEF StripeSafety

(***************************************************************************)
(* The billing monitor: the inductive invariant.                           *)
(***************************************************************************)

\* Every variable has its type, and no time is in the future.
MonitorTypes ==
  /\ clock \in 0 .. MaxClock /\ ledgerCursor \in -1 .. clock /\ emptySince \in -1 .. clock
  /\ row \in [Row -> [at : 0 .. clock, state : {"none", "open", "in"}]]
  /\ rental \in [ready : -1 .. clock, charged : -1 .. clock, empty : BOOLEAN]
  /\ standing \in [drift : -1 .. clock, watcher : 0 .. clock, review : -1 .. clock]
  /\ sent \in [Key -> -1 .. clock] /\ lastAlert \in [Key -> -1 .. clock]
  /\ outboxOf \subseteq Key /\ alerts \in [Key -> Nat]
  /\ firstSince \in Int /\ monitorFaults \in Nat

\* A pass starts with nothing left to send.
NothingLeft == ~passDone => outboxOf = {}

\* A row that has not committed is younger than the overlap.
OpenIsYoung == \A r \in Row : row[r].state = "open" => clock - row[r].at <= Overlap

\* A row is told once: what remembers it is the key, and when the key is forgotten the cursor has passed it.
RowRemembered(r) ==
  /\ alerts[r] <= 1 /\ (r \in outboxOf => alerts[r] = 0)
  /\ alerts[r] = 1 \/ r \in outboxOf
       => /\ row[r].state = "in"
          /\ sent[r] # -1 \/ (ledgerCursor # -1 /\ row[r].at < ledgerCursor - Overlap)
  /\ sent[r] # -1 => (alerts[r] = 1 \/ r \in outboxOf) /\ row[r].at <= sent[r]

RowsRemembered == \A r \in Row : RowRemembered(r)

\* Every row of the time watched that the next pass no longer looks at was told.
RowsTold ==
  \A r \in Row :
    (row[r].state = "in" /\ ledgerCursor # -1 /\ row[r].at >= firstSince /\ row[r].at < ledgerCursor - Overlap)
      => alerts[r] = 1 \/ r \in outboxOf

\* The memory of a standing problem is when it was last sent, or that was too long ago to matter; and
\* one that is to be sent was not sent within its interval.
ProblemRemembered(k) ==
  /\ k \notin outboxOf =>
       IF sent[k] # -1 THEN lastAlert[k] = sent[k]
                       ELSE lastAlert[k] # -1 => lastAlert[k] < clock - SentRetention
  /\ k \in outboxOf => sent[k] = clock /\ (lastAlert[k] # -1 => clock - lastAlert[k] >= Again(k))

ProblemsRemembered == \A k \in Problem : ProblemRemembered(k)

\* After a pass a drift is new, or was sent within its interval.
DriftSeen ==
  passDone /\ monitorFaults = 0 /\ standing.drift # -1
    => standing.drift = clock \/ (sent["drift"] # -1 /\ sent["drift"] > clock - RealertAfter)

MonitorInv ==
  MonitorTypes /\ NothingLeft /\ OpenIsYoung /\ RowsRemembered /\ RowsTold /\ ProblemsRemembered /\ DriftSeen /\ NotTooSoon

\* The intervals are times, and what is remembered is remembered for longer than it matters.
LEMMA Intervals ==
  /\ Overlap \in Nat \ {0} /\ SentRetention \in Nat \ {0} /\ RealertAfter \in Nat \ {0} /\ RealertWaiting \in Nat \ {0}
  /\ RealertAfter < SentRetention /\ RealertWaiting < SentRetention /\ Overlap < SentRetention
  /\ FirstRunLookback \in Nat /\ MaxClock \in Nat /\ MaxMonitorFaults \in Nat
BY MonitorAssumption

\* The keys of rows and of standing problems are apart, and what a pass finds are keys.
LEMMA FindingsAreKeys ==
         /\ Row \cap Problem = {} /\ Key = Row \cup Problem
         /\ Findings \subseteq Key
         /\ \A r \in Row : r \in Findings <=> r \in NotableRows
         /\ "drift" \in Findings <=> standing.drift # -1
<1>1. Row \cap Problem = {}
  BY MonitorAssumption DEF Problem
<1>2. LedgerDrift \subseteq {"drift"} /\ ("drift" \in LedgerDrift <=> standing.drift # -1)
  BY DEF LedgerDrift
<1>3. UnbilledRentals \subseteq {"unbilled"}
  BY DEF UnbilledRentals
<1>4. EmptyWithGrace \subseteq {"empty"}
  BY DEF EmptyWithGrace
<1>5. NotableRows \subseteq Row
  BY DEF NotableRows
<1>6. StalledWatchers \subseteq {"watcher"}
  BY DEF StalledWatchers
<1>7. WaitingPayments \subseteq {"review"}
  BY DEF WaitingPayments
<1> QED
  BY <1>1, <1>2, <1>3, <1>4, <1>5, <1>6, <1>7 DEF Findings, Key, Problem

\* Before the first sweep nothing is read, and no row is there to miss.
LEMMA MonitorInvInit ==
  MonitorInit => MonitorInv
<1> SUFFICES ASSUME MonitorInit PROVE MonitorInv
  OBVIOUS
<1>1. MonitorTypes
  BY Intervals DEF MonitorInit, MonitorTypes
<1>2. RowsRemembered /\ RowsTold /\ OpenIsYoung /\ NothingLeft
  BY DEF MonitorInit, RowsRemembered, RowsTold, OpenIsYoung, NothingLeft, Key, RowRemembered
<1>3. ProblemsRemembered /\ DriftSeen /\ NotTooSoon
  BY DEF MonitorInit, ProblemsRemembered, ProblemRemembered, DriftSeen, NotTooSoon, Key
<1> QED
  BY <1>1, <1>2, <1>3 DEF MonitorInv

\* Every step keeps the types.
LEMMA MonitorTypesKept ==
  ASSUME MonitorInv, MonitorNext
  PROVE  MonitorTypes'
<1> USE Intervals
<1>1. MonitorTypes
  BY DEF MonitorInv
<1>2. ASSUME NEW r \in Row, LedgerRowMoves(r) PROVE MonitorTypes'
  BY <1>1, <1>2 DEF LedgerRowMoves, MonitorFault, monitorVars, worldVars, bookVars, MonitorTypes
<1>3. CASE RentalMoves
  <2>1. rental' \in [ready : -1 .. clock, charged : -1 .. clock, empty : BOOLEAN]
    <3>1. rental \in [ready : -1 .. clock, charged : -1 .. clock, empty : BOOLEAN] /\ clock \in Nat
      BY <1>1 DEF MonitorTypes
    <3>2. CASE \E ready \in -1 .. clock : rental' = [ready |-> ready, charged |-> -1, empty |-> FALSE]
      BY <3>1, <3>2
    <3>3. CASE rental' = [rental EXCEPT !.charged = clock]
      BY <3>1, <3>3
    <3>4. CASE rental' = [rental EXCEPT !.empty = ~@]
      BY <3>1, <3>4
    <3> QED
      BY <1>3, <3>1, <3>2, <3>3, <3>4 DEF RentalMoves
  <2>2. UNCHANGED <<clock, row, standing, ledgerCursor, emptySince, sent, lastAlert, outboxOf, alerts, firstSince, monitorFaults>>
    BY <1>3 DEF RentalMoves, bookVars
  <2> QED
    BY <1>1, <2>1, <2>2 DEF MonitorTypes
<1>4. CASE WatcherMoves
  BY <1>1, <1>4 DEF WatcherMoves, MonitorFault, monitorVars, worldVars, bookVars, MonitorTypes
<1>5. CASE MonitorTick
  BY <1>1, <1>5 DEF MonitorTick, MonitorFault, monitorVars, worldVars, bookVars, MonitorTypes
<1>6. CASE RunOnce
  <2>1. outboxOf' \subseteq Key
    BY <1>6, FindingsAreKeys DEF RunOnce
  <2>2. sent' \in [Key -> -1 .. clock]
    BY <1>1, <1>6 DEF RunOnce, MonitorTypes
  <2>3. firstSince' \in Int
    BY <1>1, <1>6 DEF RunOnce, Since, MonitorTypes
  <2> QED
    BY <1>1, <1>6, <2>1, <2>2, <2>3 DEF RunOnce, MonitorTypes, monitorVars, worldVars, bookVars
<1>7. CASE RunFails
  BY <1>1, <1>7 DEF RunFails, MonitorFault, monitorVars, worldVars, bookVars, MonitorTypes
<1>8. CASE SendAlert
  <2>1. alerts' \in [Key -> Nat] /\ lastAlert' \in [Key -> -1 .. clock]
    BY <1>1, <1>8 DEF SendAlert, MonitorTypes
  <2> QED
    BY <1>1, <1>8, <2>1 DEF SendAlert, MonitorTypes, monitorVars, worldVars, bookVars
<1>9. ASSUME NEW p \in {"drift", "review"}, ProblemMoves(p) PROVE MonitorTypes'
  BY <1>1, <1>9 DEF ProblemMoves, MonitorFault, monitorVars, worldVars, bookVars, MonitorTypes
<1> QED
  BY <1>2, <1>3, <1>4, <1>5, <1>6, <1>7, <1>8, <1>9 DEF MonitorNext

\* Every step keeps the order of a pass and the age of what has not committed.
LEMMA OrderKept ==
  ASSUME MonitorInv, MonitorNext
  PROVE  NothingLeft' /\ OpenIsYoung'
<1> USE Intervals
<1>1. MonitorTypes /\ NothingLeft /\ OpenIsYoung
  BY DEF MonitorInv
<1>2. ASSUME NEW r \in Row, LedgerRowMoves(r) PROVE NothingLeft' /\ OpenIsYoung'
  BY <1>1, <1>2 DEF LedgerRowMoves, MonitorFault, monitorVars, worldVars, bookVars, MonitorTypes, NothingLeft, OpenIsYoung
<1>3. CASE RentalMoves
  BY <1>1, <1>3 DEF RentalMoves, MonitorFault, monitorVars, worldVars, bookVars, MonitorTypes, NothingLeft, OpenIsYoung
<1>4. CASE WatcherMoves
  BY <1>1, <1>4 DEF WatcherMoves, MonitorFault, monitorVars, worldVars, bookVars, MonitorTypes, NothingLeft, OpenIsYoung
<1>5. CASE MonitorTick
  BY <1>1, <1>5 DEF MonitorTick, MonitorFault, monitorVars, worldVars, bookVars, MonitorTypes, NothingLeft, OpenIsYoung
<1>6. CASE RunOnce
  BY <1>1, <1>6 DEF RunOnce, MonitorFault, monitorVars, worldVars, bookVars, MonitorTypes, NothingLeft, OpenIsYoung
<1>7. CASE RunFails
  BY <1>1, <1>7 DEF RunFails, MonitorFault, monitorVars, worldVars, bookVars, MonitorTypes, NothingLeft, OpenIsYoung
<1>8. CASE SendAlert
  BY <1>1, <1>8 DEF SendAlert, MonitorFault, monitorVars, worldVars, bookVars, MonitorTypes, NothingLeft, OpenIsYoung
<1>9. ASSUME NEW p \in {"drift", "review"}, ProblemMoves(p) PROVE NothingLeft' /\ OpenIsYoung'
  BY <1>1, <1>9 DEF ProblemMoves, MonitorFault, monitorVars, worldVars, bookVars, MonitorTypes, NothingLeft, OpenIsYoung
<1> QED
  BY <1>2, <1>3, <1>4, <1>5, <1>6, <1>7, <1>8, <1>9 DEF MonitorNext

\* What a pass does about a row: it is sent when the pass looks at it for the first time, and its key
\* is forgotten only when the next pass will not look at it.
LEMMA PassOverRow ==
  ASSUME MonitorInv, RunOnce, NEW r \in Row
  PROVE  /\ outboxOf = {} /\ alerts' = alerts /\ row' = row /\ ledgerCursor' = clock
         /\ r \in outboxOf' <=> row[r].state = "in" /\ row[r].at >= Since /\ sent[r] = -1
         /\ r \in outboxOf' => sent'[r] = clock
         /\ r \notin outboxOf' => sent'[r] = sent[r] \/ (sent'[r] = -1 /\ sent[r] < clock - SentRetention)
<1>1. outboxOf = {}
  BY DEF RunOnce, MonitorInv, NothingLeft
<1>2. r \notin Problem /\ r \in Key
  BY FindingsAreKeys
<1>3. r \in outboxOf' <=> r \in NotableRows /\ sent[r] = -1
  BY FindingsAreKeys DEF RunOnce, MonitorDue
<1>4. r \in NotableRows <=> row[r].state = "in" /\ row[r].at >= Since
  BY DEF NotableRows
<1> QED
  BY <1>1, <1>2, <1>3, <1>4 DEF RunOnce, worldVars

\* What it does about a standing problem.
LEMMA PassOverProblem ==
  ASSUME MonitorInv, RunOnce, NEW k \in Problem
  PROVE  /\ k \notin Row /\ k \in Key /\ outboxOf = {} /\ lastAlert' = lastAlert /\ clock' = clock
         /\ k \in outboxOf' <=> k \in Findings /\ (sent[k] = -1 \/ sent[k] <= clock - Again(k))
         /\ k \in outboxOf' => sent'[k] = clock
         /\ k \notin outboxOf' => sent'[k] = IF sent[k] # -1 /\ sent[k] < clock - SentRetention THEN -1 ELSE sent[k]
<1>1. outboxOf = {}
  BY DEF RunOnce, MonitorInv, NothingLeft
<1>2. k \notin Row /\ k \in Key
  BY FindingsAreKeys
<1>3. k \in outboxOf' <=> k \in Findings /\ (sent[k] = -1 \/ sent[k] <= clock - Again(k))
  BY <1>2 DEF RunOnce, MonitorDue
<1> QED
  BY <1>1, <1>2, <1>3 DEF RunOnce

\* Every step keeps the memory of the rows.
LEMMA RowsRememberedKept ==
  ASSUME MonitorInv, MonitorNext
  PROVE  RowsRemembered'
<1> USE Intervals
<1>1. MonitorInv /\ MonitorTypes /\ RowsRemembered
  BY DEF MonitorInv
<1>2. ASSUME NEW r \in Row, LedgerRowMoves(r) PROVE RowsRemembered'
  <2>1. ASSUME NEW q \in Row PROVE RowRemembered(q)'
    <3>1. row[q] \in [at : 0 .. clock, state : {"none", "open", "in"}] /\ clock \in Int /\ ledgerCursor \in Int /\ sent[q] \in Int /\ alerts[q] \in Nat /\ q \in Key /\ RowRemembered(q)
      BY <1>1 DEF MonitorTypes, Key, RowsRemembered
    <3> QED
      BY <1>1, <1>2, <2>1, <3>1 DEF LedgerRowMoves, MonitorTypes, RowRemembered, MonitorFault, monitorVars, worldVars, bookVars
  <2> QED
    BY <2>1 DEF RowsRemembered
<1>3. CASE RentalMoves
  BY <1>1, <1>3 DEF RentalMoves, MonitorFault, monitorVars, worldVars, bookVars, MonitorTypes, RowsRemembered, RowRemembered, Key
<1>4. CASE WatcherMoves
  BY <1>1, <1>4 DEF WatcherMoves, MonitorFault, monitorVars, worldVars, bookVars, MonitorTypes, RowsRemembered, RowRemembered, Key
<1>5. CASE MonitorTick
  <2>1. ASSUME NEW q \in Row PROVE RowRemembered(q)'
    <3>1. row[q] \in [at : 0 .. clock, state : {"none", "open", "in"}] /\ clock \in Int /\ ledgerCursor \in Int /\ sent[q] \in Int /\ alerts[q] \in Nat /\ q \in Key /\ RowRemembered(q)
      BY <1>1 DEF MonitorTypes, Key, RowsRemembered
    <3> QED
      BY <1>1, <1>5, <2>1, <3>1 DEF MonitorTick, MonitorTypes, RowRemembered, MonitorFault, monitorVars, worldVars, bookVars
  <2> QED
    BY <2>1 DEF RowsRemembered
<1>6. CASE RunOnce
  <2>1. ASSUME NEW r \in Row PROVE RowRemembered(r)'
    <3>1. row[r].at \in Int /\ row[r].at <= clock /\ clock \in Int /\ ledgerCursor \in Int /\ ledgerCursor <= clock /\ sent[r] \in Int /\ alerts[r] \in Nat
      BY <1>1 DEF MonitorTypes, Key
    <3>2. alerts[r] = 1 /\ sent[r] = -1 => row[r].at < Since
      BY <1>1, <1>6, <2>1, <3>1, PassOverRow DEF RowsRemembered, RowRemembered, Since
    <3>3. RowRemembered(r) /\ Overlap < SentRetention /\ Overlap \in Nat /\ SentRetention \in Nat
      BY <1>1, <2>1, Intervals DEF RowsRemembered
    <3>4. CASE r \in outboxOf'
      <4>1. row[r].state = "in" /\ row[r].at >= Since /\ sent[r] = -1 /\ sent'[r] = clock
        BY <1>1, <1>6, <2>1, <3>4, PassOverRow
      <4>2. alerts'[r] = alerts[r] /\ row'[r] = row[r]
        BY <1>1, <1>6, <2>1, PassOverRow
      <4>3. Since \in Int /\ clock # -1
        BY <1>1, <3>1 DEF Since, MonitorTypes
      <4>4. alerts[r] = 0
        BY <3>1, <3>2, <3>3, <4>1, <4>3 DEF RowRemembered
      <4> QED
        BY <3>1, <3>4, <4>1, <4>2, <4>3, <4>4 DEF RowRemembered
    <3>5. CASE r \notin outboxOf'
      <4>1. r \notin outboxOf /\ alerts'[r] = alerts[r] /\ row'[r] = row[r] /\ ledgerCursor' = clock
        BY <1>1, <1>6, <2>1, PassOverRow
      <4>2. sent'[r] = sent[r] \/ (sent'[r] = -1 /\ sent[r] < clock - SentRetention)
        BY <1>1, <1>6, <2>1, <3>5, PassOverRow
      <4>3. ASSUME alerts[r] = 1 PROVE sent'[r] # -1 \/ row[r].at < clock - Overlap
        BY <3>1, <3>3, <4>1, <4>2, <4>3 DEF RowRemembered
      <4>4. ASSUME sent'[r] # -1 PROVE alerts[r] = 1 /\ row[r].at <= sent'[r]
        BY <3>3, <4>1, <4>2, <4>4 DEF RowRemembered
      <4>5. clock # -1
        BY <1>1 DEF MonitorTypes
      <4> QED
        BY <3>3, <3>5, <4>1, <4>3, <4>4, <4>5 DEF RowRemembered
    <3> QED
      BY <3>4, <3>5
  <2> QED
    BY <2>1 DEF RowsRemembered
<1>7. CASE RunFails
  BY <1>1, <1>7 DEF RunFails, MonitorFault, monitorVars, worldVars, bookVars, MonitorTypes, RowsRemembered, RowRemembered, Key
<1>8. CASE SendAlert
  <2>1. ASSUME NEW q \in Row PROVE RowRemembered(q)'
    <3>1. row[q] \in [at : 0 .. clock, state : {"none", "open", "in"}] /\ clock \in Int /\ ledgerCursor \in Int /\ sent[q] \in Int /\ alerts[q] \in Nat /\ q \in Key /\ RowRemembered(q)
      BY <1>1 DEF MonitorTypes, Key, RowsRemembered
    <3> QED
      BY <1>1, <1>8, <2>1, <3>1 DEF SendAlert, MonitorTypes, RowRemembered, MonitorFault, monitorVars, worldVars, bookVars
  <2> QED
    BY <2>1 DEF RowsRemembered
<1>9. ASSUME NEW p \in {"drift", "review"}, ProblemMoves(p) PROVE RowsRemembered'
  BY <1>1, <1>9 DEF ProblemMoves, MonitorFault, monitorVars, worldVars, bookVars, MonitorTypes, RowsRemembered, RowRemembered, Key
<1> QED
  BY <1>2, <1>3, <1>4, <1>5, <1>6, <1>7, <1>8, <1>9 DEF MonitorNext

\* Every step keeps that no row of the time watched is passed by.
LEMMA RowsToldKept ==
  ASSUME MonitorInv, MonitorNext
  PROVE  RowsTold'
<1> USE Intervals
<1>1. MonitorInv /\ MonitorTypes /\ OpenIsYoung /\ RowsRemembered /\ RowsTold
  BY DEF MonitorInv
<1>2. ASSUME NEW r \in Row, LedgerRowMoves(r) PROVE RowsTold'
  BY <1>1, <1>2 DEF LedgerRowMoves, MonitorFault, monitorVars, worldVars, bookVars, MonitorTypes, OpenIsYoung, RowsTold
<1>3. CASE RentalMoves
  BY <1>1, <1>3 DEF RentalMoves, MonitorFault, monitorVars, worldVars, bookVars, MonitorTypes, OpenIsYoung, RowsTold
<1>4. CASE WatcherMoves
  BY <1>1, <1>4 DEF WatcherMoves, MonitorFault, monitorVars, worldVars, bookVars, MonitorTypes, OpenIsYoung, RowsTold
<1>5. CASE MonitorTick
  BY <1>1, <1>5 DEF MonitorTick, MonitorFault, monitorVars, worldVars, bookVars, MonitorTypes, OpenIsYoung, RowsTold
<1>6. CASE RunOnce
  <2> SUFFICES ASSUME NEW r \in Row, (row[r].state = "in" /\ ledgerCursor # -1 /\ row[r].at >= firstSince /\ row[r].at < ledgerCursor - Overlap)' PROVE alerts'[r] = 1 \/ r \in outboxOf'
    BY DEF RowsTold
  <2>1. row[r].at \in Int /\ clock \in Int /\ ledgerCursor \in Int /\ Since \in Int
    BY <1>1 DEF MonitorTypes, Since
  <2>2. row[r].state = "in" /\ row[r].at >= (IF ledgerCursor = -1 THEN Since ELSE firstSince)
    BY <1>6, PassOverRow DEF RunOnce
  <2>3. CASE row[r].at >= Since
    BY <1>1, <1>6, <2>2, <2>3, PassOverRow DEF RowsRemembered, RowRemembered
  <2>4. CASE row[r].at < Since
    BY <1>1, <1>6, <2>1, <2>2, <2>4, PassOverRow DEF RowsTold, Since
  <2> QED
    BY <2>1, <2>3, <2>4
<1>7. CASE RunFails
  BY <1>1, <1>7 DEF RunFails, MonitorFault, monitorVars, worldVars, bookVars, MonitorTypes, OpenIsYoung, RowsTold
<1>8. CASE SendAlert
  <2>1. ASSUME NEW r \in Row PROVE alerts'[r] = 1 <=> alerts[r] = 1 \/ r \in outboxOf
    BY <1>1, <1>8, <2>1 DEF SendAlert, RowsRemembered, RowRemembered, MonitorTypes, Key
  <2> QED
    BY <1>1, <1>8, <2>1 DEF SendAlert, RowsTold, worldVars
<1>9. ASSUME NEW p \in {"drift", "review"}, ProblemMoves(p) PROVE RowsTold'
  BY <1>1, <1>9 DEF ProblemMoves, MonitorFault, monitorVars, worldVars, bookVars, MonitorTypes, OpenIsYoung, RowsTold
<1> QED
  BY <1>2, <1>3, <1>4, <1>5, <1>6, <1>7, <1>8, <1>9 DEF MonitorNext

\* Every step keeps the memory of the standing problems.
LEMMA ProblemsRememberedKept ==
  ASSUME MonitorInv, MonitorNext
  PROVE  ProblemsRemembered'
<1> USE Intervals
<1>1. MonitorInv /\ MonitorTypes /\ NothingLeft /\ ProblemsRemembered
  BY DEF MonitorInv
<1>2. ASSUME NEW r \in Row, LedgerRowMoves(r) PROVE ProblemsRemembered'
  BY <1>1, <1>2 DEF LedgerRowMoves, MonitorFault, monitorVars, worldVars, bookVars, ProblemsRemembered, ProblemRemembered, Again
<1>3. CASE RentalMoves
  BY <1>1, <1>3 DEF RentalMoves, MonitorFault, monitorVars, worldVars, bookVars, ProblemsRemembered, ProblemRemembered, Again
<1>4. CASE WatcherMoves
  BY <1>1, <1>4 DEF WatcherMoves, MonitorFault, monitorVars, worldVars, bookVars, ProblemsRemembered, ProblemRemembered, Again
<1>5. CASE MonitorTick
  <2>1. ASSUME NEW k \in Problem PROVE ProblemRemembered(k)'
    <3>1. sent[k] \in -1 .. clock /\ lastAlert[k] \in -1 .. clock /\ clock \in Nat /\ Again(k) \in Nat \ {0} /\ Again(k) < SentRetention /\ k \in Key /\ ProblemRemembered(k)
      BY <1>1 DEF MonitorTypes, Key, ProblemsRemembered, Again
    <3>2. outboxOf = {}
      BY <1>1, <1>5 DEF MonitorTick, NothingLeft
    <3> QED
      BY <1>1, <1>5, <2>1, <3>1, <3>2 DEF MonitorTick, ProblemRemembered, Again
  <2> QED
    BY <2>1 DEF ProblemsRemembered
<1>6. CASE RunOnce
  <2>1. ASSUME NEW k \in Problem PROVE ProblemRemembered(k)'
    <3>1. sent[k] \in -1 .. clock /\ lastAlert[k] \in -1 .. clock /\ clock \in Nat /\ Again(k) \in Nat \ {0} /\ Again(k) < SentRetention /\ k \in Key /\ ProblemRemembered(k)
      BY <1>1 DEF MonitorTypes, Key, ProblemsRemembered, Again
    <3>2. outboxOf = {}
      BY <1>1, <1>6 DEF RunOnce, NothingLeft
    <3> QED
      BY <1>6, <2>1, <3>1, <3>2, <1>1, PassOverProblem DEF ProblemRemembered, Again
  <2> QED
    BY <2>1 DEF ProblemsRemembered
<1>7. CASE RunFails
  BY <1>1, <1>7 DEF RunFails, MonitorFault, monitorVars, worldVars, bookVars, ProblemsRemembered, ProblemRemembered, Again
<1>8. CASE SendAlert
  <2>1. ASSUME NEW k \in Problem PROVE ProblemRemembered(k)'
    <3>1. sent[k] \in -1 .. clock /\ lastAlert[k] \in -1 .. clock /\ clock \in Nat /\ Again(k) \in Nat \ {0} /\ Again(k) < SentRetention /\ k \in Key /\ ProblemRemembered(k)
      BY <1>1 DEF MonitorTypes, Key, ProblemsRemembered, Again
    <3> QED
      BY <1>1, <1>8, <2>1, <3>1 DEF SendAlert, ProblemRemembered, Again
  <2> QED
    BY <2>1 DEF ProblemsRemembered
<1>9. ASSUME NEW p \in {"drift", "review"}, ProblemMoves(p) PROVE ProblemsRemembered'
  BY <1>1, <1>9 DEF ProblemMoves, MonitorFault, monitorVars, worldVars, bookVars, ProblemsRemembered, ProblemRemembered, Again
<1> QED
  BY <1>2, <1>3, <1>4, <1>5, <1>6, <1>7, <1>8, <1>9 DEF MonitorNext

\* Every step keeps a drift in sight.
LEMMA DriftSeenKept ==
  ASSUME MonitorInv, MonitorNext
  PROVE  DriftSeen'
<1> USE Intervals
<1>1. MonitorInv /\ MonitorTypes /\ DriftSeen
  BY DEF MonitorInv
<1>2. ASSUME NEW r \in Row, LedgerRowMoves(r) PROVE DriftSeen'
  BY <1>1, <1>2 DEF LedgerRowMoves, MonitorFault, monitorVars, worldVars, bookVars, MonitorTypes, DriftSeen
<1>3. CASE RentalMoves
  BY <1>1, <1>3 DEF RentalMoves, MonitorFault, monitorVars, worldVars, bookVars, MonitorTypes, DriftSeen
<1>4. CASE WatcherMoves
  BY <1>1, <1>4 DEF WatcherMoves, MonitorFault, monitorVars, worldVars, bookVars, MonitorTypes, DriftSeen
<1>5. CASE MonitorTick
  BY <1>1, <1>5 DEF MonitorTick, MonitorFault, monitorVars, worldVars, bookVars, MonitorTypes, DriftSeen
<1>6. CASE RunOnce
  <2>1. "drift" \in Problem /\ Again("drift") = RealertAfter
    BY DEF Problem, Again
  <2>2. "drift" \in outboxOf' <=> standing.drift # -1 /\ (sent["drift"] = -1 \/ sent["drift"] <= clock - RealertAfter)
    BY <1>1, <1>6, <2>1, PassOverProblem, FindingsAreKeys
  <2>3. sent["drift"] \in Int /\ clock \in Int
    BY <1>1, <2>1 DEF MonitorTypes, Key
  <2> QED
    BY <1>1, <1>6, <2>1, <2>2, <2>3, PassOverProblem DEF DriftSeen, RunOnce, worldVars, MonitorTypes
<1>7. CASE RunFails
  BY <1>1, <1>7 DEF RunFails, MonitorFault, monitorVars, worldVars, bookVars, MonitorTypes, DriftSeen
<1>8. CASE SendAlert
  BY <1>1, <1>8 DEF SendAlert, MonitorFault, monitorVars, worldVars, bookVars, MonitorTypes, DriftSeen
<1>9. ASSUME NEW p \in {"drift", "review"}, ProblemMoves(p) PROVE DriftSeen'
  BY <1>1, <1>9 DEF ProblemMoves, MonitorFault, monitorVars, worldVars, bookVars, MonitorTypes, DriftSeen
<1> QED
  BY <1>2, <1>3, <1>4, <1>5, <1>6, <1>7, <1>8, <1>9 DEF MonitorNext

\* No step reports a standing problem too soon.
LEMMA NotTooSoonKept ==
  ASSUME MonitorInv, MonitorNext
  PROVE  NotTooSoon'
<1> USE Intervals
<1>1. MonitorInv /\ MonitorTypes /\ ProblemsRemembered /\ NotTooSoon
  BY DEF MonitorInv
<1>2. ASSUME NEW r \in Row, LedgerRowMoves(r) PROVE NotTooSoon'
  BY <1>1, <1>2 DEF LedgerRowMoves, MonitorFault, monitorVars, worldVars, bookVars, NotTooSoon
<1>3. CASE RentalMoves
  BY <1>1, <1>3 DEF RentalMoves, MonitorFault, monitorVars, worldVars, bookVars, NotTooSoon
<1>4. CASE WatcherMoves
  BY <1>1, <1>4 DEF WatcherMoves, MonitorFault, monitorVars, worldVars, bookVars, NotTooSoon
<1>5. CASE MonitorTick
  BY <1>1, <1>5 DEF MonitorTick, MonitorFault, monitorVars, worldVars, bookVars, NotTooSoon
<1>6. CASE RunOnce
  BY <1>1, <1>6 DEF RunOnce, MonitorFault, monitorVars, worldVars, bookVars, NotTooSoon
<1>7. CASE RunFails
  BY <1>1, <1>7 DEF RunFails, MonitorFault, monitorVars, worldVars, bookVars, NotTooSoon
<1>8. CASE SendAlert
  <2>1. ASSUME NEW k \in outboxOf \ Row PROVE ~(lastAlert[k] # -1 /\ clock - lastAlert[k] < Again(k))
    <3>1. k \in Problem
      BY <1>1, <2>1 DEF MonitorTypes, Key
    <3>2. clock \in Int /\ lastAlert[k] \in Int /\ Again(k) \in Int
      BY <1>1, <3>1 DEF MonitorTypes, Key, Again
    <3> QED
      BY <1>1, <2>1, <3>1, <3>2 DEF ProblemsRemembered, ProblemRemembered
  <2> QED
    BY <1>1, <1>8, <2>1 DEF SendAlert, NotTooSoon
<1>9. ASSUME NEW p \in {"drift", "review"}, ProblemMoves(p) PROVE NotTooSoon'
  BY <1>1, <1>9 DEF ProblemMoves, MonitorFault, monitorVars, worldVars, bookVars, NotTooSoon
<1> QED
  BY <1>2, <1>3, <1>4, <1>5, <1>6, <1>7, <1>8, <1>9 DEF MonitorNext

\* Every step keeps MonitorInv.
LEMMA MonitorInvKept ==
  MonitorInv /\ [MonitorNext]_monitorVars => MonitorInv'
<1>1. ASSUME MonitorInv, MonitorNext PROVE MonitorInv'
  BY <1>1, MonitorTypesKept, OrderKept, RowsRememberedKept, RowsToldKept, ProblemsRememberedKept, DriftSeenKept, NotTooSoonKept
     DEF MonitorInv
<1>2. ASSUME MonitorInv, UNCHANGED monitorVars PROVE MonitorInv'
  <2>1. UNCHANGED <<clock, ledgerCursor, emptySince, row, rental, standing>>
    BY <1>2 DEF monitorVars, worldVars, bookVars
  <2>2. UNCHANGED <<sent, lastAlert, outboxOf, alerts, firstSince, monitorFaults, passDone, tooSoon>>
    BY <1>2 DEF monitorVars, bookVars
  <2> QED
    BY <1>2, <2>1, <2>2 DEF MonitorInv, MonitorTypes, NothingLeft, OpenIsYoung, RowsRemembered, RowRemembered, RowsTold,
       ProblemsRemembered, ProblemRemembered, DriftSeen, NotTooSoon
<1> QED
  BY <1>1, <1>2

\* The invariant says what the runs check.
LEMMA MonitorInvIsSafe ==
  MonitorInv => MonitorSafety
<1> SUFFICES ASSUME MonitorInv PROVE MonitorSafety
  OBVIOUS
<1> USE Intervals
<1>1. MonitorTypeOK
  BY DEF MonitorInv, MonitorTypes, MonitorTypeOK
<1>2. RowReportedOnce /\ NotTooSoon
  BY DEF MonitorInv, RowsRemembered, RowRemembered, RowReportedOnce
<1>3. NoRowMissed
  <2>1. ASSUME NEW r \in Row PROVE Cardinality({r} \cap outboxOf) = IF r \in outboxOf THEN 1 ELSE 0
    <3>1. CASE r \in outboxOf
      <4>1. {r} \cap outboxOf = {r}
        BY <3>1
      <4> QED
        BY <3>1, <4>1, FS_Singleton
    <3>2. CASE r \notin outboxOf
      <4>1. {r} \cap outboxOf = {}
        BY <3>2
      <4> QED
        BY <3>2, <4>1, FS_EmptySet
    <3> QED
      BY <3>1, <3>2
  <2>2. ASSUME NEW r \in Row, alerts[r] = 1 \/ r \in outboxOf PROVE alerts[r] + (IF r \in outboxOf THEN 1 ELSE 0) = 1
    BY <2>2 DEF MonitorInv, RowsRemembered, RowRemembered
  <2> QED
    BY <2>1, <2>2 DEF MonitorInv, RowsTold, NoRowMissed
<1>4. DriftNotForgotten
  <2> SUFFICES ASSUME standing.drift # -1, passDone, outboxOf = {}, monitorFaults = 0
               PROVE  /\ clock - Max({standing.drift, lastAlert["drift"]}) < RealertAfter + 1
                      /\ lastAlert["drift"] # -1 \/ clock = standing.drift
    BY DEF DriftNotForgotten
  <2>1. "drift" \in Problem /\ "drift" \in Key
    BY DEF Problem, Key
  <2>2. standing.drift \in -1 .. clock /\ lastAlert["drift"] \in -1 .. clock /\ clock \in Nat /\ sent["drift"] \in -1 .. clock
    BY <2>1 DEF MonitorInv, MonitorTypes
  <2>3. standing.drift = clock \/ (lastAlert["drift"] # -1 /\ lastAlert["drift"] > clock - RealertAfter)
    BY <2>1 DEF MonitorInv, DriftSeen, ProblemsRemembered, ProblemRemembered
  <2>4. standing.drift \in Int /\ lastAlert["drift"] \in Int
    BY <2>2
  <2> DEFINE last == Max({standing.drift, lastAlert["drift"]})
  <2>5. last \in {standing.drift, lastAlert["drift"]} /\ standing.drift <= last /\ lastAlert["drift"] <= last
    BY <2>4, MaxOfTwo
  <2> HIDE DEF last
  <2>6. clock - last < RealertAfter + 1
    BY <2>2, <2>3, <2>5
  <2> QED
    BY <2>3, <2>6 DEF last
<1> QED
  BY <1>1, <1>2, <1>3, <1>4 DEF MonitorSafety

\* The billing monitor loses no row of the time it watches, tells each once, tells a standing problem
\* neither too soon nor too late, whichever passes fail (run_once and its bookkeeping).
THEOREM MonitorSafetyHolds == MonitorSpec => []MonitorSafety
<1>1. MonitorSpec => []MonitorInv
  BY MonitorInvInit, MonitorInvKept, PTL DEF MonitorSpec
<1> QED
  BY <1>1, MonitorInvIsSafe, PTL
=============================================================================
