--------------------------- MODULE DepositWatcher ---------------------------
(***************************************************************************)
(* How the deposit watcher reads a chain: a cursor in the database, ranges *)
(* of blocks deep enough not to be reorganised, RPC endpoints that fail or *)
(* no longer serve old blocks, and a process that dies between handling a  *)
(* payment and moving the cursor.                                          *)
(*                                                                         *)
(* The chains do not share state, so one is looked at per behaviour:       *)
(* "evm" (scan_evm_chain, the cursor is the next block to read) or         *)
(* "bittensor" (scan_bittensor, the cursor is the last block read).  A     *)
(* block holds at most one payment; what happens to it is in Deposits.     *)
(***************************************************************************)
EXTENDS Integers, FiniteSets, FiniteSetsExt

CONSTANTS
  MaxBlock,        \* bound on the chain's length
  Confirmations,   \* depth below which a block is final
  BlocksPerTick,   \* MAX_BLOCKS_PER_TICK
  FallbackBlocks,  \* FALLBACK_BLOCKS_PER_TICK
  FirstBack,       \* how far behind the safe head a first scan starts
  StrandedAfter,   \* STRANDED_AFTER_BLOCKS: the main RPC serves no older logs
  ResumeBehind,    \* RESUME_BLOCKS_BEHIND
  HasFallback,     \* is a backup RPC configured?
  MaxScanFaults    \* bound on failed reads, failed payments and deaths

ASSUME DepositWatcherAssumption ==
  /\ MaxBlock \in Nat /\ Confirmations \in Nat /\ BlocksPerTick \in Nat /\ FallbackBlocks \in Nat \ {0}
  /\ FirstBack \in Nat /\ StrandedAfter \in Nat /\ ResumeBehind \in Nat /\ HasFallback \in BOOLEAN
  /\ MaxScanFaults \in Nat

VARIABLES
  chain,           \* "evm" or "bittensor"
  head,            \* number of the newest block
  pays,            \* the blocks of the chain that pay a deposit address
  cursor,          \* key_value_state watcher:<chain>:last_block, -1 before the first tick
  first,           \* history: the first block this watcher was responsible for
  handled,         \* the blocks whose payment resolve_deposit has dealt with
  onFallback,      \* _primary_failed_at is recent
  scan,            \* the tick in progress: [on, head, from, to, todo, ok]
  scanFaults

scanVars == <<chain, head, pays, cursor, first, handled, onFallback, scan, scanFaults>>

NoScan == [on |-> FALSE, head |-> 0, from |-> 0, to |-> 0, todo |-> {}, ok |-> TRUE]

ScanInit ==
  /\ chain \in {"evm", "bittensor"}
  /\ head = 0 /\ pays = {} /\ cursor = -1 /\ first = 0
  /\ handled = {} /\ onFallback = FALSE /\ scan = NoScan /\ scanFaults = 0

(***************************************************************************)
(* The chain (external).                                                   *)
(***************************************************************************)

Mine ==
  /\ head < MaxBlock
  /\ head' = head + 1
  /\ pays' \in {pays, pays \cup {head + 1}}
  /\ UNCHANGED <<chain, cursor, first, handled, onFallback, scan, scanFaults>>

\* Blocks less than Confirmations deep may be replaced.
Reorg ==
  /\ \E b \in (head - Confirmations + 1) .. head :
       b >= 1 /\ pays' = IF b \in pays THEN pays \ {b} ELSE pays \cup {b}
  /\ UNCHANGED <<chain, head, cursor, first, handled, onFallback, scan, scanFaults>>

(***************************************************************************)
(* The scan.                                                               *)
(***************************************************************************)

\* Something the watcher does not control goes wrong.
ScanFault == scanFaults < MaxScanFaults /\ scanFaults' = scanFaults + 1

SafeHead(h) == h - Confirmations

\* The cursor, or on a first run a day (EVM) or some hours (Bittensor) behind.
FromBlock(h) == IF cursor # -1 THEN cursor ELSE Max({0, SafeHead(h) - FirstBack})

Stranded(h, from) == h - from > StrandedAfter

UseFallbackNever(h, from) == FALSE
UseFallback(h, from) == HasFallback /\ (Stranded(h, from) \/ onFallback)

ToBlock(h, from) ==
  LET to == Min({SafeHead(h), from + BlocksPerTick}) IN
  IF chain = "evm" /\ UseFallback(h, from) THEN Min({to, from + FallbackBlocks - 1}) ELSE to

\* The blocks a tick reads.
ScanRange(from, to) == IF chain = "evm" THEN from .. to ELSE (from + 1) .. to

\* scan_evm_chain up to the logs.  Every token and address is a query of its own: when
\* one fails the payments of the others are handled all the same, and the tick is not ok.
StartEvmScan ==
  /\ chain = "evm" /\ ~scan.on
  /\ SafeHead(head) > 0
  /\ LET from == FromBlock(head)
         to == ToBlock(head, from)
         logs == pays \cap ScanRange(from, to)
         fallback == UseFallback(head, from)
     IN /\ to >= from
        /\ \E got \in SUBSET logs, ok \in BOOLEAN :
             /\ ok => got = logs
             /\ fallback /\ ~ok => got = {}
             /\ ok /\ ~fallback => ~Stranded(head, from)
             /\ IF ok \/ (~fallback /\ Stranded(head, from)) THEN UNCHANGED scanFaults ELSE ScanFault
             /\ onFallback' = (onFallback \/ (~fallback /\ ~ok))
             /\ scan' = [on |-> TRUE, head |-> head, from |-> from, to |-> to, todo |-> got, ok |-> ok]
  /\ UNCHANGED <<chain, head, pays, cursor, first, handled>>

\* scan_bittensor: the block range, then block by block until one cannot be read.
StartBittensorScan ==
  /\ chain = "bittensor" /\ ~scan.on
  /\ SafeHead(head) > 0
  /\ LET from == FromBlock(head)
         to == ToBlock(head, from)
     IN /\ to > from
        /\ \E reach \in from .. to :
             /\ IF reach = to THEN UNCHANGED scanFaults ELSE ScanFault
             /\ scan' = [on |-> TRUE, head |-> head, from |-> from, to |-> reach,
                         todo |-> pays \cap ScanRange(from, reach), ok |-> TRUE]
  /\ UNCHANGED <<chain, head, pays, cursor, first, handled, onFallback>>

\* Payments of a range are taken in block order on Bittensor.
ComesNext(b) == b \in scan.todo /\ (chain = "bittensor" => \A c \in scan.todo : b <= c)

\* resolve_deposit returned.
HandlePayment ==
  /\ scan.on
  /\ \E b \in scan.todo :
       /\ ComesNext(b)
       /\ handled' = handled \cup {b}
       /\ scan' = [scan EXCEPT !.todo = @ \ {b}]
  /\ UNCHANGED <<chain, head, pays, cursor, first, onFallback, scanFaults>>

\* resolve_deposit raised: EVM goes on but will not move its cursor, Bittensor stops
\* in front of the block.
PaymentFails ==
  /\ scan.on /\ ScanFault
  /\ \E b \in scan.todo :
       /\ ComesNext(b)
       /\ scan' = IF chain = "evm" THEN [scan EXCEPT !.todo = @ \ {b}, !.ok = FALSE]
                  ELSE [scan EXCEPT !.todo = {}, !.to = b - 1]
  /\ UNCHANGED <<chain, head, pays, cursor, first, handled, onFallback>>

\* _nothing_received, when the balances and nonces before and after can be read.
NothingReceived(a, b) == pays \cap (a .. b) = {}

ResumeAt == SafeHead(scan.head) - ResumeBehind

\* Where the tick leaves the cursor: past the range, or past a stranded range in which
\* nothing was received, or where it was.
NextCursorAlways(asked) == IF chain = "bittensor" THEN scan.to ELSE scan.to + 1
NextCursor(asked) ==
  IF chain = "bittensor" THEN scan.to
  ELSE IF scan.ok THEN scan.to + 1
  ELSE IF /\ Stranded(scan.head, scan.from)
          /\ ResumeAt > scan.from
          /\ asked /\ NothingReceived(scan.from, ResumeAt - 1)
       THEN ResumeAt
  ELSE cursor

FinishScan ==
  /\ scan.on /\ scan.todo = {}
  /\ \E asked \in BOOLEAN :
       /\ cursor' = NextCursor(asked)
       /\ first' = IF cursor = -1 /\ NextCursor(asked) # -1
                   THEN (IF chain = "evm" THEN scan.from ELSE scan.from + 1) ELSE first
  /\ scan' = NoScan
  /\ UNCHANGED <<chain, head, pays, handled, onFallback, scanFaults>>

\* The gateway dies in the middle of a tick.
WatcherDies ==
  /\ scan.on /\ ScanFault
  /\ scan' = NoScan /\ onFallback' = FALSE
  /\ UNCHANGED <<chain, head, pays, cursor, first, handled>>

\* FALLBACK_HOLD_SECONDS have passed.
HoldEnds ==
  /\ onFallback /\ ~scan.on
  /\ onFallback' = FALSE
  /\ UNCHANGED <<chain, head, pays, cursor, first, handled, scan, scanFaults>>

ScanNext ==
  \/ Mine \/ Reorg
  \/ StartEvmScan \/ StartBittensorScan \/ HandlePayment \/ PaymentFails \/ FinishScan
  \/ WatcherDies \/ HoldEnds

\* deposit_watcher_loop ticks for ever, and faults are few.
ScanFairness ==
  /\ WF_scanVars(StartEvmScan \/ StartBittensorScan)
  /\ WF_scanVars(HandlePayment)
  /\ WF_scanVars(FinishScan)

ScanSpec == ScanInit /\ [][ScanNext]_scanVars /\ ScanFairness

(***************************************************************************)
(* Properties.                                                             *)
(***************************************************************************)

\* The scan stays within the chain, and the cursor within what has been read.
ScanTypeOK ==
  /\ chain \in {"evm", "bittensor"}
  /\ head \in 0 .. MaxBlock /\ pays \subseteq 1 .. MaxBlock
  /\ cursor \in -1 .. MaxBlock + 1 /\ first \in 0 .. MaxBlock + 1
  /\ handled \subseteq 1 .. MaxBlock /\ onFallback \in BOOLEAN /\ scanFaults \in 0 .. MaxScanFaults
  /\ scan \in [on : BOOLEAN, head : 0 .. MaxBlock, from : 0 .. MaxBlock + 1, to : 0 .. MaxBlock,
               todo : SUBSET (1 .. MaxBlock), ok : BOOLEAN]

\* The first block the cursor has not passed.
NextUnread == IF chain = "evm" THEN cursor ELSE cursor + 1

\* A payment in a block the cursor has passed has been handled: no failed query, no
\* death between two payments and no skip of a stranded range loses one.
NothingSkipped == \A b \in pays : (cursor # -1 /\ first <= b /\ b < NextUnread) => b \in handled

\* Nothing is credited that a reorganisation takes back.
OnlyConfirmed == handled \subseteq pays

\* A payment that stays in the chain is handled in the end, although ticks fail and the
\* main endpoint no longer serves what fell behind.
EveryPaymentHandled ==
  <>[](\A b \in 1 .. MaxBlock - Confirmations : (b \in pays /\ first <= b) => b \in handled)

\* The cursor passes no payment that was not handled, and none is handled early.
ScanSafety == ScanTypeOK /\ NothingSkipped /\ OnlyConfirmed
=============================================================================
