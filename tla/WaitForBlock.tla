---------------------------- MODULE WaitForBlock ----------------------------
(***************************************************************************)
(* WaitForGenerateBlock of client.go: it reads the height of the node's    *)
(* chain, then once a second again, until enough blocks have come or the   *)
(* seconds are over.  A read that fails costs its second.  Heights are     *)
(* uint32 and are subtracted as such.  Each read goes through the client   *)
(* getClient finds then; the application may set another at any time.      *)
(***************************************************************************)
EXTENDS Integers

CONSTANTS
    Modulus,      \* 2^32: a height is a uint32
    MaxHeight,    \* bound: the height the chain reaches
    FirstHeights, \* bound: its heights when the node gets the transaction
    MaxSecs,      \* bound: seconds waited
    BlockCounts   \* numbers of blocks asked for; 0 asks for the default

ASSUME HeightAssumption ==
    /\ Modulus \in Nat \ {0} /\ MaxHeight \in 0..(Modulus - 1)
    /\ FirstHeights \subseteq 0..MaxHeight
ASSUME WaitAssumption == MaxSecs \in Nat \ {0} /\ BlockCounts \subseteq Nat

VARIABLES
    height,       \* the height of the node's chain
    wait,         \* "idle" or "sleep", or the verdict: "generated" or "timeout"
    blockHeight,  \* the height read first
    count,        \* the blocks to wait for
    secs,         \* the seconds left
    fellBack      \* history: an answer was from a chain that is behind

callerVars == <<wait, blockHeight, count, secs>>
nodeVars == <<height, fellBack>>

WaitInit ==
    /\ height = 0 /\ fellBack = FALSE
    /\ wait = "idle" /\ blockHeight = 0 /\ count = 0 /\ secs = 0

-----------------------------------------------------------------------------
\* getClient: the default client, or the first there is of these.
Clients == {"rpc", "rest", "ws"}

\* getblockcount: the first block has height 0.
BlockCount == (height + 1) % Modulus

\* Mutated form: the RPC client takes the count for the height.
BlockCountOrHeight(c) == IF c = "rpc" THEN BlockCount ELSE height

\* What getCurrentBlockHeight of client c returns.
GetCurrentBlockHeight(c) == IF c = "rpc" THEN (BlockCount - 1) % Modulus ELSE height

DefaultCount == 2

\* Mutated form: a timeout below a second is taken as it is.
StartWaitShort(n, timeout, c) ==
    /\ wait # "sleep"
    /\ wait' = "sleep"
    /\ blockHeight' = GetCurrentBlockHeight(c)
    /\ count' = IF n > 0 THEN n ELSE DefaultCount
    /\ secs' = timeout
    /\ UNCHANGED nodeVars

\* The first read; when it fails the call returns its error at once.
StartWait(n, timeout, c) ==
    /\ wait # "sleep"
    /\ wait' = "sleep"
    /\ blockHeight' = GetCurrentBlockHeight(c)
    /\ count' = IF n > 0 THEN n ELSE DefaultCount
    /\ secs' = IF timeout <= 0 THEN 1 ELSE timeout
    /\ UNCHANGED nodeVars

\* curBlockHeigh - blockHeight >= count.
Enough(curBlockHeigh) == (curBlockHeigh - blockHeight) % Modulus >= count

\* A second is over.
Tick(found) ==
    /\ wait = "sleep" /\ secs > 0
    /\ secs' = secs - 1
    /\ wait' = IF found THEN "generated" ELSE IF secs' = 0 THEN "timeout" ELSE wait
    /\ UNCHANGED <<nodeVars, blockHeight, count>>

ReadHeight(c) == Tick(Enough(GetCurrentBlockHeight(c)))

\* The client fails, or there is none.
ReadFails == Tick(FALSE)

\* The node's chain grows; or the answers come from a node that is behind.
Generate ==
    /\ height < MaxHeight
    /\ height' = height + 1
    /\ UNCHANGED <<callerVars, fellBack>>

FallBack ==
    /\ height > 0
    /\ height' = height - 1 /\ fellBack' = TRUE
    /\ UNCHANGED callerVars

WaitTypeOK ==
    /\ height \in 0..MaxHeight /\ blockHeight \in 0..MaxHeight
    /\ wait \in {"idle", "sleep", "generated", "timeout"}
    /\ count \in Nat /\ fellBack \in BOOLEAN /\ secs \in 0..MaxSecs
    /\ wait = "sleep" => secs > 0 /\ count > 0
=============================================================================
