----------------------------- MODULE Invocation -----------------------------
(***************************************************************************)
(* A transaction from its construction to the blocks that follow it:       *)
(* TxSign signs and sends it, then the application calls                   *)
(* WaitForGenerateBlock.  Transactions that Gas builds have the payload of *)
(* a transfer, which ParseNativeTxPayload should find in them.             *)
(***************************************************************************)
EXTENDS TxSign, WaitForBlock, Payload

CONSTANTS
    Transfers,    \* the transfers asked for: method, states and name
    NoTransfer

\* A list with nothing in it is left out: the code builds a payload for it, and
\* finds an error when it reads it.
ASSUME TransfersAssumption ==
    /\ NoTransfer \notin Transfers
    /\ \A t \in Transfers :
          /\ t.name \in {Piece(20, SystemNativeInvoke), Piece(22, OntologyNativeInvoke)}
          /\ \/ /\ t.method = Transfer /\ t.states # <<>>
                /\ t.states \in Seq(Places \X Places \X Nat)
             \/ /\ t.method = TransferFrom /\ Len(t.states) = 1
                /\ t.states \in Seq(Places \X Places \X Places \X Nat)

VARIABLES
    sentAt,       \* history: the node's height when it got the transaction
    transfer      \* what Gas has put into the transaction

vars == <<signVars, nodeVars, callerVars, sentAt, transfer>>

Init == SignInit /\ WaitInit /\ sentAt = 0 /\ transfer = NoTransfer

\* Gas.Transfer, MultiTransfer, TransferFrom: one account signs.
GasTransfer == \E t \in Transfers : InvokeContract /\ transfer' = t

\* The payload of the transaction.
Code == BuildNativeInvokeCode(transfer.method, transfer.states, transfer.name)

ParseNativeTxPayload == IF transfer = NoTransfer THEN <<>> ELSE ParsePayload(Code)

\* The node's chain has some height when it gets the transaction; until then
\* it plays no part.
Sign ==
    /\ wait # "sleep"
    /\ \/ SignNext /\ transfer' = IF stage = "signing" /\ stage' # "none" THEN transfer
                                  ELSE NoTransfer
       \/ GasTransfer
    /\ height' \in IF stage' = "sent" THEN FirstHeights ELSE {0}
    /\ sentAt' = height'
    /\ fellBack' = FALSE
    /\ wait' = "idle" /\ blockHeight' = 0 /\ count' = 0 /\ secs' = 0

\* WaitForGenerateBlock and the node, once the transaction is sent.
Wait ==
    /\ stage = "sent"
    /\ \/ \E c \in Clients :
             \/ \E n \in BlockCounts, s \in 0..MaxSecs : StartWait(n, s, c)
             \/ ReadHeight(c)
       \/ ReadFails
       \/ Generate \/ FallBack
    /\ UNCHANGED <<signVars, sentAt, transfer>>

Next == Sign \/ Wait

Spec == Init /\ [][Next]_vars

-----------------------------------------------------------------------------
(* Properties. *)

TypeOK == SignTypeOK /\ WaitTypeOK /\ sentAt \in 0..MaxHeight /\ transfer \in Transfers \cup {NoTransfer}

Asked == FlattenSeq(transfer.states) \o <<GAS_CONTRACT_ADDRESS>>

\* What is behind the tests of ParsePayload reads a transfer as it was built:
\* where a state ends, where the list does, which numbers are opcodes.  An
\* amount of 16 is excused: GetValue takes its opcode for a length
\* (TestParsePayloadRandom draws it once in a million).  So are lists of 128
\* states and more, whose length is of two bytes: IsEnd stops inside it.
BodyReadsBack ==
    /\ stage = "signing" /\ transfer # NoTransfer
    /\ 16 \notin ToSet(FlattenSeq(transfer.states)) /\ Len(transfer.states) < 2^7
    => Asked = Result(IF transfer.method = Transfer THEN ParseTransfer(Code) ELSE ParseTransferFrom(Code))

\* dna_sdk_test.go: ParsePayload takes the payload of every transfer, and
\* finds in it what was asked for.
PayloadReadsBack ==
    stage = "signing" /\ transfer # NoTransfer => ParseNativeTxPayload = Asked

\* "Wait dna generate block": when WaitForGenerateBlock returns true, the
\* node's chain has grown by as many blocks since it got the transaction, so
\* that a transaction the next blocks take is in, whichever clients read the
\* heights (RPC answers a count of blocks, the others a height).  A node that answers a lower
\* height is excused: the difference of the uint32 is huge, and the call
\* returns true at once.
Confirmed == wait = "generated" /\ ~fellBack => height - sentAt >= count
=============================================================================
