# A verification development of the DNA Go SDK

TLA+ modules of the stateful parts of this SDK, TLC configurations that check
them on small instances, and TLAPS proofs of what holds for every instance.
Paths below are relative to the repository.

## The system

The SDK is a client library. It has no server and few goroutines; what state it
keeps is in two places, the web socket client and the wallet.

| Part | Source | State | Operations | What makes it correct |
|---|---|---|---|---|
| Request table | `client/ws.go` | `reqMap`, one `ResCh` per request, `recvCh`, `actionCh`, `exitCh` | the calls of `DNAClient`, `onMessage`, `start`, `onAction`, heartbeats | an answer reaches its own caller and nobody else, a call whose request could be written returns, no goroutine of the client blocks on a caller, the table is cleaned |
| Connection | `client/ws.go`, `utils/websocket.go` | `WSClient.ws`, `addr`; per connection `status`, `conn`, `OnMessage` | `Connect`, `reconnect`, `Close`, `Send`, `doRecv`, `SetOn*` | a lost connection replaced, the one in use closed by `Close`, none forgotten but by dials that overlap, no message dropped of an open one |
| Subscriptions | `client/ws.go` | `subStatus`; the node's own view | `Subscribe*`, `Unsubscribe*`, `Add/DelContractFilter`, `reSubscribe` | client and node agree on what is subscribed |
| Accounts | `wallet.go`, `account.go` | `accounts`, `accAddressMap`, `accLabelMap`, `defAcc`, the fields of shared `AccountData` | add, delete, label, default, scheme, password, import, export | list and maps agree, one default account, labels unique |
| Wallet file | `wallet.go` | the file, `path~` | `Save`, `OpenWallet` | a finished Save is never lost, opening gives back what was saved |
| Identities | `wallet.go`, `identity.go` | `identities` and two maps, controllers and two maps | the same as accounts, plus controllers | the same |
| Client manager | `client/client.go` | three clients, a default, `qid` | every call, `WaitForGenerateBlock` | identifiers never repeat; waiting ends with the right verdict |
| Transactions | `dna_sdk.go` | a transaction's payer and signatures | `SignToTransaction`, `MultiSignToTransaction`, `ParsePayload` | every signature verifies against the final transaction, and its payload reads back as it was built |
| RPC, REST, decoding, contracts, mnemonics | `client/rpc.go`, `client/rest.go`, `utils/`, `native_contract.go`, `neovm_contract.go`, `oep4/`, `bip44/` | none to speak of | one request or one construction each | - |

How they interact: `ClientMgr` hands a call and a fresh `qid` to one of the
clients. The web socket client registers the request, writes to the connection
that `Connect` or `reconnect` installed, and waits; a reader goroutine per
connection feeds `recvCh`, one loop empties it and starts a goroutine per
message, which fills the request's `ResCh` or, for an event, `actionCh`. The
loop's timer starts `reconnect` and the heartbeats, each in a goroutine. The
wallet is used by application goroutines under one `RWMutex`; `Save` leaves the
lock before it marshals and writes.

Hard behaviours: late answers against timeouts, two requests under one
identifier, dials that race with each other and with `Close`, callbacks that
disappear while they are about to be called, a full channel behind a slow
application, shared pointers marshalled outside the lock, a temporary file
shared by two Saves, a stop in the middle of a Save. `PROJECT.json` lists every
one under "hazards", at its line.

## The modules

| Module | Models | Main correspondence |
|---|---|---|
| `WSRequests` | the request table | an action is one atomic section: what a goroutine does between two lock acquisitions or channel operations. `StartCall`, `AddReq`, `GetWs`, `Send`, `Unreg`, `Receive`, `Timeout` are `sendSyncWSRequest` and `sendAsyncWSRequest`; `OnMessage` and `DropMessage` the reader; `Dispatch`, `Malformed`, `StopLoop` the loop; `GetReq`, `PutRes`, `PutExit`, `DelReq` and `PutEvent`, `DropEvent` the goroutine of `onAction` |
| `WSRequestsProofs` | - | theorems about `WSRequests`, and its refinement of `Exchange` |
| `Exchange` | nothing; what the client promises of its calls | a call asks one question or two under a name, and returns a result only for answers that nobody else has taken |
| `WSExchange` | how `WSRequests` implements `Exchange` | a call is open from its start to its return; an answer is taken when it was put into a `ResCh` and is there no more |
| `WSConnection` | the connection | `Check`, `DialFails`, `Established`, `Set` are `Connect`; `GetOld`, `Unset`, `CloseOld`, `Unhook` `reconnect`; `Read`, `CheckHook`, `CallHook`, `ReaderCloses` `doRecv`; `CallClose`, `CloseGet`, `CloseWs` `Close`; `StartWrite`, `EndWrite` the time a `Send` is in `WriteMessage` with the socket's lock, for which every `WebSocketClient.Close` waits |
| `WSConnectionProofs` | - | theorems about `WSConnection`, and its refinement of `WSRequests`' environment |
| `Keystore` | nothing; what a wallet promises | an ordered list of addresses, a label each, one default |
| `Wallet` | the accounts in memory | one action per exported operation, each under the lock; the list, the maps and `defAcc` hold objects, labels and flags are fields of the objects, as in the code |
| `WalletProofs` | - | theorems about `Wallet`, and its refinement of `Keystore` |
| `Vault` | nothing; what saving promises | the wallet in memory and the one stored, if any; a Save stores the whole of the first at one moment, a start takes the whole of the second |
| `WalletFile` | Save and OpenWallet, over `Wallet` | `Save` is the read-locked copy, `MarshalKey` and `MarshalRest` what `json.Marshal` reads of an account, `FileExisted`, `Open`, `Write`, `WriteFails`, `Rename` the file operations of `WalletData.Save`; files are inodes, so that a rename under an open file does what it does |
| `WalletFileProofs` | - | theorems about `WalletFile`, over those of `Wallet`, and its refinement of `Vault` |
| `WSSubscription` | what the client believes is subscribed, what the node has been told | `Check`, `Change`, `Snapshot`, `Send`, `Receive`, `Refused`, `Timeout`, `TakeBack` are `AddContractFilter`, `DelContractFilter`, `Subscribe*`, `Unsubscribe*`; `StartReconnect`, `Dial` and the same steps `reconnect` and `reSubscribe` |
| `WSSubscriptionProofs` | - | theorems about `WSSubscription` |
| `Identities` | the identities and their controllers | one action per exported operation; `SaveAndOpen` is what `ToIdentityData` and `NewIdentityFromIdentityData` keep |
| `IdentitiesProofs` | - | theorems about `Identities` |
| `TxSign` | the payer and the signatures of a transaction | `Signed` and `MultiSigned` are what `SignToTransaction` and `MultiSignToTransaction` do to it; an application calls them as it likes, the SDK's own calls (`InvokeContract`, `InvokeOntId`, `TransferMulti`, `MultiSignCall`, ...) in their order |
| `WaitForBlock` | `WaitForGenerateBlock` | the first read, a read or a failure a second, the subtraction of 32-bit heights; each read goes through some client (`getClient`), and RPC makes its height of a count |
| `Payload` | the payload of a gas transfer and `ParsePayload` | `BuildNativeInvokeCode` makes it (external); `IgnoreOpCode`, `ReadAddress`, `GetValue`, `IsEnd` are the helpers of `dna_sdk.go`, `ReadState` a turn of its loop, `ParseTransfer` and `ParseTransferFrom` the two branches, and `ParsePayload` the tests of the payload's end before them |
| `Invocation` | `TxSign`, `WaitForBlock` and `Payload` together | an application sends a transaction, which a gas transfer gives a payload, and waits |
| `InvocationProofs` | - | theorems about `Invocation`: its signatures, its waiting, its payload |
| `ListFacts` | - | lemmas about lists (appending, taking out, flattening, their elements), counting by sets, and least and greatest elements, which the proofs share |
| `MC*` | - | instances for TLC |

`WSRequests` leaves the connection to its environment: connections are dialled,
installed, removed and lost at any moment. `WSConnection` is checked to
implement that environment (`ImplementsRequests`), so what is shown of the
requests holds over the real connection. `WSRequests` itself is checked to
implement `Exchange`, `Wallet` to implement `Keystore`, and `WalletFile`, which
extends `Wallet` and takes all of its operations, to implement `Vault`.
`Invocation` extends `TxSign`, `WaitForBlock` and `Payload`.

Every module carries mutated forms of some of its operators (each says so in
its comment): a plausible slip in the same code, under which the property it is
paired with in `PROJECT.json` fails.

## The runs

| Run | Checks | Bounds |
|---|---|---|
| `ws_requests` | `TypeOK`, `OwnAnswer`, `FirstReachable`, `DispatcherNeverBlocked`, `NothingLeftBehind`, `ImplementsExchange` | two calls (up to four requests), two connections, channels of one place, one random identifier, under which two requests of the client's own meet. Two calls meet every pairing of late answer, timeout and collision; a third adds no new kind of pair. Events are left to the next run |
| `ws_live` | `CallReturns`, `AnswersOvertakeEvents` | one call, two events, one connection: two events fill `actionCh` and hold one goroutine |
| `ws_block_hash` | `EveryReachable` fails | one call |
| `ws_connection` | `TypeOK`, `CloseReaches`, `OpenIsHooked`, `OnlyOverlapForgets`, `Recovers`, `ImplementsRequests` | one application thread that connects again and again, one reconnect goroutine, one Close, which overlap as they like; two connections: a lost one and its replacement, or two that overlapping dials leave open. The first one is written to and brings messages (`Traffic`), so that a reconnect and a Close may wait behind a write and a reader may meet the nil callback. With `MaxConns = 3` or a second reconnect TLC needs more time than a run has here; the theorems have no such bound |
| `ws_connect_twice` | `NeverReplaced` fails | the same |
| `ws_subscription` | `TypeOK`, `Agreement`, `FailureRestores` | two threads and the reconnection, one contract, one flag, three requests on the wire; connections without bound. The two kinds of topic are all there are, and two late requests can lie before the one that counts. The threads are symmetric |
| `wallet` | `TypeOK`, `ListMatchesMap`, `DefaultAgrees`, `LabelFindsAccount`, `ImplementsKeystore` | three addresses (a first, a middle and a last to delete), four objects, two of them for one address, one object of another scrypt strength, two labels, two schemes. The labels are symmetric |
| `wallet_file` | `FileTypeOK`, `Restored`, `Persisted`, `RoundTrip`, `OpensAgain`, `ImplementsVault` | two accounts, one label, two passwords, two schemes, three operations between stops, one goroutine that saves while no other operation runs; Saves, failures and stops without bound. The accounts are symmetric |
| `wallet_shared` | `OpensAgain` fails | the same, two goroutines that save, other operations during a Save |
| `identities` | `TypeOK`, `ListMatchesMap`, `DefaultAgrees`, `ControllersAgree`, `LabelFindsIdentity` | three identities, two of them with one ID, so that one may be added twice itself or in another object; at most three in the list at a time, two labels, three controllers, of which two share an ID and two a key, all offered to one identity and the first one to the others (`Offered`). The labels are symmetric, and so are the two objects of one ID |
| `invocation` | `TypeOK`, `CallsVerify`, `OnlyEarlyStale`, `CountedOnce`, `Confirmed`, `BodyReadsBack` | two accounts, a controller with a key of its own and one with an account's; as groups a pair of keys with three thresholds (one out of reach), one key listed twice, and one key alone; up to three accounts in a TransferMulti or MultiSign, none and repeated ones included, and two entries of Sigs an application makes; heights to 2 of a modulus of 4, the transaction sent at height 0, two seconds, one block or the default two; transfers and transferFroms of the amounts around every change of encoding (0, 1, 15, 16, 17, 200), two different states in one transfer, and lists of 15, 16 and 17 states, the last ones whose length is an opcode and the first whose is not; longer ones, to 127, are proved and not run, for TLC evaluates the loop of `ParsePayload` by recursion |
| `payload` | `PayloadReadsBack` fails | the same, with one account at most in a TransferMulti |

The runs that fail show disagreements between the code and what the repository
says of it; `PROJECT.json` quotes the line under "findings":

- `getCurrentBlockHash` sends two requests under one identifier, and the
  deletion after the first answer may hit the second request.
- `ParsePayload` compares the last 22 bytes of a payload with a text of 20 and
  refuses every payload.
- `Save` is safe against stops and errors only as long as nothing else happens
  at the same time: it marshals shared objects outside the lock.
- `Connect` refuses a client that is connected, but it asks before it dials: a
  Connect beside a `reconnect` (or another Connect) dials too, and replaces the
  connection the other has installed, which stays open.

Other behaviour a reader of the code may not expect is in the models without a
run of its own. `SetSigScheme` tests the wrong way round (`wallet.go:367`): it
stores only schemes that do not fit the key. Behind the test that refuses
everything, `getValue` takes the opcode of 16 for a length, so an amount of 16
would not be read, and `isEnd` reads one byte of a list's length of two, so a
list of 128 states or more would not be. `BodyReadsBack` excuses both; without
the first excuse the run fails, the second is out of its bounds.
`MultiSignTransferFrom` of `oep4.go:198` invokes `approve`. And, where no text
of the repository says otherwise: a Connect or `reconnect` that is dialling when
`Close` is called installs its connection afterwards, and it stays open; a write
that hangs keeps its call waiting, for there is no deadline and the timer of
`sendSyncWSRequest` starts after the write, and it keeps a Close, and the
`reconnect` that calls it, waiting as long; two Saves share `path~` (`Savers = {1, 2}` in `MCWalletFile.cfg`:
`Persisted` fails); `SetLabel` from one label to another keeps the old one in
`accLabelMap`, and so does `SetIdentityLabel`; `AddIdentity` does not register a
label, and does not look whether the identity is there: added again it is in the
list twice, and `DeleteIdentity` takes out one of the two and the entry of the
map; an identity takes its scrypt parameters from the wallet when it is opened
and its controllers get none, so that they decrypt with nil; `MultiSign` with an
account twice sends an entry below its threshold, and `TransferMulti` of empty
lists a transaction without payer and signature (`CallsVerify` speaks of
neither); subscriptions that overlap may be lost; a signature made before there is
a payer is void once there is one, and its key has no second try; a node that
answers a lower height ends `WaitForGenerateBlock` at once (without `~fellBack`,
`Confirmed` fails). `ImportAccounts` and `ExportAccounts` dereference nil for
every account they copy.

What a passing run assumes of its users is stated by a constant, `SaveAlone` (no
other operation during a Save), or by a condition of the property, with a
history variable behind it where it looks back:

- `Unshared` (`OwnAnswer`, `FirstReachable`, `NothingLeftBehind`): requests that
  drew the identifier of another request are excused; the client's own requests
  draw theirs at random. In the run they can only meet each other.
  `ImplementsExchange` excuses nothing: requests that met under an identifier may
  take each other's answers, but never one answer twice.
- `overlapped` (`OnlyOverlapForgets`): a connector that was at work while another
  was may leave an open connection behind; one that was not may not.
- `again`, `labelled` (`ListMatchesMap`, `LabelFindsIdentity`): what was added
  when it was there already, or with a label. That what `GetIdentityById` finds is
  in the list, the last of its ID, has no such condition.
- `EachOnce` (`CallsVerify`): a list of keys that names one twice.
- `fellBack` (`Confirmed`): a node that is behind has answered.

`WSRequests` and `WSConnection` never deadlock: the environment can always act,
or the process is dead (`Dead`: `reconnect` clears `OnMessage` under a reader
that has just tested it, which `OpenIsHooked` shows can only be the reader of a
connection already closed, or a second Close, of which the run has none, closes
`exitCh` again). `CHECK_DEADLOCK` is left on everywhere.

### Fairness

`WSRequests!Fairness`: weak fairness of every goroutine of the client (callers,
readers, loop, `onAction`); Go's scheduler runs every goroutine that can run,
and a request's timer fires. One step is left out: the write of a request (`Send`
at the point "send"), which may hang in the socket for ever. So `CallReturns`
says of a call that it returns or stays in its write. Nothing is asked of the
application, the node or the network.

`WSConnection!Fairness`: weak fairness of the goroutines, none of
the end of a write; weak fairness of the timer's `reconnect` as long as no
connection can bring a message (`Silent`: the ticker goes on for as long as the
loop lives, and only a message sets the clock back); and one assumption on the
environment, strong fairness of `Established` for `reconnect`: a node that is
dialled again and again answers at last. `Recovers` asks for the new connection
in `WSClient.ws`, and stops counting (`Exhausted`) when all `MaxConns` have been
established and lost, or when every reconnect goroutine the instance has waits
behind a write that hangs, where the client would start a further one.

## The proofs

Seven modules prove theorems about the seven modules that are run, with lemmas
they share in an eighth; every safety invariant and action property of the
passing runs is proved, and so are the four refinements. A theorem holds for every
value of the constants that the named `ASSUME`s of its module allow. Two
hypotheses beyond those are stated in the theorems that need them, all about
the wallet's file:

- `SaveAlone` (`WalletFile`), the constant explained above: without it
  `wallet_shared` shows the file that does not open;
- `OneSaver` (`WalletFileProofs`): one goroutine saves. Two Saves share `path~`,
  and one may rename what the other has just truncated.

`PersistedHolds` and `StaysWholeHolds` (a file that is whole stays so at every
step, which `ImplementsVault` has in it and no run checks apart) need `OneSaver`
and not `SaveAlone`; `RestoredHolds`, `RoundTripHolds`, `OpensAgainHolds` and
`VaultRefinement` need `SaveAlone` and no bound on the savers. The run has both,
so each theorem says more than the run.

### `WSRequestsProofs`

`TypeCorrect`, `OwnAnswerHolds`, `FirstReachableHolds`, `NeverBlocked` and
`NothingLeft`, for every number of calls, connections and events, every
capacity of the channels and every set of random identifiers. None but the
first is inductive: they speak of `ResCh` and `reqMap`, and what may be put
there depends on what goroutines already hold. The inductive invariant `IInv`
has one conjunct per reason:

- `IdInv`: `qid` only grows, calls that drew their identifier from it have
  different ones;
- `SentInv`: a message that has left its call belongs to a request that was
  sent; a later request than the call is at has not been sent;
- `QueueInv`: a channel holds a message once, and just while its phase says so;
- `TableInv`, `HeldInv`, `AnswerInv`: what is in the table, in a goroutine's
  hand and in a `ResCh` belongs to a request registered under the identifier
  it is found by;
- `UnsharedInv`: for a call whose identifier nobody else has drawn, where its
  requests and their answers are at each of its program points.

Each conjunct is preserved by a lemma of its own, one step per action;
`NextIInv` puts them together and `Invariance` is the temporal step.
`Refinement` (`ImplementsExchange`) uses `IInv` for the steps that take an
answer; all others stutter or start or end a call.

### `WSConnectionProofs`

No theorem assumes anything of who runs beside whom. `LooseInv` is the types, no
connection ahead of those established, and `UnhookAfterClose`, for
`OpenIsHooked` fails only if `reconnect` could drop `OnMessage` of a connection
it has not closed. From it follow `TypeCorrect`, `OpenIsHookedHolds` and
`Refinement` (`ImplementsRequests`): whatever Connects, reconnects and Closes
overlap, they do to the connection only what `WSRequests` allows for.

`OnlyOverlapForgetsHolds` is about a step, and needs to know what a connector
that nobody has overlapped has seen: `AloneInv` says that nobody else is at work,
that `WSClient.ws` is still nil when it dials and installs, and still the one it
took when it clears it. A reconnect that waits in Close for a write is not at
work, for it will touch nothing but its own connection.

`CloseReachesHolds` follows one connection, the one `WSClient.ws` had when
`exitCh` was closed, past reconnects that take it away and Connects that install
others. `HadInv` says that a connection never returns to `ws`, and how the hand
of the thread in Close stands to it at each program point.

### `WSSubscriptionProofs`

`TypeCorrect`, `AgreementHolds`, `FailureRestoresHolds`, for any topics,
threads and length of the wire. The properties speak of a call that has
returned; the invariant `HistoryInv` has to speak of one under way: `AloneInv`
says, for a call that has had no other beside it so far, that its request is
the last on the wire with just the status it wants, whatever late requests of
timed-out calls are ahead of it, and that an answer to it has emptied the wire.
`WireInv` (one request per waiting thread) makes an answer tell whose request
the node has taken.

### `WalletProofs`, `IdentitiesProofs`

The properties of the accounts are inductive together and only so: `Inv` is
`TypeOK`, `ListMatchesMap`, `DefaultAgrees` and `LabelFindsAccount`. A deletion
finds its account in the list because the map agrees with it, does not empty
`defAcc` because the flag agrees with it, and may drop the label's entry because
no other account has the label. `Refinement` (`ImplementsKeystore`) maps each
operation to the one abstract step it stands for.

For identities `Inv` needs two conjuncts more: `OwnEntries` (a controller is in
the maps under its own ID and key, or a deletion would miss it) and
`LabelsFound`, from which it follows that what Save would write opens. An
identity may be in the list more than once, so `ListMatchesMap` speaks of places:
`Matches` is its share for one ID, `FirstTakenOut` says where the others stand
after a deletion, which takes out the first, and `Origins` and `LastFound` that
`OpenWallet`, which fills the map in the list's order, ends with the last.

### `WalletFileProofs`

`Types` refines `FileTypeOK` by what a saver's text is at each point: complete
records, or a last one with only its key. `SomeUnused` counts inodes: each saver
has one open at most and the directory two, so one of `Cardinality(Savers) + 2`
is free whenever a file is created.

`Kept` (for `PersistedHolds`, `StaysWholeHolds`) says where the one saver
stands: it creates `path` only as long as there is none, writes to the empty file
it has opened, renames what it has written (`Placed`), and `path` and `path~`
are different files (`Apart`), so writing the second cannot hurt the first.

`Sound` (for the other three) has the wallet's `Inv`; `Copied`: what a saver has
marshalled so far is what the wallet holds; `AllGood`: every whole text, under
any name or none, is that of a consistent wallet (`Good`); `PathTilde`: what a
saver is about to rename has been written since the wallet last changed, though
perhaps by another saver; `FileOfWallet`: the file is not newer than the wallet,
and equal to it if as new. `GoodRecords` and `LoadGood` are the two directions:
the records of a consistent wallet are `Good`, and what `OpenWallet` makes of
`Good` records is consistent and has just these records.

`VaultRefinement` (`ImplementsVault`) stands on both invariants. `Becomes` says
what may be in the file after a step: what was there, the wallet in memory, or,
with several savers, nothing. Only three steps can change it: `Open` truncates
`path` (the saver creates it, or another one wrote it), `Write` completes it with
what was copied of the wallet (`Copied`), and `Rename` puts a text there that is
as new as the wallet (`PathTilde`). Every other step leaves the file alone, and
`OpenWallet` makes of the file a wallet with just its records (`OpeningVault`).
`Vault` has `OneSaver` as its `Exclusive`: for one saver it has no step that
loses a stored wallet, which is where `Kept` comes in.

### `InvocationProofs`

For any accounts, controllers, groups and heights. `TxInv` says of every entry
of `Sigs` whose keys have signed and over which payer; it gives `TypeCorrect`,
`OnlyEarlyStaleHolds` and `CountedOnceHolds`, whoever signs. `CallInv` follows
the SDK's own calls: either each signer has an entry of its own and the first
one pays (`ByEach`), or all share the entry of a group, and who has not signed
is still to (`ByGroup`): when nobody is left, every key of the list has signed, and
for a list that names each key once (`KeysOnce` counts them) that reaches every
threshold, which is `CallsVerifyHolds`. `WaitInv` keeps the heights in order,
`sentAt <= blockHeight <= height`, until an answer from a node that is behind,
so that the subtraction of unsigned heights does not wrap (`ConfirmedHolds`).

`BodyReadsBackHolds` is about the payload, for any addresses, any amounts but 16
and any number of states up to 127. It has no induction over the payload, which
the provers lack; its argument is on places instead. `At(c, p, s)` says that the
pieces `s` stand in the code `c` from place `p` on, and what `FlattenSeq` makes
of a list is known through its partial results (`Flattened`), so that
`CallStands` has every struct, the length of the list and the call at their
places. From there the lemmas follow the code: `StateRead` is one turn of the
loop over one struct (opcodes, two addresses, an amount, opcodes), with `IsEnd`
as it finds a further struct or the length behind it; `ListAt` says where each
turn begins and what has been read before it, and `ListTurns` that turn after
turn arrives there. The step from one turn to any number of them is by the least
turn that does not (`Counting`, of `Least`, over a set of naturals), which needs
no rule of induction. `LoopReads` ends the loop, `CallRead` reads the method and the
contract. A state takes six pieces at least (`StateLong`), so `MaxTurns` are
enough for the loop. `TransferReads` and `TransferFromReads` are the two branches.

### What is only model-checked

Everything under fairness (`CallReturns`, `AnswersOvertakeEvents`, `Recovers`):
liveness is beyond the provers. The runs that fail need no
proof: their counterexamples are behaviours.


## Abstractions

Messages are identified with the request they answer; JSON, texts and errors
are left out. Time is left out too: in `WSConnection` the clocks of the heartbeats
are not modelled and any tick may find the client silent. The writes under way on
a socket are one: it begins with the first and ends with the last of them. In `WSRequests` the node answers a request at most once, on the
connection it came by. Heartbeats and subscriptions are requests of the
client's own. In `Wallet` a call that returns an error changes nothing and is
no action; keys are identified with the password that opens them. In
`WalletFile` a text is whole, torn or mixed; a torn file is what a stop or an
error between truncation and write leaves; the loss of unsynchronised pages in
a power failure (the code does not call fsync) is left out, as are identities,
which `Identities` saves and opens in one step.
`version` and `saved` are history: they count operations and remember what the
last successful Save had.

In `WSSubscription` the status is a set of topics, a read of it for a request is
one step, and so is a change; the data races on its map are left out. The node
takes the requests of a connection in their order. That an answer reaches its
own caller is `WSRequests`' result and is taken from there. `last` and `before`
are history: the last call that no other overlapped, and the status it found.
In `Identities` the operations on controllers, which take no lock, happen one at
a time; the objects of an opened wallet are any of `Identity` with the saved IDs,
one for each place of the list; `Extra`, `Lock`, the scrypt parameters, the
passwords of controllers and the making of identifiers are left out. `labelled` and `again` are history.
`MaxIdentities` and `Offered` are bounds. In `TxSign`
a signature is its key and the payer that was hashed with it, everything else
that is hashed being fixed before. A list of keys has no order, for `PubKeysEqual`
sorts it, and so does the library for an address; `<<k, i>>` is the i-th `k` in it; `MaxFroms` and `MaxEntries` are
bounds. In `WSConnection` `overlapped` and `had` are history, and `Traffic` is a
bound: connections outside it are neither written to nor bring messages. In
`Payload` a payload is a sequence of pieces of
known width; numbers above 16 are pieces of 1, 2 or 4 bytes, since nothing that
is read depends on more. A length that ends inside a piece is an error, where the
code may read on; the only such length in a payload that is built is that of a
list of 128 states or more, as `isEnd` reads it. Lists of no states, which
cannot be read at all, are left out (`TransfersAssumption`). `sentAt` and `fellBack` in `Invocation` are
history.

Not modelled: the `SetOn*` setters, which take `lock.Lock` and then `RLock` of
the same mutex and so block at every call; RPC and REST but for the height (one
HTTP request per call, no shared state); decoding, the results of contracts and
the parameters of all but the gas transfers (pure); mnemonics; the callbacks of
the application, which `WebSocketClient.Close` calls with the socket's lock
held: one that sends on the socket waits for ever. No property speaks of the
order of events, which the goroutine per message gives up (`Dispatch`,
`PutEvent`), nor of `ImportAccounts`, whose every call panics.

## Plan

Done:

1. `WSRequests`, its runs and proofs; `Exchange` and `WSExchange`, and the proof
   of the refinement.
2. `Wallet` and `Keystore`, their runs, proofs and the refinement.
3. `WalletFile` for accounts, its runs and proofs; `Vault` and the proof of the
   refinement.
4. `WSConnection`, with the writes that hold a socket's lock, its run, proofs and
   the refinement of `WSRequests`' environment.
5. `WSSubscription`, its run and proofs.
6. `Identities`, its runs and proofs.
7. `TxSign`, `WaitForBlock`, `Payload` and `Invocation`, their runs and proofs.

Left:

- what can be said of two Saves at a time with operations beside them, where
  neither `SaveAlone` nor `OneSaver` holds (with `SaveAlone`, `VaultRefinement`
  has it: the file is lost or holds one of the wallets that were saved);
- identities in `WalletFile`, beside the accounts.
