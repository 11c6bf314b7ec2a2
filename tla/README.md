# Verification of Pepal

Pepal lets a *hub* sell documents to *users* under a penalty contract. Hub and
user put a contract with a deposit on a Hyperledger Fabric ledger; the hub then
transfers the document by an oblivious transfer (OT) in which the user's own
secret key selects one of two watermarked versions of every part. Whoever finds
the document later reads the key from its watermarks, can sign with it, and the
ledger takes the deposit from the user. Two programs implement the idea:
`src/Pepal_for_software` (chaincode in Go, REST gateway in JavaScript, OT in
Python over jars) and `src/Pepal_for_images` (one C++ program over PGM tiles).

All paths below are relative to `src/`; `S/` stands for `Pepal_for_software/`,
`I/` for `Pepal_for_images/`.

## 1. Inventory

| component | source | state it keeps | operations |
|---|---|---|---|
| APDL chaincode | `S/hyperledgerSetup/artifacts/src/github.com/apdlcc/apdlcc.go` | contract record under `ContractKey`, a balance per public key | `Init`, `download_request`, `penalty`, `refund`, `get_status` |
| Transaction gateway | `S/hyperledgerSetup/app/invoke-transaction.js` | per request: proposal responses, `log_info`, listeners with timers | `invokeChaincode`: propose, compare, send, wait, answer |
| User context | `S/hyperledgerSetup/app/helper.js` | one fabric client per organisation and *its* user context; a state store with a file per user; the certificate authority's users | `getRegisteredUsers`, `getAdminUser`, `getOrgAdmin` |
| REST routes | `S/hyperledgerSetup/app.js`, `app/query.js`, `app/install-chaincode.js` | tokens | argument checks, the look-up of the user, queries, installation |
| Channel set-up | `app/create-channel.js`, `join-channel.js`, `instantiate-chaincode.js`, `installChaincode.sh` | module variables `tx_id`, `eh`, `allEventhubs` that all requests share; hubs with listeners and timers | `createChannel`, `joinChannel`, `instantiateChaincode` |
| OT of software | `S/senderService/sofTran.py` (same file in `userService`) | per side a database and the number of the next handler | handlers 1 to 16 |
| Hub service | `S/senderService/senderService.py` | a thread, a socket and a 15 s timeout per download | `/download`, `beginOT`, `penalize` |
| User service | `S/userService/userService.py` | a listening socket, one connection per process | `getDocument` |
| Web UI | `S/webUI/js/app.js` | tokens and the list of blocks | parallel REST requests |
| NDA program for images | `I/NDA.cc`, `Sender.h`, `Recipient.h`, `crypto.h` | points, keys and tiles of sender and recipient in one process | `ot`, verification of the key, `detect_wm` |
| PGM split and join | `I/pgm_join_split/*.cc` | none | tiling and its inverse |
| memstream | `I/memstream/memstream.c` | position, size, capacity, contents | read, write, seek, close |
| Multi-party chaincode | `multiapdlcc.go` | as the chaincode | does not compile (line 129) |
| Signature tool | `S/util/ECDSASig/ECDSASig.go` | none | command line around `crypto/ecdsa` |

Vendored or generated and left aside altogether: Crypto++, the PBC wrapper, the
watermarking tools for images, SandMark's jars, `node_modules`, UI libraries, and
the copies under `old_files`, `fileChunks`, `crypto_files` and `*.org`.

### How they interact

    web UI / hub service --HTTP--> gateway --gRPC--> Fabric peers (chaincode), orderer
                                      ^                     |
                                      +---- commit events --+
    hub service (sofTran.py, one thread per download) --TCP--> user service (sofTran.py)

* Every POST becomes a transaction: simulated by each peer on the state that the
  peer has committed, compared by the gateway, ordered, validated against what
  it read, committed by each peer at its own pace, reported by events, under a
  30 s timer per peer. Requests share the node process and interleave between
  promise callbacks.
* The gateway's requests of one organisation share one fabric client, so one user
  context; the requests to set channels up share event hubs and a transaction id.
* The hub service asks the gateway for the contract before it serves a download;
  between its question and the transfer the ledger may move on.
* Every download is a thread and a connection of the hub; the user's process
  accepts one connection in its life. OT handlers alternate strictly, one
  message at a time; the hub gives up after 15 s, the user never does.

### What is hard, and what makes each component correct

* **Chaincode.** Any sequence of legal calls is allowed: a second
  `download_request` replaces a contract in force, penalties may repeat,
  balances are Go `int`s that wrap. *Correct:* the balances tell how far the
  contract went (`DepositAccounting`); nobody but the parties pays, and only by
  the steps that say so (`OnlyPartiesPay`); a penalty takes money
  (`PenaltyLowersBalance`).
* **Gateway.** Simulation happens on old states; two clients send the same
  penalty; answers, timers and commit events race; an acknowledgement is lost.
  *Correct:* all of it is the serial contract (`ImplementsContract`); a request
  is penalised once (`PenaltyOnce`); a failure answered to a client stays one
  (`FailureMeansNoEffect`); a client is answered (`EveryProposalAnswered`).
* **OT of software.** The keys of both sides must agree for one version of
  each file and differ for the other; the hub must not learn the bits; 512
  ciphertexts in four slices must be indexed alike; each file is emptied before it
  is filled, so that a crash leaves a torn one among files of two runs; a late
  answer meets an aborted session. *Correct:*
  `ImplementsDelivery`, `ChosenCiphertextsOpen`, `OtherVersionSealed`,
  `ChoiceBlinded`, `ServiceEnds`.
* **User context.** `getRegisteredUsers` (helper.js:210) clears a context that
  all requests of an organisation share, and sets it again in a later callback;
  in between others sign, disconnect hubs, clear it again. A registration may be
  refused or lost, the store's file of a user is empty while it is written, and
  the process may end in the middle. *Correct:* a proposal is never made in
  another caller's name unless a call failed (`NotInTheNameOfAnother`), and a caller is
  answered or the process has ended (`EveryCallerAnswered`).
* **Hub service.** The contract that `/download` saw may be gone when the hub
  connects; downloads queue for a process that accepts once, and penalties run
  beside them. *Correct:* nothing is sent without the contract seen
  (`TransferNeedsRequest`), a start of the user's service serves one download
  (`OneServedPerStart`), downloads are answered (`EveryDownloadAnswered`).
* **Channel set-up.** Blocks of other channels reach the listener of a join; names of
  peers that are not configured are dropped in silence (helper.js:110); the end of one join disconnects the hubs of all; the
  event, the orderer's answer and the timer of an instantiation race, and each
  disconnects whichever hub was opened last; two of them share a transaction id.
  *Correct:* `SuccessMeansJoined`, `EveryJoinEnds`, `EveryRequestAnswered`, and, which
  the code does not keep, `OwnTransactionCommitted`.
* **Web UI.** Answers arrive in any order at a page that has moved on.
  *Correct:* what is submitted goes out under the identity that the page shows
  (`SubmittedAsShown`); a refresh lists its blocks in order, and the last one lists
  them all (`RefreshListsAll`). That the list is a run of consecutive blocks
  (`BlocksInOrder`) holds of one refresh at a time only.
* **NDA for images, PGM.** The verification must accept exactly the bits of the
  recipient's key; the keys of the other versions must stay out of reach although
  the sender draws one exponent for all tiles; bits are numbered from one end in
  the numeral and from the other in the tiles; the size of the first file is used for the joined image. *Correct:*
  `VerificationMeansKey`, `OtherVersionSealed`, `WatermarkSpellsKey`,
  `ImageSpellsKey`.
* **memstream.** A growing buffer under arbitrary reads, writes and seeks, with a
  caller that keeps the pointer. *Correct:* what is written is a file
  (`ImplementsMemFile`), with room for a null byte and one behind the data
  (`NullByteAtEnd`), the caller's pointer is the buffer in use (`Published`), and, which
  the code does not keep, a read is of the bytes at the position (`ReadFromPosition`).

`PROJECT.json` lists the hazards one by one with their lines.

## 2. Plan

In order of importance; (1)-(7) are done.

1. `Apdlcc` (handlers as operators), `ApdlContract` (the serial contract: the
   abstract specification of the ledger). Theorems: type correctness, deposits,
   who pays, refunds.
2. `Gateway` over Fabric, an implementation of `ApdlContract`. Theorems: type
   correctness, the refinement, failures, penalties.
3. `Oblivious` (what the handlers compute), `SoftwareTransfer` (both services and
   the wire), an implementation of `Delivery`. Theorems: the algebra, the
   invariant of the conversation, the blinding of the choice, the refinement.
4. `Nda` (images: the OT, the verification of the key, split, transfer, join and
   detection) over `PgmTiles`, and its theorems.
5. `UserContext` (the shared client under concurrent requests) and its theorems;
   `Memstream`, an implementation of `MemFile`, and its theorems.
6. `SenderService` (the download gate over `ApdlContract`'s ledger) and `WebUI`,
   composed in `Clients`; `JoinChannel` and `InstantiateChaincode`, composed in
   `ChannelSetup`.
7. Theorems of these two compositions.
8. Left: the composition of `UserContext` with `Gateway`, where the lost context is
   a bare failure now and the process does not die; an abstract specification of a
   join that `JoinChannel` implements.

## 3. Modules

| module | models | state and actions |
|---|---|---|
| `Apdlcc` | apdlcc.go, as pure operators | `XAccepted` is the argument and status checks of handler X, `XContract` and `XBalances` what it puts; `verifySig` keeps the quirk that the last turn of its loop decides |
| `ApdlContract` | the chaincode, one handler at a time | `contract`, `balance`, `now`; `DownloadRequest`, `Penalty`, `Refund`, `Tick` |
| `Gateway` | `invokeChaincode` and the Fabric channel below it | `pc`, `call`, `answers`, `sent`, `events`, `logInfo` are the locals of the promise chain of each request; `states`, `chain`, `height`, `inflight` are Fabric (external) |
| `UserContext` | helper.js, the routes of app.js, query.js, install-chaincode.js, what of fabric-client they rely on | `context` is the client's `_userContext`, `stored`/`saving` the state store, `registered` the authority, `req[r]` a request with its place in the promise chain, what its look-up found and in whose name its proposal is |
| `JoinChannel` | create-channel.js, join-channel.js | `at[j]` a join, `hub`, `timer`, `resolved` its event hubs and promises; `channel`, `joined`, `sent` the orderer, the peers and the blocks on their way (external) |
| `InstantiateChaincode` | instantiate-chaincode.js | `tx_id` and `eh` are the module variables that all requests share; `deployId`, `hub`, `listens`, `timer` are a request's own; `ordered`, `valid`, `sent` are Fabric (external) |
| `SenderService` | senderService.py around the transfer | the ledger of `ApdlContract`, `past` the contracts an answer may show, `at[c]` a download or a penalty, `user` the user's service |
| `WebUI` | webUI/js/app.js | `current_token`, `credentials`, `registered_users`, `blockchain` as in the page; `click[c]` a submission or a refresh with the answers it waits for |
| `PairingGroup` | the group of the pairing library (external) | constants and their laws |
| `Oblivious` | the computations of sofTran.py | operators over a `PairingGroup` |
| `SoftwareTransfer` | the 16 handlers, `beginOT`, `getDocument` | `hub[s]` and `user` are the two databases, `senderState`/`receiverState` the handler numbers, `toReceiver`/`toSender` the messages, `process`, `backlog` and `conn` the user's process and its sockets, `rcvd` the files |
| `Delivery` | abstract: what a download does to the disk | `Begin`, `Open`, `Write`, `End`, `NewKey` |
| `PgmTiles` | split_pgm.cc and join_pgm.cc | `Tile`, `Canvas`, `Paste`, on pictures in row-major order |
| `Nda` | `main` of NDA.cc with Sender.h and Recipient.h | one process, `stage` is its program counter; `watermark`, `initA`, `initB_arr`, `Verification`, `ot` per tile, `finish`, `join_file` per file, `join_stops`, `join_end`, `detect_wm` |
| `Memstream` | memstream.c | `position`, `size`, `capacity`, `contents` are the fields; `block` numbers the allocations, `ptr` and `sizeloc` are what the caller sees, `got` what the last read handed out; `memstream_write`, `_read`, `_seek`, `_close` |
| `ChannelSetup` | the two parts of the set-up side by side | a step of `JoinChannel` or of `InstantiateChaincode`; they share no variable |
| `Clients` | the hub's service and the page side by side | a step of `SenderService` or of `WebUI` |
| `MemFile` | abstract: a file in memory, without the bytes that reads return | `Write`, `Read`, `Seek`, `Close`, `OutOfMemory` |
| `MC*` | instances for TLC | |
| `*Proofs` | theorems and proofs | |

Choices worth knowing:

* *Signatures* name their key and message; a key string that is no ECDSA key
  fails to parse, as in `verifySig`. Addresses and ports of parties are left out:
  no handler reads them.
* *int* is `-Half .. Half - 1` with `Wrap` after each operation, as Go wraps.
* *Time* is a number; a peer may read a clock behind the current one (`t \in 0 ..
  now` in `ApdlContract`), because simulation precedes ordering.
* *Fabric*: a transaction is invalid if something it read was written since it
  was simulated. The read sets hold the contract only: a handler that touches a
  balance touches the contract too.
* *The client's context*: what runs between two awaits is one step. The store
  keeps a file per user that is emptied and then written, so that it may be found
  incomplete; an installation whose context is gone is never answered, and
  `/users` is not either when the registrar cannot be enrolled, as in the code. A
  user with the registrar's name is left out.
* *Hubs and timers of a join*: the hub's connection may take longer (45 s) than the
  timer of the event (30 s), so `HubUp` may follow `TimerFires`. An error of
  creating or joining is thrown again and not caught: such a request gets no
  answer. In `InstantiateChaincode`, `Restart` stands also for a disconnect that
  throws outside any promise and ends the process.
* *The group* is any set with the laws of a commutative group with powers. (The
  image program calls the same library; there the exponent arithmetic is modulo
  the order of the group.) AES opens what it closed with the same key and gives
  `Garbage` otherwise; SHA-256 keeps points apart. A random value is any member of
  a set of draws.
* *The watermarking tools* for images are external: marking and detecting are
  perfect, a tile decrypted under the wrong key is no picture, and the mark of the
  whole image (Sender.h:198-202, NDA.cc:97-108) is part of the image that goes in. Files that `join`
  cannot open end it, at any file (`join_stops`), and `main` goes on.
* *Handlers 10, 12, 14* differ only in the part they store and are one action
  with a parameter. Handler 16 writes its files in a loop; to open a file, which
  empties it (`wb+`), is a step (`OpenFile`) and to write and close it is another
  (`WriteFile`). A file that was opened is `Torn` until it is closed: empty or a
  part of what is written, and so it stays after a crash.
* *In the page* a role with its entity is one entity, and a token is its holder.
* *memstream* is called with positions that are not negative, and its ints are
  wide enough for the capacities that occur. `memstream_read` copies from the
  beginning of the buffer, as the code does. A seek for which memory runs out fails
  the assert of line 137 (the position is beyond the capacity then) and ends the
  program: `seek_fails`.
* *Peers by name*: `names[j]` are the configured ones among those that a join names.
  The rest is dropped (helper.js:103-133); where nothing is left the library asks all
  peers of the channel (`TargetsOf`) and the join waits for no block.
* *The user context* is cleared by `setStateStore` itself (`_userContext = null`,
  fabric-client/lib/Client.js:1186), so by `getOrgAdmin` too, which calls it
  (helper.js:287): `OrgOpen`.

## 4. Runs

| run | states | what it shows |
|---|---|---|
| `ledger_callers` | the ledger: all sequences of calls, 3 keys (one that is no ECDSA key), two messages, deposits -1, 0, 3, 15, 16, an int of 5 bits; or 3 requests of 5 kinds by 2 users, one of them enrolled before, over one client, with one failing call or restart (336 000 states) | `DepositAccounting`, `OnlyPartiesPay`, `PenaltyLowersBalance`; `NotInTheNameOfAnother`, `EveryCallerAnswered` |
| `refund` | the ledger alone | **violated**: `ExpiredRequestIsRefundable` |
| `gateway` | 3 concurrent requests out of two downloads and a penalty, one peer | `PenaltyOnce`, `FailureMeansNoEffect`, `ImplementsContract` |
| `gateway_live` | 2 requests, 2 peers that lag, fail or fall silent, refund and get_status, a clock that moves | `EveryProposalAnswered` |
| `reply` | 2 requests, one peer | **violated**: `SuccessMeansCommitted` |
| `setup` | two joins that ask two peers between them, one of them perhaps for names that nobody has; or two requests to instantiate at once; 2 failures, one later block (170 000 states) | `SuccessMeansJoined`, `EveryJoinEnds`; `EveryRequestAnswered` |
| `own_tx` | the same | **violated**: `OwnTransactionCommitted` |
| `clients` | two downloads and a penalty over a moving ledger and a service started twice; or a page with 2 entities, 3 clicks of which two may be in progress at once, a chain of up to 3 blocks, an error (167 000 states) | `TransferNeedsRequest`, `OneServedPerStart`, `EveryDownloadAnswered`; `SubmittedAsShown`, `RefreshListsAll` |
| `blocks` | the same | **violated**: `BlocksInOrder` |
| `transfer` | 4 files, 2 ciphertexts in a slice, two 4-bit keys, a group of order 11; one transfer with 2 draws for each random vector and points that may coincide, or 2 downloads with one draw each; restarts, new keys and crashes in between | `ChosenCiphertextsOpen`, `OtherVersionSealed`, `ChoiceBlinded`, `ImplementsDelivery`, `ServiceEnds` |
| `images` | all keys in a group of order 13, 2 x 2 tiles, images of 2 x 2, 5 x 4 and 3 x 7 pixels, 3 exponents of the sender, 4 vectors of the recipient; or all sequences of calls over a buffer of 2 bytes that can double twice, up to 3 bytes a call, positions up to 9 (22 400 states) | `VerificationMeansKey`, `OtherVersionSealed`, `WatermarkSpellsKey`, `ImageSpellsKey`; `NullByteAtEnd`, `Published`, `ImplementsMemFile` |
| `images_read` | the stream alone matters | **violated**: `ReadFromPosition` |

*Why the bounds are enough.* 15 and 16 with a salary of 7 put a deposit on each
side of every overflow of a 5-bit int (the salary minus it is negative; minus it
twice wraps; it does not fit). Three requests are what a double penalty needs: a
download and two penalties. One peer suffices for conflicts, since the first
response alone carries the read set; two are needed for a request answered by
one peer's failure while the other committed. Two draws per
exponent suffice for the OT, whose rows are independent; four rows are the
smallest case in which both versions of one file share a slice, as they do with
256 files; the keys are 0, which chooses the same version of every file, and 10, which
alternates. Two sessions suffice for a late answer of an aborted download to meet
the next one, since the user serves one at a time. In `images`, 13 is the largest
prime below 2^4, so that keys use all four tiles and some sums of bits wrap
around; the images are one pixel a tile, and images with columns, rows and both
left over by the grid; a sender's exponent of 0, and recipient's exponents that
coincide or lie the sender's apart, are the cases that the properties except.
In `ledger_callers` a request can be disturbed between two of its awaits by the
clearing of a second and the setting of a third; one fault is a call that fails
in the middle of that, or a restart with a user's file half written. In `setup`
two joins are what it takes for one to close the other's hubs, two requests to
instantiate for one's transaction id to replace the other's; one block of another
channel, or of several transactions, is each kind of event that a listener
mistakes. Three clicks of the page are two submissions under two identities with a
refresh behind each, which may run at once, and one more behind them; the chain
grows meanwhile. The
memstream positions reach past the largest capacity, 8.

The two halves of `setup`, and of `clients`, share no variable. `ChannelSetup` and
`Clients` interleave them, and so do the theorems; the runs (`ApartSpec`) let one
half be at its beginning while the other goes on, which is every behaviour of each
half and fewer states. `ledger_callers` and `images` do the same with two modules
each that no code connects more closely: what a caller is named is nothing that the
chaincode looks at, and the image program only prints to the stream.

*Fairness*. In the gateway (`Gateway!Fairness`): a proposal is answered or fails
(gRPC deadline), a pending callback runs and a set timer fires (node's event
loop). Nothing is assumed of orderer, commits or events. In the set-up
(`JoinChannel`, `InstantiateChaincode`) it is the same: answers, blocks that were
sent, and timers, and of a peer that never commits nothing. In `UserContext`: the
event loop runs what can run, and calls to the authority, a peer or the disk
return, if only with an error. In the transfer (`SoftwareTransfer!FairSpec`): a
handler whose input has come finishes, a wait of the hub ends after 15 s
(`settimeout`, senderService.py:151), `accept` returns when a connection waits,
and a read of a closed connection ends the user's process. In `SenderService`:
calls to the gateway return and the transfer ends, for the same 15 s. Nothing is
assumed of the people who start services, downloads and requests. `EveryJoinEnds`
is said of behaviours in which no block of several transactions reaches a hub: such
a block stops the timer and settles nothing (join-channel.js:85-101).

*Deadlock* is not checked in the gateway, `ledger_callers`, `setup`, `clients` and
`images` runs and their violations: each request, click or stream is used once, and
the runs end when all are over; the image program is one that ends. In `refund` and
`transfer` it is.

### Findings

* `refund` (apdlcc.go:135) waits for the status `"download_request"`, while
  `download_request` writes `"download_requested"` (line 85): no deposit is ever
  refunded. Run `refund` shows it, theorem `NeverRefunded` for every instance.
* `invokeChaincode` answers `log_info` in both branches of its last callback
  (invoke-transaction.js:146-158): a transaction that timed out, was found invalid or
  never reached the orderer is answered 200, where the comment at lines 83-85
  promises a failure. Run `reply`.
* `memstream_read` copies from the start of the buffer and not from the file position
  (memstream.c:104), which lines 33-35 say can be changed. The NDA program does not
  read from the stream. Run `images_read`.
* A refresh of the page empties the list under a refresh that still runs, and both go
  on filling it (app.js:263, 253, 256), where the comment at 279-280 promises the
  right order. Run `blocks`.
* Two requests to instantiate share `tx_id`: one may wait for the other's transaction
  (instantiate-chaincode.js:89) and answer success though its own never commits, where
  the comment at 86-88 promises a failure. Run `own_tx`.

Met while modelling, kept in the models as the code has them, without a run of
their own:

* `/users` reports a caller enrolled although nobody was, when the look-up handed
  an error on as a string (helper.js:254-259).
* A caller whose registration the authority refuses or loses is given the registrar's
  context, and the invocation is proposed in the registrar's name (helper.js:218-247,
  invoke-transaction.js:50-53). A call that fails in the look-up leaves whichever
  context another request set. `NotInTheNameOfAnother` says that nothing else does.
* The proposal is made in the caller's name; the transaction that follows is signed
  with whatever context the shared client then has (invoke-transaction.js:125).
* Disconnecting a hub without a context throws outside any promise and ends the
  process (invoke-transaction.js:102).
* `get_status` in senderService.py looks neither at the contract's status nor at its
  expiry (line 80, against the comment at line 54), and `penalize` prints success for
  any payload (line 101).
* A join that fails by its timer leaves its hubs connected (join-channel.js:132, 35).
* A join that names no configured peer logs an error and goes on (helper.js:128): all
  peers of the channel are asked, no event is waited for, and success is reported on
  the first one's answer.
* The page's login with the placeholder keeps the token of the user before
  (app.js:46).
* `memstream_seek` does not look at the result of the growth (memstream.c:134); only
  the assert at its end notices a failure.

## 5. Proofs

Each theorem is checked by TLAPS for every value of the constants under the
assumptions named in the component's module. What these assume of the code:

* `Apdlcc`: an int is wide enough for the salary; the public key of an empty `Party`
  is no client's; a key that was never put is no number.
* `PairingGroup`: the laws of a commutative group with powers; in `Nda` also that the
  group has as many points as there are exponents and that exponents count modulo
  that order (`OrderAssumption`). G1 of a symmetric pairing is such a group, of prime
  order; that it is prime, and so that a point generates it, is used only where a
  property says `Generates`.
* `Nda`: there are as many tiles as the grid has places and the order does not exceed
  two to their number; a marked tile is no missing file (`NullAssumption`).
* `SenderService`: amounts and dates as for the contract; "listening" and "stopped"
  are no requests. `WebUI`: the placeholder is no user.

The modules:

* `AlgebraProofs`: laws of the group; the library's induction theorems cannot be
  instantiated here, so induction on numbers is done with sets: a set of numbers that
  is not empty has a least member (`Least`), and a set with 0 that is closed under
  successor below n holds 0 to n (`UpTo`). From it: powers of two, that a fold of a
  sum or a product over a function does not depend on the order of its choices
  (`AnyOrder`, `FoldUnique`), that it grows by one term (`SumUp`, `SumDown`,
  `ProductUp`), and that the binary digits of a number below 2^n add up to it
  (`DigitsSpell`). That 2^n is a number is taken from the library's cardinality of
  the set of subsets (`FS_SUBSET`), whose proof in the library leaves one lemma on
  powers of two unproved.
* `ApdlContractProofs`: `TypeCorrect`, `DepositsAccounted`, `OnlyPartiesPayThm`,
  `PenaltyLowersBalanceThm`, `NeverRefunded`, after lemmas about the handlers (types
  of what they put, `Wrap`, which statuses they accept and write). The invariant that
  carries them is `TypeOK` with `NeverExpired`, "the status is never one that refund
  writes": without it `DepositAccounting` is not preserved by a penalty.
* `GatewayProofs`: `TypeCorrect`, and `Implementation`: `Spec =>
  ImplementsContract`; the lemmas on handlers come from an instance of
  `ApdlContractProofs` on the tip of the ledger. The inductive invariant adds to
  `TypeOK`: `Responses` (each response that is not an error is the simulation of the
  request's call on the state of its version, at a clock reading not after now),
  `Progress` (what the place of a request in its promise chain says about its
  responses) and `OnlyAcceptedIsSent` (only a request whose responses are all 200 is
  in flight or in the chain). An ordered transaction is then one of: invalid or
  read-only, which stutters; a download request, which does not look at the state; a
  penalty that read the current version, on which its simulation was computed.
  `FailuresHaveNoEffect` follows from the invariant `Taken` (what is in
  flight or in the chain has been answered, or will be, with the 200 it got as a
  proposal); `PenalisedOnce` from `PenaltySettled` (a valid penalty leaves the
  contract penalised until a download request replaces it) together with
  `OrderEffect`: a valid penalty read the tip and found it not penalised.
* `SoftwareTransferProofs`: first the algebra, `TransferKeysAgree` (key of the hub for
  the chosen version = key of the user) and `OtherKeyDiffers` (the other key is
  another one, unless `A^a` is one); then the protocol as it runs. The invariant
  `IInv` is the conversation of the two databases: for each pair of handler numbers,
  what the hub's database holds (`HubHas`), what the user's holds of the hub's
  (`UserHas`), what the hub's holds of the user's (`HubKnows`), and what the message
  on its way is (`ToReceiver`, `ToSender`). It is kept for the accepted connection
  (`Connected`) and, with an empty database of the user, for those that wait
  (`Waiting`); the databases of sessions whose user has gone need `HubHas` and the
  type of their last input only (`Hub`). One lemma per handler (`AnswerN`, `ReplyN`)
  takes the conversation from one pair of numbers to the next. From it:
  `TypeCorrect`; `CiphertextsOpen`; `VersionsSealed`; `LayersComeOff` (handler 8 is
  left with the points that handler 3 drew); and `Implementation`: `Spec =>
  ImplementsDelivery`, since the four slices together are the hub's array
  (`Together`), entry `2i + bit` opens to the chosen version of file i (`Opening`),
  and the bits of the versions spell the key (`NumeralSpelled`, on which the
  refinement rests: the numeral is filled from its last digit, so that the sum runs
  downwards).
  `ChoiceStaysBlinded`: what comes back to the hub is, row by row, the chosen value
  times a layer that the user drew (`LayerBlinds`); hence no row, and no quotient of
  two rows, is one the hub offered, but where the layers are one or the same. That is
  what the equations of the code give; that the layers hide more rests on their being
  random, which no proof here speaks of.
* `NdaProofs`: `TypeCorrect`; `VerificationChecksKey`, since the product of the
  commitments to the powers of two is the commitment to the number that the bits
  spell; `OtherVersionsSealed`; `WatermarkIsKey` and `ImageIsKey`. The invariant `IInv`
  says what each stage has computed from the key and the image that the program began
  with: the tiles received so far are the chosen ones (`ChosenTile`), and after n files
  every pixel of the first n tiles is where it was in the input (`Joined`). That the
  next file disturbs none of them is the arithmetic of `TileAt`: a place of the joined
  image belongs to one tile, and `Tile` and `Paste` go there and back.
  The module also holds the theorems of the stream that the program brings along
  (`crypto.h` includes `memstream.h`): `StreamTypeCorrect`, `NullByteKept`,
  `BufferPublished`, and `StreamImplementation`: `StreamSpec => ImplementsMemFile`, which
  leaves out what a read hands out (that is wrong, see the findings). The
  invariant adds that the buffer behind the data is zero (`ClearBehind`): without it a
  seek past the end would show old bytes.
* `UserContextProofs`: `TypeCorrect`, `NoOtherName`. The invariant
  (`GoodReq`) speaks of each request alone: handing a user over and signing is one
  step, and what it hands over comes with the context of the same name (`Handed`),
  whatever the other requests did to the context before.
* `ChannelSetupProofs`. Instantiation: `TypeCorrect`. Joining: `JoinIInv` says that a hub
  belongs to a peer that the join names (`HubsNamed`), that a block of the channel has
  left only peers that have joined it, only such a block resolves a promise, and a good
  answer of the first target means that it joined (`PeersJoined`), and that a join which waits has a channel (`Created`). From it
  `PeersHaveJoined`, and `SetupTypeCorrect` for both.
* `ClientsProofs`. The service: the ledger keeps its types (by an instance of
  `ApdlContractProofs`), and every contract it ever held that names a user was requested
  by two keys (`PastRequested`); a download that has got as far as the connection has
  seen one of them (`Viewed`); and the downloads served, with the one that the service
  may be listening for, are no more than its starts (`Counted`). From it
  `OnlyRequestedIsSent` and `StartsAreCounted`. The page: it shows the credentials of
  the token it holds, or the placeholder (`Shows`), which gives `SubmissionsAreShown`;
  each refresh in progress has listed blocks below the one that it waits for only
  (`Below`), in ascending order (`Ascending`), and all of them if it is the last one
  to have emptied the list (`HasAll`), which gives `RefreshesListAll` for any number of
  refreshes at once.

Only model-checked: liveness under fairness (`EveryProposalAnswered`, `ServiceEnds`,
`EveryJoinEnds`, `EveryDownloadAnswered`, `EveryCallerAnswered` and
`EveryRequestAnswered`), which is
beyond TLAPS without ENABLED. Every invariant, action property and refinement that a
passing run checks is a theorem.

## 6. Not modelled

Listed with reasons in `PROJECT.json`: the hub's commands that watermark jars and
extract keys from them, which start SandMark and print what it says; the
watermarking tools for images (external); the multi-party chaincode (does not
compile); the signature tool (no state); the two testing functions of the user
service; the image program's unused proof of knowledge. Failing disks are left out
everywhere, and so are forms and layout of the page. Computational hardness (the
discrete logarithm, AES, SHA-256) is an assumption.

`Gateway` leaves out an invocation whose peer names are all unknown: the library then
asks every peer of the channel, no event hub is opened, and the caller is answered on
the orderer's word alone. It leaves out the end of the process in a timer as well
(invoke-transaction.js:102), which `UserContext` has.

Most lines of the repository are vendored: Crypto++, the watermarking tools of
others and JavaScript libraries. They are not what Pepal promises anything about,
and the models take from them what the program relies on.
