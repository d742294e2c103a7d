# A formal model of the NULS application for Ledger devices

TLA+ modules for `src/src/`, checked with TLC, with theorems checked by TLAPS.
Paths below are relative to `src/src/` unless they start with `doc/`.

## The system

The application runs on a device with two buttons and a small screen. A host
sends it commands (APDUs), each of which gets one reply. It gives out addresses,
signs transactions after the user has reviewed them on the screen, and signs
personal messages.

The program is one thread. Its only waiting point is `io_exchange`, a call of
the system library. While it waits there the library delivers the next command,
as the return value, or an event: a press of a button, which runs the callback
of the flow on the screen *inside* `io_exchange`, or the loss of the USB power,
which throws. There is no parallelism, but a callback and the handler of a
command share the channel and the context, and which of them comes first is up
to the user and the host.

| component | state | operations | interacts with |
|---|---|---|---|
| start and main loop (`main.c`) | `G_context`, `N_storage` (flash) | `main`, `app_main`, the CATCH clauses | everything: receives, dispatches, replies to exceptions |
| reply channel (`io.c`) | `G_io_state`, `G_output_len` | `io_recv_command`, `io_send_response` | handlers and callbacks call it; it calls `io_exchange` |
| dispatcher (`apdu/`) | none | `apdu_parser`, `apdu_dispatcher` | called by `app_main`, calls a handler |
| handlers (`handler/`) | `G_context`: request, session, hash, state | version, public key, `SIGN_TX`, `SIGN_NS` | parser, crypto, screens, channel |
| callbacks and replies (`ui/action`, `helper/`) | `G_context.state`, the signature | `validate_*`, `helper_send_response_*` | called from a flow, send on the channel |
| review screens (`ui/bagl_display.c`) | `current_state`, `step_flow`, title and text, the flow | open, `display_next_state`, page callbacks | read the parsed transaction |
| menu and settings (`ui/menu_bagl.c`) | the setting in flash | open, switch, leave, quit | shown again after every choice |
| transaction parser (`transaction/`) | `transaction_t`: a label and what has been kept, on four levels | `transaction_deserialize` and what it calls | called for each chunk with the rest of the last one |
| buffers, varints, paths (`common/buffer.c`, `varint.c`, `bip32.c`, `read.c`, `write.c`) | a `buffer_t` with its offset and `lack`; the pool of 400 bytes | seek, read, copy, skip, reserve | used by the handlers and the parser |
| numbers (`common/uint128.c`, `uint256.c`, `format.c`) | none | add, subtract, compare, divide, format | called by the parser (sums) and by the pages (amounts, the fee) |
| addresses (`address.c`, `common/base58.c`) | none | encode, decode | called by handlers and pages; throws |
| `crypto.c` | none | derive, sign, format a signature | called by the handlers and the callbacks |

What is hard about it:

* the reply channel has three states, and the same `io_send_response` stages a
  reply, sends it, or fails, depending on who got there first;
* a signing session spans many commands: what is signed (a running hash), what is
  parsed (labels that are resumed) and what is shown (fields kept by the parser)
  are three passes over the same chunks, and must be about the same bytes;
* the parser can be interrupted before any byte, with its rest compacted in a
  buffer, or with a field cut and its remaining length written back as a varint;
* a review is walked in both directions over steps that show nothing, with the
  position in three variables;
* exceptions unwind to the main loop and leave the screen as it was;
* limits: 300 bytes of `raw_tx`, 400 bytes of pool, five outputs; lengths of 64 bits
  that are added to offsets of 32; carries between words that are found by
  comparing; texts of 80 characters that are written without looking at the
  result.

What makes each component correct is listed with its module below; the hazards,
one by one and each at its line, are in `PROJECT.json`.

## Modules

    AppData ── ApduIo ── NulsApp ── MCNulsApp
       │                    │  └──── NulsAppProofs
       └── ApduExchange ────┘ (implemented by NulsApp)
    ReviewFlow ── ReviewFlowProofs
       └── PageList (implemented by ReviewFlow)
    TxGrammar ─┬─ TxParser ─┬─ TxParserProofs ── TxReviewProofs
               │     │      └─ MCTxParser
               │     └── TxVerdict (implemented by TxParser, assumed by NulsApp)
               └─ TxLayout (used by MCTxParser)
    Bytes ─┬─ Buffers ──────────┐
           ├─ Uint256 ─ Format ─┤
           │     └─ Uint256Proofs ─────────┐
           └─ Base58 ───────────┼─ Library ─┴─ FormatProofs ── Base58Proofs ── LibraryProofs
              CompactSignature ─┘      └────── MCLibrary

Definitions that a `mutants` entry of `PROJECT.json` names under `as` are slips:
the plausible wrong version of the definition that follows them. Nothing in the
specifications uses them; they are there to show that the properties would
notice.

### AppData, ApduIo, NulsApp: the application and its host

`AppData` has the commands, the replies and the digests. A transaction is a
sequence of *pieces*, a path that can be used is the key it derives, and a digest
is its algorithm with the sequence of pieces hashed, so that two digests are equal
exactly if the same pieces were hashed in the same order.

`ApduIo` has the two operations of `io.c` as functions on a channel record. The
two forms of `io_exchange` are the two *sites* the program can stand in: `sync`
(the staged reply has been sent, a command is awaited) and `async` (the reply is
still owed). `SendResponse` and `RecvCommand` are the `switch` statements.

`NulsApp` composes the rest. One step goes from rest to rest: from one return of
`io_exchange` to the next call of it. So the actions are

| action | code |
|---|---|
| `BadFrame`, `Refuse` | `app_main` with `apdu_parser`; `apdu_dispatcher` |
| `GetVersion`, `GetPublicKey` | the handlers with what they call |
| `BadPath`, `BadState` | the early returns of both signing handlers |
| `SignTxTooLong`, `SignTxMore`, `SignTxFail`, `SignTxDone` | `handler_sign_tx`, by its returns |
| `SignNsRefuse`, `SignNsMore`, `SignNsDone` | `handler_sign_ns`, by its returns, with the signature |
| `ApprovePubkey`, `RejectPubkey`, `DenyNotBlind`, `AcceptTx`, `RejectTx` | the callbacks, in the state of the channel they find |
| `PageThrows` | an address that does not fit, while its page is composed |
| `OpenSettings`, `CloseSettings`, `SwitchBlindSigning` | `menu_bagl.c` |
| `Launch`, `IoReset`, `Quit` | `main`, the exception of `io_event`, the Quit step |
| `Send`, `GiveUp` | the host |

Each handler ends in `Return`, which is `app_main` after the dispatcher: leave
(and let `main` start over, `Restart`) if the result is negative or
`io_recv_command` would fail, else come to rest in `io_exchange`.

The parser appears here by its verdict (`ParseStatus`): a parser that is
*aligned*, with everything hashed either consumed or unread in `raw_tx`, knows a
complete transaction from a beginning and from anything else. After an error the
bytes in `raw_tx` have been parsed before; then the model lets the parser say
anything (`scrambled`). That an aligned parser deserves this trust is the contract
`TxVerdict`, which `TxParser` is shown to implement.

The host is a part of the model. A *disciplined* host waits for the reply to each
command, starts a session with chunk 0 and continues it while the replies are
empty successes, which is how `tests/application_client` sends chunks. Three
`Liberties` lift its rules: `impatient` (it gives a command up and sends another),
`malformed` (defective commands, paths that fail), `disordered` (any chunk at any
time).

Properties:

* `ChannelOK`, any host: whenever the program stands in an `io_exchange`, the state
  of the channel is one that this exchange may be in: RECEIVED in the synchronous one,
  WAITING in the asynchronous one, READY in either once a callback has staged a reply.
  A reply that is staged and not sent waits in the synchronous one only.
* `DecisionAwaited`: a command that is not answered is one the user is being asked
  about, and the other way round.
* `BlindNeedsSetting`, any host: a review of a type that cannot be displayed is open
  only while the setting allows it, although the setting is read once.
* `SignedIsReviewed`: the signature given on a review is over the transaction that
  was parsed for it. `UnreviewedIsPersonal`: a signature without a review is over a
  message with the magic prefix and its true length.
* `ApprovedWasParsed`: a context is approved only after its transaction was parsed.
* `SettingKept`, any host: resets and restarts keep the setting.
* `ExchangeSpec`: the application implements `ApduExchange`.

`ApduExchange` is the contract with the host: a command gets one reply, never an
unasked one, the reply fits the command and what was sent in the session (a
signature is over exactly those chunks, in order, under the key of the path), and
every command is eventually answered or the connection goes.

### ReviewFlow and PageList: walking through a review

The six steps of a flow, of which two are delimiters that show nothing: entering
one runs `display_next_state`, which calls the page callback and moves on. The
variables are those of the code (`current_state`, `step_flow`, title and text as
`page`), the step of the flow, and `shown`, the pages that have been on the screen.
`step_flow` is an `int8_t`, and the division by two rounds as in C.

`PageList` is what the user should see: a title, pages 1 to `length`, accept and
reject. `PagesSpec` says that the flow implements it, with `Position` as the
refinement mapping. `InStep` is the invariant behind this, `PageIsCurrent` says
that going back composes the page again, `AllShown` that accept is behind all
pages, `AddressesShown` what that means for the outputs, `ReachesEnd` that no page
traps its reader.

### TxGrammar, TxLayout, TxParser and TxVerdict: the resumable parser

Every label of the `switch` statements is a value of `p.pc`; the nested
`stack_index` variables are folded into it, since each outer one stands at the
label that called the inner one. Bytes are their positions in the transaction, so a
byte that is lost, repeated or read as the wrong field shows. What the bytes say
(lengths, counts, the type, whether an asset is NULS) is in the layout of the
transaction, which belongs to its *shape*. The varint that `handler_sign_tx`
writes for the rest of a cut field is the only thing in `raw_tx` that is not from
the transaction, and is a negative number.

A chunk of any of the allowed sizes is appended (`Absorb`), the labels run
(`Parse`), and the end of the chunk is one of `LengthError` (compact the rest),
`ValueError` (write the varint) and `Finish`. Then comes the next chunk, or a new
session, with the pool as it is: `buffer_init` runs only once a type has been read.

The layouts are split in two. `TxGrammar` says what a transaction is: which field
stands behind which (`Follows`), what a field says (`Says`) and which bytes it has
(`Consists`). The bytes themselves are a parameter, of which `LayoutAssumption` asks
that they be a transaction of this grammar; the proofs know nothing else of them.
`TxLayout` puts the bytes together from a shape, with folds, for TLC, which evaluates
`LayoutAssumption` on every shape of the runs. The length of the data of a typed transaction
and that of the coin data, which the code reads and does not use, are always 0 there. The
address of an input, which is skipped, is 23 bytes there and of any length in the grammar.

The method's name and the address of an output may have any length up to the 40 bytes
reserved for them (`room`, in `ShapeAssumption`). The documentation calls both variable, and
the code compares neither with 40 (`deserialize.c` 130, 267 and 272, `tx_call_contract.c` 217
and 222). What it does to a longer one is outside the model: its end would lie in memory that
the next `buffer_malloc` clears and gives to another field, or behind the pool. Within that
bound `TypeOK` includes that every copy ends inside the memory of its field (`CopiesFit`), so that
copies can be a set of pieces, with no memory behind it: none of them meets
another field's. A name of exactly 40 bytes has no terminator in its memory; what a page
shows behind it is not modelled either.

Properties: `Aligned` (a label reads its own field, from its first byte or from the
first one missing), `InPlace` and `Captured` (what is kept for the screen is whole and
at its place), `SummedOnce` (each amount behind the fee is added once, in NULS
only), `AllOutputs` (no review lacks an output), and `VerdictSpec`, the refinement.

`TxVerdict` is the contract with `handler_sign_tx`. Its state is how much of a
transaction has been given, whether the last chunk announced more, and the phase; it
knows nothing of labels, of `raw_tx` or of the pool. Every chunk gets a verdict
(`WF(Conclude)`): acceptance at the end of the transaction and nowhere else, a request
for more before the end only, and refusal only if the transaction is incomplete at the last
chunk, too long, or not `Reviewable`: with some cuts it needs more of the pool or of
`raw_tx` than there is, which is computed from the transaction and the sizes (`PoolUse`: the
fields of a call, its arguments and the outputs; for `raw_tx`, an argument but its last byte
with the largest chunk behind it; such a
transaction may be refused with these cuts and accepted with others). The mapping is the identity: the phase, the
count and p2 of `TxParser` are the contract's.

### Library: the functions the components share

`Bytes`, `Buffers`, `Uint256`, `Format`, `Base58` and `CompactSignature` have no
variables. They translate the C functions into operators, one for one:

| module | code | what an operator gives |
|---|---|---|
| `Bytes` | `read.c`, `write.c` | a number from bytes in either order, and back |
| `Buffers` | `buffer.c`, `varint.c`, `bip32.c`, `transaction_deserialize_spc_field` and `_var_field` | the result, the buffer after the call and the value stored, as a record |
| `Uint256` | `uint128.c`, `uint256.c` | numbers of two halves of two words, words of `WordBits` bits that wrap |
| `Format` | `format.c`; `__conv_mount_1`, `__dsp_st_free_init` of `bagl_display.c` | a text, digit by digit, or a failure |
| `Base58` | `base58.c`, `address.c` | a text as places in the alphabet, or bytes |
| `CompactSignature` | `crypto_sign_message(true)` | the bytes of the reply |

A conversion from a number of 64 bits to a `size_t` is `SizeT`, so that a length that
wraps does; `buffer_can_read` and `buffer_seek_cur` each convert, as in the code.
What the code does not look at (the result of a seek behind a read, the digits of
`format_decimals` that did not fit) is not looked at here. Base 58 with its bases,
its estimate of the output's length and its limits is a parameter (a *code*), so
that the same operators run on a small base where every input can be tried, and
on that of the program.

`Library` is the state machine over them: `buffer` (a `buffer_t` with the memory
behind it), `pool` (`g_buffer`), `blocks` (what has been reserved, and what was
stored there) and `call`, the function that has just returned with its arguments and
its result. An action is a call of one function; `Return` ends it. Seeks, reads,
copies, varints, paths and fields come in any order, so a call starts where the
last one left the offset and `lack`. `Reserve` and `KeepValue` come in any order
with `InitPool`, which empties the pool without clearing it; `KeepValue` is how the
arguments of a contract call are kept: a length, memory with room for a terminator,
and the bytes. The functions without state are called with a fresh buffer.

Properties, of a call against a definition that does not follow the code:

* `SeekExact`: a seek goes where numbers that do not wrap say, or nowhere.
* `BytesTaken`: what is read or copied stands at the offset, an integer with all its
  bytes in their order; nothing is taken twice, and nothing in part. `VarFieldExact`: what is taken of a field and what
  lacks add up to its length; a length that is cut stays where it is.
* `VarintRoundTrip`: a varint is read as it was written, and in the fewest bytes.
* `PathRead`: a path is read from its bytes. A path that is cut short of a whole
  element is refused; one that ends inside its last element is not (`bip32.c:34`
  tests where an element starts, not where it ends), and the property says so.
* `PoolDisjoint`: reserved memory lies in the pool, and no byte is reserved twice.
  `KeptIntact`: a kept value is still what was read when the review shows it, with
  its terminator, whatever has been reserved and kept since.
* `SumsWrap`, `QuotientExact`: sums, differences, quotients and remainders are those
  of 256 bit numbers.
* `AmountShown`, `FeeShown`, `DigitsShown`: a text is worth the number
  it stands for, fits its string, and ends in no zero behind the point; there is a
  text whenever there is room. For the fee, as long as the sums stay below 2^256
  and the outputs are not more than the inputs.
* `Base58RoundTrip`: decoding undoes encoding. `AddressShown`: the text of an address
  decodes to it and its check byte, leaves nothing of the last text behind it, and
  is the documented one.
* `Compact`: numbers that fill their field come out at their places, with a leading
  zero in neither, one or both. `SValueCopied`, that s is sent whole, fails for a
  short r.

Met on the way, and stated with the properties where they are about a call:

* `format_decimals` would read behind an empty source; every caller hands it at
  least one digit.
* `format_u64` with room for one character writes its terminator behind it
  (`format.c:71` tests only from the second digit on); no caller has so short a
  string.
* The text of an address is 32 characters for a chain whose low byte is 1 to 9. With
  11 and above (and 10 with great bytes behind it) it does not fit and the page
  throws, which `NulsApp` has as `Unshowable`; with 0 it is shorter.
* `__conv_mount_1` gives `format_decimals` the length of the whole string for the part
  behind the unit. Amounts up to `TextLen - UnitLen - 2` digits fit all the same.

## Runs

| run | instance | shows |
|---|---|---|
| `app_protocol` | 2 keys, 3 pieces, transactions `<<a, b>>` and `<<c>>` (blind), messages up to 2, disciplined host | what a disciplined host may rely on, and the refinement with its liveness |
| `app_any_host` | 1 key, 1 piece, one transaction that is blind and cannot be displayed, all liberties | what holds whatever the host does: types, channel, settings |
| `app_bad_path` | disciplined but for bad paths | *violation*: a failing path leaves its command unanswered |
| `app_stale_review` | disciplined, an address that cannot be displayed | *violation*: a review that survives an exception is accepted in the next session |
| `review` | up to 5 outputs, every flow | the review screens, and that they implement `PageList` |
| `review_reopened` | the same, with interruptions | what holds when `current_state` is left over |
| `review_amounts` | up to 2 outputs | *violation*: an output's amount is not shown |
| `review_interrupted` | up to 2 outputs, with interruptions | *violation*: a page of no output is shown |
| `parser` | nine shapes, fields scaled down, chunks of 4, 5, 7, 11 and the rest; five shapes at the limits with the program's sizes, chunks of 45, 150, 255 and the rest | all properties of the parser |
| `parser_three_pieces` | the program's sizes, a transfer in chunks of 10 | *violation*: an address in three pieces is kept wrong |
| `library` | see below | all properties of the shared functions |
| `library_short_signature` | the same | *violation*: s is cut off after a short r |

Bounds and why they are enough:

* `MaxPieces` bounds the pieces of a session. Two cover a session of two chunks,
  a beginning, a complete transaction and one piece too many in one transaction or
  the other; with a disciplined host a third chunk can only follow a beginning.
* `MaxLen` 2 covers a message that is shorter, as long and longer than announced. A first
  chunk that ends inside the announced length is the command with `len` 0: `buffer_read_u32`
  sets it, and its result is ignored (`sign_ns.c:66`).
* Two transactions, one a single piece and one of two, such that a beginning, an
  end and an error all occur, one of each displayability.
* `MaxOutputs` is `MAX_COIN_LEN`, the bound of the code. `MaxBack` only stops the
  model of `step_flow` running down below page 0 after an interruption; in
  uninterrupted reviews it is never reached.
* `parser` scales fields down to one to four bytes, with output addresses of 0 to 4
  and names of 2 to 4 in memory of 4, and the threshold of long
  varints at 2, so that varints of both widths, cuts inside a varint and cuts
  inside each field occur with every chunk. The pool and `raw_tx` are scaled with
  them, so that both limits are met: `Crowd` exhausts the pool by its outputs,
  `LongToken` by an argument or `raw_tx`, depending on the cuts. No chunk is smaller
  than the longest address, so that a field is cut at most once: a field in three
  pieces is copied to wrong places (`address_len` is then the length of the middle one,
  `deserialize.c` 126 and 272), which `parser_three_pieces` shows; the client's
  chunks of 255 bytes never cut so.
* The other shapes of `parser` use the constants of the code at its limits: an address
  fills its 40 bytes, five
  outputs fit the pool and six do not, an argument of 46 bytes fits `raw_tx` with any
  chunk and one of 47 may not.
* `library`: a byte has eight values, of which the upper three begin a longer varint
  as 0xFD to 0xFF do, and a `size_t` 4096, so that lengths of 5 and 9 bytes wrap as
  they do with 256 and 2^32, by exactly the modulus, by one less and by more. The
  data are fields of every width of length, whole and cut, the offsets the ends of
  data and pool and the top of a `size_t`. `MaxPath` 2 instead of 10 leaves an empty
  path, allowed ones and one too long. Two blocks (`MaxBlocks`) are needed for one to
  damage another. Words have 4 bits, with operands made of 0, 1, 8 and 15: all
  carries and borrows between words and halves occur. Strings have room for 7
  characters where the code's have 80, which is the digits of the greatest number
  and two more in both (5 + 2 and 78 + 2); decimals are below, at and above the
  number of digits. The small base 58 has two bases, 5 and 3, and all inputs up to
  four digits; the real one has a few long inputs, addresses with every low byte of
  a chain from 0 to 12, and the address of the documentation.
* Signatures have numbers of 3 digits in base 4 instead of 32 in base 256. The code tells
  numbers apart by the first digit's upper bit and by their length, of which the
  longest and two shorter ones remain.

Deadlock is checked in every run.

Fairness: the application handles a command it has been sent (`WF(Handle)`: the
loop of `app_main`), the user answers the question on the screen (`WF(Decide)`: the
application cannot do anything about a user who does not, and says so by owing the
reply); for `ReachesEnd` the user keeps going forwards (`WF(Right)`); the parser
takes its next step (`WF(Parse)`: a loop of the program). Nothing makes a host
send anything, or the system reset.

## Findings

The six violations above are entries of `findings` in `PROJECT.json`, each with the
line of the code and the line of the documentation or comment it disagrees with.

## What is proved

`NulsAppProofs`, for every set of keys, pieces and transactions, every bound, and
every host (the liberties are not restricted):

* `TypeCorrect`: `Spec => []TypeOK`
* `ChannelCorrect`: `Spec => []ChannelOK`
* `BlindSigningIsAllowed`: `Spec => []BlindNeedsSetting`
* `SettingIsKept`: `Spec => SettingKept`

The first two share an inductive invariant, `ChannelInv`: types, `ChannelOK`, and that
while a flow that asks for a decision is on the screen the program stands in the
synchronous `io_exchange`, or in the asynchronous one with the reply still owed
(`Rested`). `ChannelOK` alone is not inductive: a callback that ran after its reply had
been sent would stage one where none is sent. Each handler is reduced to
`Return` by a lemma of its own, and `Return` is treated once. The other two theorems
are inductive as they stand. Assumed are the constants' `DataAssumption`,
`AbsenceAssumption` and `HostAssumption`, which TLC evaluates in every run of
`MCNulsApp`.

`NulsAppProofs`, in its second part, for every host that keeps to the protocol and when every address can
be displayed (`Disciplined`: no `Liberties`, nothing `Unshowable`), for every set of
keys, pieces and transactions, and for sessions of any number of chunks:

* `EveryCommandIsAwaited`: `Spec => []DecisionAwaited`
* `SignaturesAreReviewed`: `Spec => SignedIsReviewed`
* `UnreviewedSignaturesArePersonal`: `Spec => UnreviewedIsPersonal`
* `ApprovalsFollowParsing`: `Spec => ApprovedWasParsed`
* `RepliesFit`: `Spec => Exchange!Init /\ [][Exchange!Next]_exchange`, the safety part of
  `ExchangeSpec`

The assumption cannot be dropped: `app_bad_path` and `app_stale_review` are the
counterexamples with a path that fails and with an address that does not fit.

The inductive invariant `ProtocolInv` adds to `ChannelInv` what the three passes over a
session have in common. `Quiet` and `DecisionAwaited` say where the program rests and
that a reply is owed exactly while the user is asked. `Arrived` says of a chunk that
is in the inbox, and `Continued` of a session the host may go on with, that the
context belongs to that session and has hashed what the host sent (`InSession`), with
the parser aligned or the remaining length right. `Asked` says that the screen is about
the owed command, and a review about exactly the pieces sent, with their digest
and the key of their path in the context. Without `Continued`, nothing would relate
the second chunk to the context the first one left. Each handler ends in
`AnswerKeeps` or `ShowKeeps`, each callback in `CallbackKeeps`, and `ProtocolSteps`
collects them.

`ReviewFlowProofs`, for reviews that end by a choice (`~Interruptible`) and every
number of outputs up to 60, far above the code's five and as far as an `int8_t` goes:

* `StepsAgree`: `Spec => []InStep`
* `PagesAllShown`: `Spec => []AllShown`
* `ReviewTypes`: `Spec => []TypeOK`
* `PageOnScreen`: `Spec => []PageIsCurrent`
* `EveryAddressShown`: `Spec => []AddressesShown`
* `ReviewIsPageList`: `Spec => PagesSpec`

by the invariant `FlowInv`: `InStep` with the ranges of the variables and, which makes
`AllShown` inductive, that all pages up to the current one have been shown, and all of
them once the review has come past the last. `TypeOK` holds because `step_flow` never
leaves 0 to twice the number of pages, so its eight bits never wrap.

`Uint256Proofs`, for words of every width (`WordAssumption`: at least one bit, and
`WordBase` is its power):

* `Sum256`, `Difference256`: `Add256` and `Sub256` are the sum and difference modulo
  `WordBase^4`, with one carry or borrow
* `Compare256`: `Gt256` and `Gte256` order numbers by their values
* `Quotient256`: `Divmod256` computes quotient and remainder, for every divisor but zero

The first three go from the lemma about one word (a sum that wraps is smaller than its
terms, one that does not is not), to two words, to two halves. The division rests on what its steps
do: a shift to the left by `n` is a product by `2^n` of what is not shifted out, one to the right a
quotient (`HalvesShifted`, once for words and once for halves); `CountBits` is the number of bits
(`Bits256Is`), so that the divisor, moved by the difference, loses no bit (`StartIs`); a union
of bits is the sum where none is common (`Or256Is`), as the new bit of the quotient is
below all bits it has (`PlacesDisjoint`). The invariant of the loop is `Dividing`: with the divisor
moved by `j` places, the dividend is the quotient so far times the divisor plus what is left, which is
less than twice the divisor moved. That the recursive function by which the model writes a loop
exists at all, on states where the loop does not end too, is `LoopExists`.

`LibraryProofs`, for every content of buffer and pool that is at least two bytes
shorter than a `size_t` counts, numbers of 64 bits, divisors other than zero, digits, amounts of four words
and decimals that leave the strings room for a zero, the point and the terminator (`LibraryAssumption`;
the code has 32 bytes, 0 to 18 decimals and strings of 80), for strings with
room for every number of 256 bits (`FormatAssumption`: less than 78 digits, of 80 characters),
and for every argument:

* `LibraryTypes`: `Spec => []TypeOK`
* `SeeksExact`: `Spec => []SeekExact`
* `BytesAreTaken`: `Spec => []BytesTaken`
* `FieldsExact`: `Spec => []VarFieldExact`
* `VarintsRoundTrip`: `Spec => []VarintRoundTrip`
* `PathsRead`: `Spec => []PathRead`
* `BlocksDisjoint`: `Spec => []PoolDisjoint`
* `ValuesIntact`: `Spec => []KeptIntact`
* `SumsAreRight`: `Spec => []SumsWrap`
* `QuotientsAreExact`: `Spec => []QuotientExact`
* `AmountsAreShown`: `Spec => []AmountShown`
* `FeesAreShown`: `Spec => []FeeShown`
* `DigitsAreShown`: `Spec => []DigitsShown`
* `Base58RoundTrips`: `Spec => []Base58RoundTrip`
* `SignatureCompact`: `Spec => []Compact`
* `AddressesAreShown`: `Spec => []AddressDecodes`, and `DocumentedTexts => (Spec => []AddressShown)`

The inductive invariant `LibraryInv` says that the buffer is well-formed (`Good`:
the offset is within the data, the data within the memory), and of the pool
(`PoolInv`) that it is well-formed, that the blocks are disjoint and below its
offset, and `Kept`: a block that holds a value is longer than it by one, and its bytes
stand there with a zero behind them. `KeptIntact` alone is not inductive: it does
not say that the value lies within its own block, so the next write might be into it.
The length of a value comes from a varint of 64 bits and 1 is added before it is
converted; the lemma `SizeTNext` shows that the memory has room for the terminator
unless the length itself is the greatest `size_t`, which no data is long enough
for.

The properties of a call follow from `LibraryInv` in the state before it. Those
about numbers rest on digits: the digits of a number below `base^n` are its bytes
(`ByteDigits`: of what is read, each digit is the byte it was read from), and a number
is what its digits say (`WrittenIsRead`: what is written and read again is the
number). Both come down to dividing twice (`DivTwice`) and to powers that are positive and
grow. `Power` is a recursive function over the natural numbers, about which the prover
knows nothing; `Uint256Proofs` derives what is needed, with sets and functions only:
every inhabited set of naturals has a least one (`LeastNumber`), so a set with 0 and
with the successor of each member is all of them (`Induction`), so a recursive
definition has exactly one function that satisfies it (`StepsExist`, `StepsUnique`,
`Recursion`), and `Power` is it (`Powers`).

`FormatProofs` has the lemmas about texts that the three theorems about what is shown come down to.
What a text shows is defined by a run over its digits, from the left; `RunsAgree` says that
two runs with the same start and the same steps are the same, which is how a text is
compared with a part of it or with two texts joined (`PlainJoined`).
`tostring256` and `format_u64` make the last digit first: the invariant of their loops is
`WrittenSoFar`, what is left times `10^k` plus what the `k` digits out so far show is the number; for
`tostring256` the step is `Quotient256` by 10, and the loop ends because the quotient is
smaller (`ToString256Is`; `FormatU64Is`, which also says that a string is found too short
if and only if the number has too many digits). `format_decimals` moves no digit:
`FormatDecimalsIs` compares what is in front of the point and behind it with the source
(`WithFractionIs`), the zeros that go are worth nothing (`WithoutZerosIs`), and the last character is
then no zero. An amount is read byte by byte into words (`WordOfAmount`, `AmountRead`), and the
sums of the parser are those of the numbers until one exceeds 256 bits (`SumIs`).

`Base58Proofs` shows of `base58_encode` and `base58_decode` that they keep the number and
count its zeros, in every code between two bases, the smaller one the second,
in which the longest number fits the buffers (`Roomy`). A byte of the encoder is one pass over the digits: what
the pass leaves, with the carry in front, is the old number times the first base
and the byte (`CarriedSum`), and where the carry ends early, nothing but zeros is in front
(`AddByteIs`). That the carry always ends within the buffer rests on the room: behind `k`
bytes the number is below `from^k`, so its digits fit `Size` of `k`, and one byte more has room for one digit more (`RoomGrows`,
`HoldsNext`). A digit of the decoder is a division of the number in place (`DivideValue`), which
makes it one digit of the second base shorter, so that the loop ends; its invariant is `Decoding`, what is left times `from^k` plus what
the `k` digits out so far show is the number. Both directions then have one result, because a number and
its zeros have only one text (`TextUnique`). That the program's own code is such a code,
with 138 digits for 100 bytes, is `RealIsRoomy`: `256^8 <= 58^11` and `256^30 <= 58^41`.
An address of 23 bytes (`LibraryAssumption`) whose first one is 1 to 9 has, with its check byte
(`XorIs`), a text of 32 characters, neither more nor fewer (`AddressTextIs`): `58^31 <= 256^23` and
`10 * 256^23 <= 58^32` (`AddressPowers`). So `nuls_dispaly_address_to_encoded_base58` never
fails for it and never leaves a character of an older text, whatever the other bytes are
(`AddressDecodes`). The documented texts, of `AddressShown`, are finitely many facts about
constants (`DocumentedTexts`), which TLC evaluates.

`TxParserProofs` and `TxReviewProofs`, for every set of
transactions whose names and addresses fit their 40 bytes (`ShapeAssumption`, `LayoutAssumption`), every scale of widths and limits
(`ScaleAssumption`) and chunks of every size, the order of a chunk's end, a failure and a new
session included:

* `ParserTypes`: `Spec => []TypeOK`, with the limits of `raw_tx`, of the pool and of the memory
  that a name or an address is copied to, into however many pieces it is cut
* `ParserAligned`: `Spec => []Aligned`
* `ParserOrder`: `Spec => Order!Init /\ [][Order!Next]_(Order!session)`, where `Order` is
  `TxVerdict` with a transaction that may always lack memory: the review opens at the
  end of the transaction and nowhere else, more is asked for before it only
* `ParserCauses`: `Spec => [][ForCause]_vars`, when a transaction is refused: it is
  incomplete at its last chunk, too long, out of memory at this step, or has an argument with several values
  where one is allowed
* `ParserVerdict`: `Spec => Contract!Init /\ [][Contract!Next]_(Contract!session)`, where
  `Contract` is `TxVerdict` as it is: also, a transaction for which `Reviewable` says there is
  memory is refused only if it is incomplete at its last chunk or too long. With the fairness
  of `Conclude` this is `VerdictSpec`
* `ParserSums`: `Spec => []SummedOnce`
* `ParserOutputs`: `Spec => []AllOutputs`
* `ParserPlaces`: `CutOnce => (Spec => []InPlace)`
* `ParserCaptures`: `CutOnce => (Spec => []Captured)`

`ScaleAssumption` has the facts about sizes that matter. Memory for one output more
than `MAX_COIN_LEN` does not fit the pool (6 times 72 bytes, of 400): without it the cap on
`to_len` would hide outputs. And `raw_tx` has room for a whole chunk (255 bytes) behind
what is kept between chunks, three bytes of a length or a field of fixed size but its last
byte (31 of 32, of 300): without it `handler_sign_tx` would refuse chunks of any transaction. `CutOnce` says that every chunk but the last one has room for an
address and for the method name, so that neither is cut twice. It cannot be dropped:
`parser_three_pieces` is the counterexample; TLC evaluates the same theorems' properties
in `parser`, whose chunks satisfy it.

The proofs go in four layers, the first two in `TxParserProofs`.

* What a step changes: a lemma for each action gives its guard and
  the new value of every field, and `TypeInv` follows.
* Where the parser stands: `PositionInv` names a position `st` of the
  transaction at which the field of the current label starts (`Standing`), and relates `raw_tx` to it: it
  holds the rest of what was given, from the field's first byte; or, for a body that
  was cut, from the first byte that is missing, behind the varint that was written
  for it. `Aware` says that the parser's counters are those of the bytes it has
  read: how many coins, which argument, how many of its values. `Aligned` does not relate
  the label to the counters, nor `raw_tx` to what has been given, so it is not
  inductive. The invariant meets `LayoutAssumption` in each step: the field behind the
  one that has been read is what the next label reads.
* What has been kept, in `TxReviewProofs`: `SumInv` says that the sum has the amounts of the coins
  come past so far, `PoolInv` that each output come to has its memory and what it has
  of the pool (which makes one output too many impossible), `LensInv` that
  `address_len` and what is missing of the field are together no more than its length
  (so that no copy leaves its memory), `CutInv` that with `CutOnce` they are exactly that,
  so that `address_len` is how much has been copied, and `CoverInv` that all
  fields behind the parser have been kept whole.
* What there is memory for, in `TxReviewProofs`: `MemoryInv` says that the pool holds no more than
  the call's fields, the arguments and the outputs the parser has come past take in
  `PoolUse` (`CallUse` and `CoinUse`, one bound for each label), and that between chunks
  `raw_tx` has less than a length, a field of fixed size or an argument (`Waits`). So no
  step lacks memory that `Reviewable` counted (`MemorySuffices`, `ChunkFits`). This
  holds in the sessions behind a failed one too, which start with a pool that is not empty:
  the first field empties it before anything is reserved. `PoolUse` sums up the arguments by a
  recursive function; that it has one value for each number of arguments is shown with
  sets of numbers, as for `Power` (`SumsExist`, `SumsGrow`).

Only model-checked:

* liveness (`ReachesEnd`, the fairness of `ExchangeSpec` and of `VerdictSpec`), which the
  prover has no rules for;
* of the library: that base58 makes of the documented addresses the documented texts, which are
  constants that only evaluation compares.

## What is not modelled

* Cryptography, beyond deriving and signing that may fail and the format of
  signatures; the hash an address starts from.
* The USB, BLE and display libraries; wording and layout of the screens.
* Functions that nothing the program calls reaches: `format_i64`, `format_fpu64`,
  `format_hex`; `bip32_path_format`; `mul128`, `mul256`, `divmod128`, `tostring128` and the
  signed texts of numbers; `write_u32_be`, `write_u64_be`; the serialisation stub
  (`serialize.c`); the application name handler; the two consensus transactions,
  whose cases are commented out.
* Glyphs, build files, documentation assets, and the Python client, whose way of
  sending chunks is that of the disciplined host.

* Names of methods and addresses of outputs that are longer than the 40 bytes
  reserved for them (see `TxGrammar`).

Lengths of more than 16 bits in varints are left out of `TxParser`; `Library` has them.

## Plan

1. *Done*: the application with its channel, host and contract; the review screens;
   the transaction parser; the shared functions; the theorems above.
2. *Done*, by a contract: the verdict that `NulsApp` takes from `ParseStatus` is
   `TxVerdict`, which `TxParser` implements. A composition in one state space, with
   sessions that are scrambled after an error, is left.
3. *Done*: proofs for the disciplined host, from an invariant that ties `sent`,
   `context` and `screen` together (the second part of `NulsAppProofs`).
4. *Done*: proofs about the parser (types and limits, positions, what is kept), and
   about the functions that read, write and keep bytes.
5. *Done*: that the digits of quotients and remainders read back as the number, and with
   them amounts, fees and formatted digits; that decoding undoes encoding.
6. *Done*: the memory part of `VerdictSpec`, with the room for arguments as a recursive
   function, and what `AddressShown` says of all addresses.
