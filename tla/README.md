# A verification of the epmw wallet firmware

epmw is a hardware wallet: an STM32F103 with an OLED display and two buttons
that keeps a BIP39 mnemonic behind a pin and derives an extended public key
from it. This directory holds TLA+ models of its firmware
(`src/epmw_firmware`), TLC configurations that check them on small instances,
and TLAPS proofs of what matters most for every value of the parameters.
Paths below are relative to `src/epmw_firmware/` unless they begin with
`README`.

## 1. Inventory

### 1.1 Components

| component | source | state it keeps | operations |
|---|---|---|---|
| flash storage | `flash_storage.c` | one flash page | save (erase, then program half-word by half-word), load |
| wallet record | `wallet_management.c/.h` | `wallet_data`: flag, pin, failed attempts, words | load, set pin, set words, set flag, set attempts, check pin, delete; every change saves |
| wallet life cycle | `ui.c` | the place `ui_task` has reached and its locals | initialise (new/restore, pin), debug deletion, lock screen, show xpub |
| start-up and tasks | `main.c` | the receiver's line and `cr_received` | initialise the hardware, create `ui_task`; `usb_data_receiver` and `blink_task`, whose creation is commented out |
| display buffer | `display.c` | `display_buffer`, `dirty_bit_like_cache` | put a character, pixels and lines, clear, refresh over I2C |
| word list search | `wallet/crypto/bip39.c` | - (pure) | linear and binary search, exact and by prefix, the counting hint |
| mnemonic coding | `wallet/crypto/bip39.c` | - (loops over bits and characters) | base-2048 packing in both directions, sizes, checksum, parsing into words and back |
| seed entry screen | `ui/screens/ui_seed_enter_screen.c` | text, column, enabled characters, key, taps, words | length, keys, multi-tap with timeout, backspace, confirm, checksum |
| pin screen | `ui/screens/ui_pin_screen.c` | generator state, pad, digits | draw the pad, enter, set up (type twice), compare |
| option screen | `ui/screens/ui_select_from_options_screen.c` | chosen option | next, ask to confirm, go back, return |
| buttons and waiting | `buttons.c`, `ui/ui_common.c` | - (loops over samples of two pins) | debounce, wait for a press with or without timeout, wait for release |
| button widgets | `ui/components/` | the active flag | draw |
| keys, addresses, signatures | `wallet/wallet.c`, `wallet/external_libs/bip32.c`, `base58.c` | the selected field of the big-number library; the caller's key buffer | derive an xpub or an address, Schnorr signature, base-58 text |
| curve arithmetic | `wallet/external_libs/bignum256.c`, `ecdsa.c` | the selected field | add, subtract, multiply, reduce, invert; multiply the base point, serialise |
| hashes | `wallet/external_libs/` | third party | - |
| QR code | `qr_show.c`, `qrcode.c` | third-party encoder, uncalled | - |
| USB serial port | `external_libs/usbcdc.c` | two queues, `initialized`, `usb_task`'s packet | put and get characters, send and receive packets, configuration |
| entropy | `entropy.c` | empty file | - |
| kernel and drivers | FreeRTOS, libopencm3 | vendored | - |

### 1.2 How they interact

`main` initialises clock, buttons and display and creates one task, `ui_task`.
The components of the wallet call each other and do not run side by side:
`ui.c` calls the screens, the screens call the waits of `ui_common.c` and draw
through `display.c`, `ui.c` stores through `wallet_management.c`, and that
through `flash_storage.c`. What runs concurrently with this code is the world:
power may fail between any two half-words of a save, fingers move and contacts
bounce while the task sleeps, and the panel shows whatever was sent last.

The serial port is the part with tasks of its own. `usb_task` polls the
peripheral; its receive callback puts the host's packets into `usb_rxq`, from
which `usb_data_receiver` reads lines; both that task and `blink_task` put
their texts into `usb_txq`, which `usb_task` empties into packets. The four
share nothing but the two queues and the flag `initialized`. `main` has the
lines that start them commented out at this commit; they are modelled as they
run when it has not.

The calls of `wallet.h` are independent of each other but for one global of
`bignum256.c`: the field that the call before left selected.

### 1.3 What is hard, and what makes each part correct

- **Saves and power.** A save erases the page and rewrites it with the flag
  first, in seven fields; a new wallet takes three saves. Correct means: a page
  that was written to its end is the owner's, a deletion is final, an attempt is
  counted before it is judged, and nothing that opens the wallet is made up by a
  half-written page.
- **The lock screen.** A counter in one byte, a wait of `1 << attempts` seconds
  in sixteen bits, the deletion at the limit, and power that may fail between
  the save of an attempt and its verdict. Correct means: no more wrong pins than
  the limit from power-on to power-off, nor in total unless the counter runs
  over, and the screen ends.
- **Dirty bits.** Drawing calls and refreshes come in any order. Correct means:
  a page that is not marked is on the panel already, and the bits drawn across
  a page boundary are the pixels asked for.
- **The binary searches.** `right = middle - 1` wraps around below zero in a
  `uint16_t`, and only one of two loops guards against it. Correct means: no
  probe behind the list, an end, and the linear search's answer.
- **Typing a mnemonic.** A text buffer without a bound of its own, a keyboard that hides
  characters, multi-tap with a timeout, early completion, words that begin other words.
  Correct means: the text always begins a word, the display shows what will be taken,
  the keyboard goes empty in no other way than the one of section 7, every word can be
  typed, and only confirmed words with a checksum get out.
- **The pin pad.** A generator with a rejection limit fills the pad. Correct
  means: it ends with every digit on one key, and a pin set up was typed twice.
- **Choosing a length.** Options of different widths are drawn over each other
  behind a prompt, with an x that wraps around in a byte. Correct means: what is
  displayed is what is returned.
- **Buttons.** Two samples for a press, one for a release, delays between.
  Correct means: a press counts once and is not lost.

- **The serial port.** Packets are refused while the peripheral still holds
  one, queues fill up, the host cuts its text anywhere and may reset the bus;
  two writers put character by character. Correct means: each direction keeps
  its order, loses nothing until the line breaks and never repeats anything,
  each line is answered and displayed once as long as the receiver's buffer
  holds it, and nobody waits for somebody who waits.
- **Mnemonic coding.** Items of 8 and of 11 bits with a rest that is sometimes
  kept, a checksum of less than a byte, runs of blanks. Correct means: the same
  bits on both sides, BIP-39's idea of a valid mnemonic, the words a text has.
- **Numbers and points.** Carries, reduction by the complement of n, formulae
  that fail for equal, opposite and infinite points. Correct means: the result
  modulo n, and the multiple of the base point.
- **Keys.** One field for points and sums, byte orders that change from step to
  step, derivations that may fail. Correct means: an address is the child of the
  exported xpub, and a signature verifies under the key.

`PROJECT.json` lists these as hazards with the line each bites at and the
properties that would show it.

## 2. Plan

All modules of the plan exist, in this order, the most important behaviour
first:

1. `FlashStorage` -> `WalletManagement` -> `WalletLifecycle`, with the abstract
   `WalletStore`; `WalletLifecycle_proof`.
2. `Picture` <- `Display`.
3. `Bip39Words`, `Bip39Search`.
4. `MnemonicDialog` <- `SeedEntry`, `SeedTyping`, `SeedEntry_proof`, over the word list of
   `Bip39Words`.
5. `PinEntry` with `PinEntry_proof`; `Buttons` and `SelectOptions`, proved about with
   `Display` in `Interface_proof`.
6. `Bip39Coding` and `Bip39Text`, composed with the searches in `Bip39Calls`;
   `Bip39_proof`.
7. `BigNum` -> `PointMultiply` -> `WalletKeys`, and `Base58`, composed in
   `KeyCalls`; `Keys_proof`.
8. `ByteChannel` <- `UsbCdc` -> `UsbTasks`; `UsbTasks_proof`.
9. `Recursion`: induction, recursive functions, division, powers and primes for the
   proofs.
   `Bits`: the shift that `Display`, `Bip39Coding`, `WalletLifecycle`, `BigNum` and
   `PointMultiply` have in common.

Nothing of the plan is left; what stays with TLC, and why, is in section 5.

## 3. Modules and the code

**`FlashStorage`** - the page, a record of seven fields, and `cursor`, the
field to be programmed next. `FlashErase`, `FlashProgram` and `FlashLoad` are
the two halves of `flash_save_data` and `flash_load_data`. The fields are those
of `wallet_data_t` in memory order; the words are two halves, which is enough
to tell a page whose words are half there.

**`WalletManagement`** - `wallet_data`, the copy in RAM, and one operator per
function of `wallet_management.c`, with its early returns. `ErasedRecord` is
what an erased page reads as: all ones, so the pin's length and the counter are
`ByteMax` and digits and words are values no user can enter. Each setter is its
assignments and the `Save` that ends it.

**`WalletLifecycle`** - `ui_task`. `pc` names the place the task has reached;
each action is a screen with what it stores. `owner` and `rejections` are
history: the pin and mnemonic of the last initialisation, and the pins rejected
since then or since the last unlock. So are `wasted`, the attempts since then that
were saved and that power losses left unjudged, `laps`, how often the counter ran over
since then, and `session`, the pins rejected since power was last lost. `PowerLoss` may
take any state to `reset`, any number of times; RAM is lost, the page stays as far as it
was written. The counter is the byte it is in the code: `EnterPin` counts from `ByteMax`
to 0, and `SecondsToWait` is 0 from `WaitBits` on.

**`WalletStore`** - what the user is promised: a wallet is created whole, a pin
is presented, counted in a byte that runs over, accepted (attempts start anew) or
rejected (at the limit or beyond it the wallet is gone), and power losses forget no
count. `WalletLifecycle`
implements it with `wallet` read off the page, or off RAM while a save runs.

**`Display`** - the buffer as bytes per page and column, the set of dirty
pages, the panel, and the loop of the refresh. `Draw` is
`display_putc_select_inversion` with its shifts and masks (`ReplaceBits`);
`DrawLine` stands for both lines and for the single pixel. **`Picture`** is the
same screen as a set of lit pixels, with no bytes, pages or marks.

**`Bip39Words`** - strings as sequences of numbers, `At` with a 0 behind their
end as in C, `bip39_strcmp` and `bip39_strncmp` as relations, and what a list
must be (`WellFormed`: sorted, with its table of first letters).
**`Bip39Search`** - both binary searches in one machine: `exact` tells
`new_bip39_get_index` from `new_bip39_hint_index`; `left` and `right` are
`uint16_t` (`Wrap`).

**`SeedEntry`** - `ui_retrieve_mnemonic_seed_from_user`: `Tap` shows the next
character of a key, `Take` is the end of the taps by timeout or LEFT, with the
acceptance that may end the word, `Backspace`, the confirmation and the
checksum. The character taken is computed, as in the code, from a tap count
that has moved on (`ShownTap`). `caption` says that `loaded_text_buffer` still holds the
caption `Wrd(n):` it was used for before the loop, which it does until the first
character is taken: `Backspace` then renders the keyboard for that text. `Mnemonic` is
what the caller would be given.
**`SeedTyping`** adds a user who wants a certain word. **`MnemonicDialog`**
knows of confirmed words only.

**`Bip39Coding`** - `bip39_base2048_encode`, `_decode` and
`bip39_validate_checksum`. Both loops are one: `LoadBit` is a turn of the inner
loop, `Finish` what follows the loops, `CheckSum` the comparison. The hash may begin
with any byte: nothing in the validation depends on more. **`Bip39Text`** is
`bip39_parse_string_into_words` character by character and
`bip39_words_to_string`. **`Bip39Calls`** puts the searches, the coding and the parser
beside each other, one call of one of them a behaviour.

**`BigNum`** - numbers as sequences of bytes. Addition, subtraction and the product of
bytes carry as the loops of `bignum256.c` do; the reduction of `bigMultiply`
(`ReduceTurn`) and the ladder of `bigInvert` (`LadderStep`) are steps of their own, the
rest are operators. `dropped` records a carry that the code cuts off. Loops are
recursive functions (`Rows`, `Turns`), which the proofs unfold. `FieldFits` is what
`bignum256.c` asks of a field (its warnings at `n` and `bigInvert`), and that twice the
complement still fits its bytes, as it does in both tables of `ecdsa.c`, whose last
bytes are 1: the reduction's last sum could otherwise reach twice n, and one subtraction
would not do. **`PointMultiply`** is `pointMultiply` with its dummy additions and
redirected writes, on field elements as numbers; its field operations are what `BigNum`
shows the bytes to compute where no carry is dropped. Its products, and those of
`WalletKeys`, are exact: what they show holds of a computation in which `bigMultiply`
meets none of the operands of section 7. `Multiple` is the specification: the base added
to itself by the textbook's group law (`GroupSum`), one at a time, without a loop over
bits and without Jacobian coordinates. `CurveFits` is what is taken of the curve: the
field's number is a prime, scalars have as many bits as the loop, the base lies on the
curve, and a multiple of the base added to itself is twice that multiple. The last is
the one instance of the group's associativity that the loop needs; it is a fact about
the curve, true of secp256k1 as of every curve, that TLC checks on the small one.
**`WalletKeys`** is the calls of `wallet.h` over both: a point is its multiple of the
base point, `field` is the global of `bignum256.c`, `Swap` the byte order that the code
turns around and back, and `hmac` remembers what the hash has answered, so that the same
input gets the same answer. `Power`, `Rests` and `Turning` say what bytes a number has
and in which order, by recursive functions that the proofs unfold. **`Base58`** is the
two loops of `b58enc` with a size that nobody set. **`KeyCalls`** puts the four beside
each other for one run: `fun` says which of them a behaviour calls, and signing has
constants of its own, so that its numbers do not multiply with those of the derivations.

**`UsbCdc`** - `usbcdc.c`. The peripheral holds one packet per direction (`outEp`,
`inEp`); `usb_task`'s places are the poll, the callback's queueing, the filling of
`txbuf` and the write. A writer's `text` is what it has left to put; `PutChar` is one
`xQueueSend`, with the CR ahead of a LF as a step of its own, so that other writers get
in between. `INCLUDE_vTaskSuspend` is 0 in `FreeRTOSConfig.h`, so a wait of
`portMAX_DELAY` is one of 2^32 - 1 ticks, some seven weeks, and may run out (`TimeOut`):
`Send` then loses its character, since `usb_putc` looks at no result, and `Getc` answers
-1, which the receiver stores as the character `NoChar`. `put` marks the characters that
did not enter the queue; `taken` is what `usb_getc` really took. The host configures,
resets, writes and reads whenever it likes. **`UsbTasks`** adds `usb_data_receiver` and
`blink_task` of `main.c`: `Store` is a character stored, with the answer a completed
line gets, and `Answered` the display of the line and the start of the next. The code
does not look at the end of the receiver's buffer; a character behind it (`HasRoom`)
sets `overrun`, and since C leaves open what happens then, the model's receiver does
nothing any more. **`ByteChannel`** is a serial line as such, and each direction of the
port implements it: the way out breaks with a bus reset, the way in also with a packet
that is longer than the space the callback saw.

**`PinEntry`** - the pad drawn from `pseudo_random`, whose state outlives the
screens, then the typing of one pin, or of two that must agree.

**`SelectOptions`** - `ui_select_from_options_screen` with the line of the
display the option is drawn in; `SeedEntry.ChooseLength` and
`PinEntry.AskLength` take its result. Between the press of LEFT and its release
the display still shows the option before, so that is a place of its own.

**`Buttons`** - `button_get_state` as two samples a delay apart, and the loops
of `ui_common.c` as one machine: wait, with or without a timeout; the screen
works; wait for the release. Time is in ticks of the loops' ten milliseconds.
In all other modules a press is one step, which is what `Buttons` shows the
loops to deliver.

## 4. Runs

| run | what it asks | distinct states |
|---|---|---|
| `wallet` | pin, mnemonic and a counter that runs over, with power failing between saves; `WalletStore` is implemented | 17 008 |
| `torn_saves` | the same with power failing inside a save; the lock screen ends (liveness) | 499 444 |
| `torn_xpub` | a disagreement of section 7 (TLC finds it violated) | - |
| `display` | dirty bits, refresh, bytes against pixels | 13 162 |
| `bip39` | both searches with every list and text of the bound, that they end (liveness), coding, checksum and parser | 168 085 |
| `seed` | text, keyboard and how it goes empty, display and result; every word can be typed (liveness) | 24 537 |
| `pin` | pad and setup; the real generator fills ten keys (liveness) | 74 225 |
| `options` | what is displayed is what is returned | 869 |
| `buttons` | each press once, none lost | 61 443 |
| `usb_tasks` | order of the writers, one answer a line until the buffer is overrun, both directions are serial lines, everything arrives (liveness) | 783 548 |
| `keys` | address and xpub, signature, numbers, points, base-58 text | 140 766 |
| `bignum_carry` | a disagreement of section 7 (TLC finds it violated) | - |

`bip39` and `keys` hold several small machines that do not meet: each behaviour
is one call of one of them, and `fun` says which. Their properties restrict those
of the modules to the call they are about.

What the properties say stands above each of them in its module. Those a reader
may want to know of first:

- `CompletePageIsOwners`, `DeletionIsFinal`, `OpenOnlyWithPin` hold **even if
  power fails inside a save**. The pin check is safe on a half-written page
  because an erased length or digit never equals what a user can type.
- `NothingIsLost`, `RejectionsBounded`, `ShowsOwnersMnemonic` hold when saves run
  to their end. `RejectionsBounded` is the limit, and what the code gives beyond it:
  the counter goes on without a verdict when power fails after its save, and once it
  has run over its byte the limit starts anew. Each lap of it allows one pin less than
  the limit and takes as many such power losses as the byte has counts beyond the
  limit (240 in the code).
- `RejectionsPerSession` holds even if power fails inside a save, where a torn page
  reads its counter as `0xff` and the next attempt counts to 0: from power-on to
  power-off no more pins are rejected than the limit, wherever the counter starts.
- `KeyboardDiesByBackspace` says in which way the seed keyboard goes empty
  (section 7), and that it does so in no other.
- `AnswersEachLine` has both sides of the receiver's missing check: the receiver
  writes behind its buffer if and only if it has read a line that is too long for it,
  and until then every line is answered and displayed whole and once.
- `ReadsInsideList` says why `new_bip39_hint_index` may do without the guard of
  its sibling: its callers ask for a hint only after `new_bip39_hint_index_n`
  found a word with that prefix (the guard of `Call`), and then no probe can
  send `right` below the first word. It would not hold for any text.
- `OutgoingIsALine` and `IncomingIsALine` are refinements: every step of four
  tasks and the host is a step of a serial line, or none. `ReadFits`, on which the
  second rests, says that what the callback read still fits the queue when it is
  queued without waiting.
- `SignatureVerifies` holds whatever field the call before left, and for the key
  that is in the caller's buffer *after* the call: the code turns it around in
  place, so a second signature is under another key.
- `AddressMatchesXpub` compares the address, derived with the private key, with
  what a holder of the xpub derives for that child without it.
- `ScreenShowsTyped` ties the character that is taken to the one on display,
  whatever presses and timeouts came before.

Each property has a mutant, a definition `As` the code would be with a
plausible mistake (a comment marks it), which makes TLC report that property.

### 4.1 Bounds, and why they are enough

- *Wallet*: two pins, two mnemonics: a mix-up needs two. `ByteMax` = 7, limit 3,
  `WaitBits` = 3: the byte is small enough for the counter to be driven
  around and the wait as wide as the limit, as sixteen is to sixteen in the
  code (`config.h`). Power may fail any number of times; what is bounded is how many
  attempts it leaves unjudged (`MaxWasted`). Twelve between saves let the counter run
  over twice, since each lap takes five. Six in `torn_saves` let it run over once, and
  saves are cut there in any place and as often as one likes. All of it is proved
  without bounds (section 6).
- *Display*: two columns, two pages of three rows, two glyphs, two drawings
  between refreshes. A glyph may lie on one page, on two, or over the lower
  edge; two drawings are what it takes for one to disturb another. Pixels and dirty
  bits are proved for any size.
- *Word lists*: two letters, words of at most three, all lists of one or two
  words and all that lack at most two words: the short lists wrap the index,
  the long ones take several probes. Texts may hold a character that is no
  letter. Proved for any list.
- *Seed entry*: eight words over five letters on two keys: with words that begin
  others, a word alone with its first letter, a letter no word begins with, and
  a key with fewer letters than the other. Mnemonics of one or two words: a
  second word is needed for leftovers of a first. The user of `EveryWordCanBeTyped`
  never presses backspace: the keyboard may be dead after it.
- *Pins*: the generator of the code (109, 57, modulus 256, limit 250) with all
  ten keys, and pins of one digit, so that the generator may be left in any of its
  states; longer pins are covered by the proof.
- *Coding*: items of 2 and 3 bits with every input of at most three of them and
  longer ones of two or three different items, in all six combinations of rest and
  padding; and items of 8 and 11 bits: mnemonics of 3 and 24 words with every last
  word's checksum, and up to 33 bytes. Texts for the parser: up to eight
  characters over two letters and the blank, with words that begin others.
- *Numbers*: four bytes of two bits, a modulus of 251 with a complement of two
  bytes, operands at the edges of byte, complement and n and between. *Points*: a
  curve of the same equation and of prime order 223 below its field's prime 229,
  every scalar of eight bits, so that doubling, opposite points and infinity all
  come up. *Keys*: hash answers that lead to an ordinary key, to key zero and to n
  itself, which is every failure of a derivation; nonces and keys on both sides of
  n and of the field's prime.
- *Serial port*: queues and `txbuf` of two characters, packets of three, a host
  text of two lines (CR, LF, CR, LF), one bus reset, one wait that runs out, an answer
  and a blink text of one character, and a receiver's buffer of three, just what an
  empty line takes with the 0 behind it. Queues fill, packets are refused, cut and
  lost, CRs go ahead of LFs while the other writer is between, two lines are answered,
  and a line that lost its end to a cut packet or got a -1 between overruns the
  buffer, with a character or with the 0. Any sizes and texts are proved (6.5).
- *Options*: the two callers' lists and a list of one to three digits, behind
  prompts of every length that leaves room (the callers' are 7 and 13), on the
  real line of 16 characters with an x of eight bits. With 20 blanks instead of
  15 the prompt is erased.
- *Buttons*: bounce as long as the debounce time (20 ms), a timeout of six ticks,
  presses and pauses of 120 ms or more, screens busy for up to 40 ms. With
  shorter presses than a screen is busy, presses are of course lost; the half
  second `confirm_chosen_word` waits on purpose is such a case and is outside
  `NoPressLost`.

### 4.2 Fairness

The wallet is one task, and FreeRTOS wakes it after each delay, so weak fairness
of the firmware's steps is what the scheduler gives. Where a liveness property
needs a user, it is the user who keeps pressing: `LockScreenEnds` assumes that
pins are entered, and allows a power loss as an ending; `EveryWordCanBeTyped`
assumes a user who goes after one word, and assumes nothing of the one who
confirms it. `SearchEnds` and `PadIsFinished` are loops that wait for nobody.

The four tasks of the serial port have one priority and share the processor by time
slices, so each of them has weak fairness (each writer by itself: a queue that has room
again serves whoever waits). A wait of `portMAX_DELAY` may run out and never has to:
neither a writer at a full queue nor a receiver at an empty one is promised that step.
The host polls the endpoints by itself. Strong fairness is used once, for `SetConfig`: a
host's request to configure the device stays in the peripheral until `usbd_poll` finds
it, and `usb_task` comes to its poll again and again.

`CHECK_DEADLOCK FALSE` stands where the system really stops: the seed dialog
returns, the calls of `bip39`, `keys` and `bignum_carry` return, and the serial
port has nothing to do when all texts have arrived.

## 5. Safety and liveness under TLC only

Checked but not proved: the liveness properties `LockScreenEnds`, `SearchEnds`,
`EveryWordCanBeTyped`, `PadIsFinished` and `AllArrives`. Every safety invariant of a
passing run is a theorem of section 6. Whether the filling of the pad ends depends on
the generator's numbers and is a fact TLC can enumerate completely: all states the
generator can be in are visited.

## 6. Proofs

### 6.1 `WalletLifecycle_proof`

Assumptions: `ByteAssumption` (parameters are numbers, the limit is positive and fits
the byte) and `InputAssumption` (what can be typed is no pattern of erased or zeroed
flash, as four to eight digits and 3 to 24 words are not).

`CompletePageIsOwners` is not inductive: while a save runs the page holds part
of the RAM copy, and RAM is about to become the page. The invariant `IInv`
adds: how far a save has come (`SaveProgress`), that a place in `ui_task` waits
for it (`SaveHasCaller`), that RAM is the page otherwise (`RamIsPage`), what the
place says of the flag (`FlagFollowsPc`), what an initialisation has entered
(`InitialisationProgress`), that an initialized record is the owner's as far as
it is complete, on the page and in RAM (`OwnersRecord`), with a counter that is the
attempts judged and unjudged but for its laps (`AttemptsAre`), and that the pin being
judged is counted (`AttemptCounted`). There is one lemma per group of actions,
and each shows the conjuncts they disturb. It holds with power failing at any
step.

`UncutInv` is the part that needs saves that run to their end; the theorems
`KeepsWallet`, `RejectionLimit`, `ShowsOwners` and `Refinement` assume
`~PowerFailsDuringSave`. Pins are rejected without a deletion only while the counter is
short of the limit, so within a lap there are no more of them than the lap has counts,
and one less than the limit at most (`RejectionsSoFar`); since the counts of a lap are
the rejected and the unjudged, the rest of them were unjudged (`WastedSoFar`).
`Refinement` maps every action to a step of `WalletStore` or to a stutter, action by
action; the counters of both run over together.

`SessionsAreBounded` holds with power failing anywhere. A torn page may read its
counter as `0xff`, from which the next attempt counts to 0, and unjudged attempts may
have carried it to any other value, so the counter on the page says nothing of the
pins rejected before. `SessionInv` compares the pins rejected since power came up with
the counter in RAM, which starts anywhere and goes up with each of them: it cannot run
over within a session, because a pin rejected at the limit or beyond deletes the wallet.

### 6.2 `Interface_proof`

**The display.** From `PanelAssumption`, `FontAssumption` (a character of the font is
`Cell` bytes) and `PowerUpAssumption` (so is what the panel holds before), for a screen
and a font of any size: `PictureIsImplemented`. It is built up from the bits. A byte is
two numbers side by side (`SideBySide`), and `LowBits` and `HighBits` say whose bits
come where; from these follow what `replace_bits` makes of a byte for the upper and for
the lower of two pages (`UpperPage`, `LowerPage`), that a pixel set leaves its
neighbours alone (`OneBit`), that an inverted byte has the bits the byte has not
(`InvertedBits`), and, by induction over the rows, what a line through a byte leaves
(`PaintedBits`). `CellRows` places the rows of a character on its two pages, and
`DrawnPixels`, `LineIs`, `BlankIs` and `SentIs` turn bytes into sets of pixels. Every
step of `Display` is then a step of `Picture` or changes no pixel. The type invariant
`DisplayTypeCorrect` comes with it: a byte put together from two stays a byte.

`UnmarkedIsShown` and `RefreshProgress` are inductive together, once nothing is
refreshed before `display_init`. `DrawMarks` says that a character changes no page it
does not mark; the bytes drawn play no part.

**The buttons.** From `TimeAssumption` and `ContactAssumption` (a contact rests before
the second sample, and no press or pause is shorter than a debounced sample):
`PressReportedOnce`. Not inductive as it stands: a press could be reported again if
the loops went back to waiting while the finger is still down. `HeldIsSeen` says that
they do not: a reported press that goes on has a contact at rest, and the loop that
waits for the release sees it. `SampleIsSteady` says why two samples are enough:
between them a finger moves once at most.

`PressIsNotLost` needs `PauseAssumption` as well: presses and pauses outlast a busy
screen and a debounced sample. The invariant `PressInv` counts time: no sleep is longer
than the screen is busy or a sample lasts (`SleepIsShort`), a finger that has gone up
stays up long enough for the wait for the release to see it (`PauseIsEnough`), a button
pressed alone is the only one that is down (`AloneIsDown`), and a press not yet reported
is young enough for the loop that will see it (`PressIsAwaited`).

**The option screen.** From `CallerAssumption` (options fit behind the prompt, and the
blanks end before x wraps around): `OptionIsShown`. The lemmas say what `display_puts`
leaves in each column (`PutsInLine`), that the blanks erase what an option of any length
left there, and that the option drawn over them stands alone.

### 6.3 `Bip39_proof`

**The searches.** For any well-formed list and any text: `left..right` holds every
match, so a probe that goes left or right drops none. That rests on the order of
strings: `FirstDifference` (found through the well-foundedness of the naturals),
`NothingBehind` and `NothingBefore` (a text on one side of a word is no prefix of words
on the other), and `WrapFacts` for the sixteen-bit arithmetic. From it follow
`TypeCorrect`, `ProbesStayInside`, `SearchIsRight` and, for the exact search,
`BinaryIsLinear`.

**The coding.** From `CodingAssumption` (`SizesFit`: the counts fit their `uint8_t`,
and three words are four bytes and one bit, as 33 is 32 and 1), for items of any size:
`BitsAreKept` and `ChecksumIsValidated`. `CodeInv` compares everything with one infinite
sequence of bits, those of the input and zeros behind them (`Wanted`): the items written
are its first bits (`Copied`), the one in the making the next (`Begun`). `CopiedOn`,
`BegunOn` and `RestIs` are a full item, one more bit and a rest moved to the high end;
`RequiredIs` says that the rounded division of `bip39_required_memory_size_...` counts
the items. For the checksum a byte is decided by its bits (`BitsDecide`), masking keeps
the first of them (`MaskedBits`), and the entropy ends with a whole byte, so that the
checksum begins with the last one (`ChecksumPlace`).

**The parser.** From `TextAssumption` (a well-formed list, and texts of fewer words than
a `uint8_t` counts): `TextIsParsed`. The invariant `Reading` cuts the text at e, where
the word begun starts: up to there every stretch is settled (`Settled`: as many indices
as stretches begin, each the index of the stretch of its rank), the rest is the word in
the buffer, and a text with single blanks is what `bip39_words_to_string` writes of the
indices so far, and the word. A further character unsettles nothing (`SettledMore`), a
stretch that ends is the one next in rank (`SettledWord`), a word found is the word of
its index (`FoundIsWord`), and one too long for the buffer is in no list (`TooLong`).

### 6.4 `PinEntry_proof`

From `PadAssumption` (numbers in their ranges, nothing about the generator's
period): the pad holds every digit at most once while it is filled and every digit
once when it is shown (`PadIsComplete`, a set of as many different digits as there
are keys), and a pin that is given is the one typed last, typed twice in a row when
it is new (`PinIsAsTyped`). The invariant ties the digits counted to the end of the
history of presses (`EndsWith`), which `Restart` and `NewPad` cut.

### 6.5 `UsbTasks_proof`

From `SizeAssumption` (`txbuf` fits a packet, a packet fits the callback's buffer),
`CharAssumption`, `TextAssumption` and `BufferAssumption` (the receiver's buffer has a
place and an index in a `uint8_t`; no text of the host is excluded): no queue overflows
(`TypesHold`), what was read still fits (`NothingReadIsDropped`), and both refinements,
`PortSendsAsALine` and `PortReceivesAsALine`. The invariant adds to the types that
before the configuration there is nothing in the endpoints and until a reset the device
stays configured, so that a configuration loses packets only after a reset; that the
callback's buffer is empty unless it is being queued; `ReadFits`; and that the host's
rest is the end of its text. Each action maps to one step of the line: putting a
character and writing a packet to `Put`, reading to `Deliver`, a reset to `Lose` if the
endpoint was full and to `Break` if not, a cut packet to `Lose`, and what `usb_task`
moves from one place to the next to a stutter. The sequence lemmas at the head of the
module (`Joined`, `Piece`, `Beginnings`, `FirstMoves`, `EndLost`, `BeginningLost`) are
what the refinements need to know of sequences.

`WritersKeepOrder` follows the characters put by each writer: what it has put and what
it has left are together its texts as `usb_putc` writes them (`CrAheadOfLf`, also
between a CR that is out and its LF), whatever other writers put in between. Texts are
flattened by a fold, of which the `Recursion` lemmas say how it grows by one element.
A character lost because a wait ran out is put as any other, and not in the queue.
`LinesAreAnswered` has the invariant `BufferIsLine`: the receiver's buffer is what
follows the last line end of the characters it has read, and while it answers, the line
that ended; the answers put are those to the lines before. A line that ended stays as it
was when more is read (`LinesSame`), so there is one too long from the moment the
receiver has no room for a character, and none before (`TooLongMore`).

### 6.6 `SeedEntry_proof`

From `SeedAssumption`: a well-formed list, a word for each letter of the first
keyboard, and no letter that begins as many words as the `uint8_t` of the hints can
count (the list has at most 250 per letter).

- `HintCounts`: a hint is the first of the words that begin with the text and counts
  all of them. They stand side by side (`BetweenBegins`, from the order of strings),
  so the count that stops at the first other word misses none.
- `TypingOK`, the invariant of the keyboard: the text begins a word, is shorter than
  words may be, and the keys offer what leads on from it, or nothing behind a backspace
  over the caption, when no character has been taken yet. It lasts because a tap
  arrives at a character the key offers, however many it has (`Ranked`,
  `PressedIsOnKey`), an offered `_` is accepted (`MarkAccepted`), and a text as long
  as words get has one hint and is accepted (`LongestAccepted`). Hence
  `TypedAlwaysBegins`, `KeyboardDiesOneWay` (`SomethingOffered`) and
  `TypedAlwaysFits`, the room in `loaded_text_buffer` that
  `retrieve_seed_word_from_user` does not check.
- `ScreenInv`: the cells are the text with the character `Pending`, which is the one
  of the tap before, as `ShownTap` says. Hence `TopLineIsTheText`.
- `DialogInv`: words are missing while one is chosen, and an accepted text allows one
  answer (`OneAnswer`). Hence `ConfirmsWhatWasTyped` and the refinement
  `ScreensAreADialog`: `ConfirmWord` maps to `Settle`, `TryAgain` to `StartOver`,
  `ChooseLength` to `Start`, all else to a stutter.

### 6.7 `Keys_proof`

From `KeysAssumption` (a byte has more than one value, N < P < what `Size` bytes hold <
2 N, and whatever is passed or hashed fits), for the text, that data are bytes, for
the arithmetic `FieldFits`, and for points `CurveFits`. The theorems hold for every size
of numbers, every N and P in that range, every prime modulus with its complement, every
curve y^2 = x^3 + B, and every hash.

- *The byte order.* `Swap` undoes itself (`SwappedBack`): what is left of the turned
  number after i bytes is what has been turned of the number when `Size - i` are left,
  and the other way round, by induction on i. `RestsFit` and `TurningFits` bound both.
- *Signatures.* `SignInv`: buffers hold numbers of `Size` bytes, the field is 0, P or N,
  and a signature is one made with the key in the buffer and some nonce (`SignedFor`).
  `SignaturesVerify` follows with arithmetic modulo N (`Verifies`), in whatever field
  the random bytes were reduced, and also for a key that is not below N.
- *Addresses.* A result is the last node of a trail: nodes of which each is the child of
  the one before by what the hash is known to have answered (`Leads`, `Trail`). Answers
  are only added, so a trail remains one (`TrailOn`), and two trails from one master
  along one path meet (`TrailsMeet`). `AddressesMatch` is the last step from the node
  both paths reach: adding private keys and then taking the point is adding points.
- *Texts.* `Encoding` is the invariant of `b58enc`: the digits are worth the bytes taken;
  while a byte is added, what is missing is 255 times the worth of the digits not yet
  multiplied, and the carry (`Worth`); digits up to `high` are zero (`Untouched`). The
  last carry is zero because `n * 138 / 100 + 1` digits hold n bytes for every n
  (`EnoughDigits`: eight bytes more are at least eleven digits more, and
  256^8 < 58^11), and the digit at which the loop breaks off is zero as long as
  another byte comes (`TopDigit`), so that it is not left out of the next
  multiplication.
- *Numbers.* What bytes are worth is a sum that can be cut anywhere (`PartsSplit`) and is
  below the power of its length (`PartsFit`). The loops keep it: adding and subtracting
  up to the carry that is left (`AddIs`, `SubtractIs`), comparing by the highest byte that
  differs (`CompareIs`), and multiplying: a turn adds a product of two bytes, and the
  carry of the high byte is worth what the turn after it takes up (`MultiplyBytesIs`,
  `RowIs`), so that at a row's end there is none (`MultiplyIs`, which is the `assert` of
  `bignum256.c:474`). A turn of the reduction exchanges multiples of `Limit` for
  multiples of the complement and so keeps the residue, while the value stays below the
  power of the bytes that may be set (`TurnIs`); the last leaves less than twice n. With a
  set bit above the low bytes the subtraction comes out short by the complement (`EndIs`).
  `Reductions` is the invariant of that loop, here and where `bigInvert` multiplies
  (`MultiplyModuloIs`).
- *Inverses.* The bits the ladder takes are those of n - 2 although only the lowest byte
  is decremented (`LessTwo`, `BitsAre`). `Ladder` is the invariant: the two products are
  op1 to the power of the bits taken, and to one more (`LadderIs`). At the end that is
  n - 2, and `Fermat` makes it the inverse. `ResultsAreModular` puts all of it together
  (`Calculation` is the invariant of a call).
- *Points.* The code divides only at the end: a point (x, y) stands as x z^2, y z^3 and z
  (`Stands`), and `AffineIs` does the division, with the inverse that `Fermat` gives.
  Numbers that are equal modulo P are `Alike`, and the formulae of `pointDouble` and
  `AddInto` are identities between integers up to that: they are those of the tangent and
  of the chord, with a new z (`DoubleFormula`, `AddFormula`). What they leave to show is
  when they do not apply. Two points of the curve with the same x are equal or opposite,
  since a product is zero only with a factor (`ChordSlope`), so the comparisons that
  `pointAdd` makes without a division (`ScaledIs`) tell the cases of the group law apart,
  and the new z is not zero unless the sum is O; the third point of a line through two
  points of the curve is on it (`ThirdOnCurve`), hence every multiple of the base is
  (`MultiplesAre`). `AddsPoint` is all of `pointAdd`: dummies, copies, equal and opposite
  points. `Multiplication` is the invariant of the loop: the accumulator represents the
  multiple by the bits taken, and between doubling and adding, twice that. At the end the
  parity of y picks the point, because P is odd (`ParityPicks`):
  `MultiplesAreSerialised`.

`TextsAreEncodings`, `ResultsAreModular` and `MultiplesAreSerialised` are proved of
`KeyCalls`; the others of `WalletKeys`, which `KeyCalls` runs for derivations and, with
other constants, for signatures.

### 6.8 `Recursion`

The library's theorems on induction take a predicate as a parameter, which the provers
cannot instantiate. Here a predicate is the set of numbers that satisfy it (`Induction`,
`InductionUpTo`, from the well-foundedness of the naturals), and a recursion is one
function per step (`RecursionUpTo`, `RecursionOnly`: it has one solution). With that
recursive functions of the models can be unfolded, and what they compute can be proved.
The lemmas on division (`Quotient`), powers and the flattening of sequences of sequences
(`FlattenIs`, `FlattenMore`) are here too.

`Fermat` is proved from the definition of a prime. A prime divides a product only if it
divides a factor (`PrimeDivides`: the least number that makes a multiple of it of one
factor divides the prime and the other factor). So among the powers of a number two
meet, and what lies between them is one (`PowersMeet`); the least such exponent is the
order d (`OrderIs`). Multiplying by the number leads every residue around an orbit of d
residues (`OrbitSize`), taking an orbit away from a set closed under it leaves one
(`OrbitLeaves`), and so, by induction on its size, every closed set has a multiple of d
elements (`ClosedSize`): of the n - 1 residues other than zero too, whence the power of
n - 1 is one. `Alike`, at the end, is equality modulo a number, with what sums and
products keep of it and, for a prime, cancelling and inverses (`AlikeKeeps`,
`AlikeCancels`, `AlikeInverts`).

### 6.9 Limits of the prover

Liveness under fairness and ENABLED are out of its reach, `^` means nothing to the
backends (powers are recursive functions where they are proved about), and a theorem
cannot have an operator as a parameter. No module uses a RECURSIVE operator.

## 7. Disagreements

`torn_xpub`: a save erases the page and programs the flag first. If power fails
after the pin's digits and before the words, the next start sees an initialized
wallet, the owner's pin opens it, and `ui_task` shows an xpub although the
words are gone: it does not look at what `bip39_words_to_string` returned
(`ui.c:314`). The repository's `README.md:36` says that "the xpub is equal to
the xpub derived from the same mnemonic in the other wallets software". Every
attempt and every unlock saves, so a device switched off at the wrong moment can
get there. `NeverMixed` bounds the damage: a mnemonic shown with its last words
is the owner's.

`bignum_carry`: `bigMultiply` reduces the product by adding multiples of the
complement of n to its low half and leaves the loop when no more than 32 bytes can
be set (`remaining`). The last of these additions may carry into byte 32;
`bigAssign` (`bignum256.c:524`) drops it, and the product is too small by the
complement. The comment at `bignum256.c:520` says "The upper 256 bits of r should
now be 0." On 256 bits with secp256k1's complement the case is out of reach of a
test; on fields scaled down TLC finds it. In the run `keys`, `ResultIsModular` says
how far off a product is when it happens (`dropped`), and no further.

Met while modelling, and not worth a run of their own:

- `ui.c:163` saves the attempt before the pin is judged, and nothing bounds how often
  power may fail in between. Each such power-off counts one up without a verdict. From
  16 on the wait of `ui.c:161`, `(uint16_t)(1 << attempts)`, is 0; after some 240 of
  them the `uint8_t` runs over to 0 and the limit starts anew, with no save cut short.
  `RejectionsBounded` says what a lap gains and costs, `RejectionsPerSession` what
  remains within one.
- `loaded_text_buffer` holds the caption `Wrd(n):` when the loop of
  `retrieve_seed_word_from_user` starts (`ui_seed_enter_screen.c:140-144`). A backspace
  before the first character passes it to `get_enabled_chars`
  (`ui_seed_enter_screen.c:286-293`); `bip39.c:232` refuses its `W`, no character is
  enabled, every key but backspace is empty and stays so until power-off
  (`KeyboardDiesByBackspace`).
- `main.c:22-25` stores characters and the 0 behind a line without looking at the end of
  `buffer`, which has 130 places: a line of 130 characters or more, or as much text
  without a CR LF, writes behind it (`AnswersEachLine`).
- With `INCLUDE_vTaskSuspend` 0, `portMAX_DELAY` is a wait of 2^32 - 1 ticks.
  `usb_putc` (`usbcdc.c:309-310`) does not look at whether it ran out, and the receiver
  stores the -1 of `usb_getc` (`usbcdc.c:343-345`) as a character.

- `usbcdc.c:236` says "Read what we can, leave the rest": reading frees the
  endpoint, and the rest is lost. `IncomingIsALine` says what remains true.
- `ecdsa.c:244` says of the branch for equal points that it "can never be taken"; a
  scalar of n + 2 takes it. The code handles it, and `SerialisedIsMultiple` covers
  such scalars.
- `bignum256.c:27` takes it that a field is set; `wallet.c:131` reduces its random
  bytes before any is.
- `bignum256.c:354` asks for operands below n; `wallet.c:189` may pass a key that is
  not. `SignatureVerifies` covers it.

## 8. Not modelled, and why

- Half-words that come out of a power loss half programmed, and a page half
  erased: flash hardware, no longer the code's order of steps. Fields that share a
  half-word (the pin's length and its first digit, its eighth digit and the
  counter) are programmed one after the other in the model, which allows more
  cuts than the code. Half of the flag's magic word reads as not initialized, like
  an erased one. A pin that lacks some of its digits counts as erased: it differs
  from any pin that can be typed, at a digit that is 0xff.
- The I2C handshake: busy loops on status registers of the peripheral.
- `display_buffer_display_selection`: marked "todo fix function bellow", without a
  caller.
- Hashes: third-party, beyond enumeration. A hash is an arbitrary answer per input.
- The QR encoder (third-party) and `qr_show.c` (no task calls it), the font (data),
  `entropy.c` (an empty file).
- FreeRTOS and libopencm3: vendored, and by far most of the repository's lines. The
  models use what the firmware relies on: queues that block or fail, time slices,
  and one packet per endpoint.
- `usb_write`: no caller. What the receiver does once it has written behind its buffer:
  C leaves it open, and the model stops it there.
- The carry that `bigMultiply` may drop, in the derivations, signatures and points:
  their modules take exact products. `BigNum` has it.
- Tabs apart from spaces in the text of a mnemonic: `Blank` stands for both.
- `SeedEntry` takes the set of valid mnemonics as a constant; `Bip39Coding` says
  which they are.
- Version bytes, hexadecimal text, and the library functions no caller uses.
- String options and the failure return of the option screen: no caller uses
  them.
- Captions, icons, highlights and number formatting: layout.
