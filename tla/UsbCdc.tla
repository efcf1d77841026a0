------------------------------ MODULE UsbCdc ------------------------------
(***************************************************************************)
(* The serial port over USB of src/epmw_firmware/external_libs/usbcdc.c:   *)
(* tasks put characters in usb_txq, usb_task hands them to the endpoint of *)
(* the peripheral in packets, and its receive callback takes the host's    *)
(* packets into usb_rxq.  The peripheral holds one packet per direction,   *)
(* as the driver of libopencm3 treats it (st_usbfs_core.c); the host that  *)
(* configures, resets, writes and reads is external.                       *)
(***************************************************************************)
EXTENDS Naturals, Sequences, SequencesExt

CONSTANTS
    Symbols,        \* the characters, a byte each
    Writers,        \* the tasks that put characters
    CR, LF,         \* '\r' and '\n'
    TxQueue, RxQueue, TxBuf, \* the sizes of usb_txq, usb_rxq and txbuf
    RxBuf,          \* the size of buf of the receive callback
    Packet,         \* the packet size of the endpoints
    HostText,       \* what the host has to say
    NoChar,         \* (char)-1, a character the host may say as well
    MaxResets,      \* how often the host resets the bus, a bound
    MaxTimeouts     \* how often a wait of portMAX_DELAY runs out, a bound

ASSUME SizeAssumption ==
    /\ TxQueue \in Nat \ {0} /\ RxQueue \in Nat \ {0}
    /\ TxBuf \in Nat \ {0} /\ RxBuf \in Nat \ {0}
    /\ Packet \in Nat \ {0} /\ TxBuf <= Packet /\ Packet <= RxBuf
    /\ MaxResets \in Nat /\ MaxTimeouts \in Nat
ASSUME CharAssumption ==
    /\ {CR, LF, NoChar} \subseteq Symbols /\ CR # LF
    /\ HostText \in Seq(Symbols)

VARIABLES
    initialized,        \* of usbcdc.c, set once the host configured the device
    usb_txq, usb_rxq,   \* the two queues
    at,                 \* where usb_task is: "poll", "queue", "fill", "write"
    txbuf, buf,         \* its packet to send; what the callback has to queue
    text, crSent,       \* per writer: what is left to put, a CR went ahead
    outEp, inEp,        \* the packet in the endpoint 0x01, 0x82; <<>> is none
    configured, resets, \* host: the endpoints are set up; bus resets so far
    unsaid,             \* host: what it still has to say
    timeouts,           \* waits for a queue that ran out so far
    put,                \* history: what usb_putc sent to usb_txq, from which
                        \* writer, and whether it entered the queue
    taken,              \* history: what usb_getc took out of usb_rxq
    heard,              \* history: what the host received
    cut,                \* history: a packet did not fit and lost its end
    given               \* history: per writer, the text it was given

driver == <<initialized, usb_rxq, at, txbuf, buf, cut>>
writers == <<text, crSent, given>>
host == <<configured, resets, unsaid>>
waits == <<timeouts, taken>>
vars == <<driver, writers, host, usb_txq, outEp, inEp, put, heard, waits>>

(* The queues, buffers and packets keep their sizes.                       *)
Fits(q, n) == q \in Seq(Symbols) /\ Len(q) <= n

FlagsOK ==
    /\ initialized \in BOOLEAN /\ configured \in BOOLEAN /\ cut \in BOOLEAN
    /\ resets \in 0..MaxResets /\ timeouts \in 0..MaxTimeouts
    /\ at \in {"poll", "queue", "fill", "write"}
    /\ crSent \in [Writers -> BOOLEAN]
QueuesOK ==
    /\ Fits(usb_txq, TxQueue) /\ Fits(usb_rxq, RxQueue) /\ Fits(txbuf, TxBuf)
    /\ Fits(buf, RxBuf) /\ Fits(inEp, TxBuf) /\ Fits(outEp, Packet)
TextsOK ==
    /\ unsaid \in Seq(Symbols) /\ heard \in Seq(Symbols) /\ taken \in Seq(Symbols)
    /\ put \in Seq([by : Writers, ch : Symbols, sent : BOOLEAN])
    /\ text \in [Writers -> Seq(Symbols)] /\ given \in [Writers -> Seq(Symbols)]
TypeOK == FlagsOK /\ QueuesOK /\ TextsOK

(* usb_start: empty queues, and the task at its loop.                      *)
Init ==
    /\ initialized = FALSE /\ usb_txq = <<>> /\ usb_rxq = <<>>
    /\ at = "poll" /\ txbuf = <<>> /\ buf = <<>>
    /\ text = [w \in Writers |-> <<>>] /\ given = [w \in Writers |-> <<>>]
    /\ crSent = [w \in Writers |-> FALSE]
    /\ outEp = <<>> /\ inEp = <<>> /\ configured = FALSE /\ resets = 0
    /\ unsaid = HostText /\ put = <<>> /\ heard = <<>> /\ cut = FALSE
    /\ timeouts = 0 /\ taken = <<>>

-----------------------------------------------------------------------------
(* The tasks that write and read                                           *)

(* usb_puts(s) begins.                                                     *)
Puts(w, s) ==
    /\ text[w] = <<>>
    /\ text' = [text EXCEPT ![w] = s]
    /\ given' = [given EXCEPT ![w] = @ \o s]
    /\ UNCHANGED crSent

(* With INCLUDE_vTaskSuspend 0 a wait of portMAX_DELAY is one of 2^32 - 1  *)
(* ticks: some seven weeks.                                                *)
TimeOut ==
    /\ timeouts < MaxTimeouts
    /\ timeouts' = timeouts + 1

(* xQueueSend(usb_txq, c, portMAX_DELAY) waits for space.  usb_putc does   *)
(* not look at whether there was any: else the character is lost.          *)
Send(w, c) ==
    \/ /\ Len(usb_txq) < TxQueue
       /\ usb_txq' = Append(usb_txq, c)
       /\ put' = Append(put, [by |-> w, ch |-> c, sent |-> TRUE])
       /\ UNCHANGED timeouts
    \/ /\ Len(usb_txq) = TxQueue
       /\ TimeOut
       /\ put' = Append(put, [by |-> w, ch |-> c, sent |-> FALSE])
       /\ UNCHANGED usb_txq

(* Mutant: the CR that went ahead is forgotten.                            *)
NeedsCrAgain(w) == Head(text[w]) = LF

(* usb_putc waits until usb_ready and sends a CR ahead of a LF.            *)
NeedsCr(w) == Head(text[w]) = LF /\ ~crSent[w]

PutChar(w) ==
    /\ text[w] # <<>>
    /\ initialized
    /\ \/ /\ NeedsCr(w)
          /\ Send(w, CR)
          /\ crSent' = [crSent EXCEPT ![w] = TRUE]
          /\ UNCHANGED text
       \/ /\ ~NeedsCr(w)
          /\ Send(w, Head(text[w]))
          /\ crSent' = [crSent EXCEPT ![w] = FALSE]
          /\ text' = [text EXCEPT ![w] = Tail(@)]
    /\ UNCHANGED <<driver, host, given, outEp, inEp, heard, taken>>

(* usb_getc: waits for a character and takes it, or returns -1.            *)
Getc(c) ==
    \/ /\ usb_rxq # <<>>
       /\ c = Head(usb_rxq)
       /\ usb_rxq' = Tail(usb_rxq)
       /\ taken' = Append(taken, c)
       /\ UNCHANGED timeouts
    \/ /\ usb_rxq = <<>>
       /\ TimeOut
       /\ c = NoChar
       /\ UNCHANGED <<usb_rxq, taken>>

-----------------------------------------------------------------------------
(* usb_task                                                                *)

(* cdcacm_data_rx_cb: with no space nothing is read and the packet stays.  *)
(* Else as much as fits is read, and reading frees the endpoint.           *)
Avail == RxQueue - Len(usb_rxq)

(* Mutant: the space in the queue is not looked at.                        *)
ToReadAll == RxBuf

ToRead == IF RxBuf < Avail THEN RxBuf ELSE Avail

Receive ==
    /\ at = "poll" /\ outEp # <<>> /\ Avail > 0
    /\ buf' = SubSeq(outEp, 1, IF Len(outEp) < ToRead THEN Len(outEp) ELSE ToRead)
    /\ outEp' = <<>>
    /\ cut' = (cut \/ Len(outEp) > ToRead)
    /\ at' = "queue"
    /\ UNCHANGED <<initialized, usb_rxq, txbuf, writers, host, usb_txq, inEp, put, heard, waits>>

(* xQueueSend(usb_rxq, &buf[x], 0) drops the character if there is no      *)
(* space.                                                                  *)
QueueReceived ==
    /\ at = "queue"
    /\ \/ /\ buf # <<>>
          /\ buf' = Tail(buf)
          /\ usb_rxq' = IF Avail > 0 THEN Append(usb_rxq, Head(buf)) ELSE usb_rxq
          /\ UNCHANGED at
       \/ /\ buf = <<>>
          /\ at' = IF initialized THEN "fill" ELSE "poll"
          /\ UNCHANGED <<buf, usb_rxq>>
    /\ UNCHANGED <<initialized, txbuf, cut, writers, host, usb_txq, outEp, inEp, put, heard, waits>>

(* usbd_poll finds nothing it can take.                                    *)
PollNothing ==
    /\ at = "poll" /\ initialized
    /\ outEp = <<>> \/ Avail = 0
    /\ at' = "fill"
    /\ UNCHANGED <<initialized, usb_rxq, txbuf, buf, cut, writers, host, usb_txq,
                   outEp, inEp, put, heard, waits>>

(* Mutant: the queue is waited for.                                        *)
FillBlocking ==
    /\ at = "fill"
    /\ \/ /\ Len(txbuf) < TxBuf /\ usb_txq # <<>>
          /\ txbuf' = Append(txbuf, Head(usb_txq))
          /\ usb_txq' = Tail(usb_txq)
          /\ UNCHANGED at
       \/ /\ Len(txbuf) = TxBuf
          /\ at' = "write"
          /\ UNCHANGED <<txbuf, usb_txq>>
    /\ UNCHANGED <<initialized, usb_rxq, buf, cut, writers, host, outEp, inEp, put, heard, waits>>

(* Fill txbuf while the queue has characters, then go to send it.          *)
Fill ==
    /\ at = "fill"
    /\ \/ /\ Len(txbuf) < TxBuf /\ usb_txq # <<>>
          /\ txbuf' = Append(txbuf, Head(usb_txq))
          /\ usb_txq' = Tail(usb_txq)
          /\ UNCHANGED at
       \/ /\ Len(txbuf) = TxBuf \/ usb_txq = <<>>
          /\ at' = IF txbuf = <<>> THEN "poll" ELSE "write"
          /\ UNCHANGED <<txbuf, usb_txq>>
    /\ UNCHANGED <<initialized, usb_rxq, buf, cut, writers, host, outEp, inEp, put, heard, waits>>

(* Mutant: a refused packet is dropped.                                    *)
WriteOnce ==
    /\ at = "write"
    /\ inEp' = IF inEp = <<>> THEN txbuf ELSE inEp
    /\ txbuf' = <<>>
    /\ at' = "poll"
    /\ UNCHANGED <<initialized, usb_rxq, buf, cut, writers, host, usb_txq, outEp, put, heard,
                   waits>>

(* usbd_ep_write_packet takes the packet unless it still holds one; txbuf  *)
(* is emptied only if it was taken.                                        *)
Write ==
    /\ at = "write"
    /\ IF inEp = <<>>
       THEN inEp' = txbuf /\ txbuf' = <<>>
       ELSE UNCHANGED <<inEp, txbuf>>
    /\ at' = "poll"
    /\ UNCHANGED <<initialized, usb_rxq, buf, cut, writers, host, usb_txq, outEp, put, heard,
                   waits>>

UsbTask == Receive \/ QueueReceived \/ PollNothing \/ Fill \/ Write

-----------------------------------------------------------------------------
(* The host, external                                                      *)

(* It selects the configuration: usbd_poll calls cdcacm_set_config, which  *)
(* sets up the endpoints afresh.                                           *)
SetConfig ==
    /\ at = "poll" /\ ~configured
    /\ initialized' = TRUE /\ configured' = TRUE
    /\ outEp' = <<>> /\ inEp' = <<>>
    /\ at' = "fill"
    /\ UNCHANGED <<usb_rxq, txbuf, buf, cut, writers, resets, unsaid, usb_txq, put, heard, waits>>

(* It resets the bus.  A packet received before may still be announced to  *)
(* the callback; initialized stays.                                        *)
BusReset ==
    /\ configured /\ resets < MaxResets
    /\ configured' = FALSE /\ resets' = resets + 1
    /\ inEp' = <<>> /\ outEp' \in {<<>>, outEp}
    /\ UNCHANGED <<driver, writers, unsaid, usb_txq, put, heard, waits>>

HostWrites == \E n \in 1..Packet :
    /\ configured /\ outEp = <<>> /\ n <= Len(unsaid)
    /\ outEp' = SubSeq(unsaid, 1, n)
    /\ unsaid' = SubSeq(unsaid, n + 1, Len(unsaid))
    /\ UNCHANGED <<driver, writers, configured, resets, usb_txq, inEp, put, heard, waits>>

HostReads ==
    /\ configured /\ inEp # <<>>
    /\ heard' = heard \o inEp
    /\ inEp' = <<>>
    /\ UNCHANGED <<driver, writers, host, usb_txq, outEp, put, waits>>

Host == SetConfig \/ BusReset \/ HostWrites \/ HostReads

-----------------------------------------------------------------------------
(* Properties                                                              *)

(* The characters that entered the queue.                                  *)
Chars(s) == FlattenSeq([i \in 1..Len(s) |-> IF s[i].sent THEN <<s[i].ch>> ELSE <<>>])

(* What is under way to the host, and to the reader.                       *)
ToHost == inEp \o txbuf \o usb_txq
ToReader == usb_rxq \o buf \o outEp

(* What usb_putc makes of a text: a CR ahead of every LF.                  *)
Cooked(s) == FlattenSeq([i \in 1..Len(s) |-> IF s[i] = LF THEN <<CR, LF>> ELSE <<s[i]>>])

(* What one writer put, and what it has left to put.                       *)
PutBy(w) == FlattenSeq([i \in 1..Len(put) |-> IF put[i].by = w THEN <<put[i].ch>> ELSE <<>>])
LeftOf(w) == IF crSent[w] THEN Tail(Cooked(text[w])) ELSE Cooked(text[w])

(* Writers interleave character by character, yet each one's characters go *)
(* to the queue in its own order, and with CRs only where usb_putc adds    *)
(* them: what it put and what it has left make up what it was given, also  *)
(* when a character is lost because the queue stayed full for too long.    *)
EachWriterInOrder == \A w \in Writers : PutBy(w) \o LeftOf(w) = Cooked(given[w])

(* The CR that went ahead belongs to the LF its writer puts next.          *)
CrAheadOfLf == \A w \in Writers : crSent[w] => text[w] # <<>> /\ Head(text[w]) = LF

(* The callback sizes its read by the space it saw before: by the time it  *)
(* queues the characters they still fit, so none is dropped there.         *)
ReadFits == Len(buf) <= Avail
=============================================================================
