----------------------------- MODULE UsbTasks -----------------------------
(***************************************************************************)
(* The two tasks of src/epmw_firmware/main.c that use the serial port,     *)
(* usb_data_receiver and blink_task, composed with the port (UsbCdc).      *)
(* main has the calls that start them commented out.                       *)
(***************************************************************************)
EXTENDS UsbCdc

CONSTANTS
    Received,           \* the text "Received: "
    Tests,              \* the texts blink_task puts, in turn
    Nul,                \* the character that ends a string
    Buffer              \* the size of the receiver's buffer

VARIABLES
    buffer, cr_received, \* of usb_data_receiver; index is Len(buffer)
    answering,          \* it is in usb_puts
    overrun,            \* it wrote behind its buffer
    displayed,          \* the line it has put on the display last
    blinks,             \* texts blink_task has put
    got                 \* history: what usb_getc returned

(* index is a uint8_t.                                                     *)
ASSUME BufferAssumption == Buffer \in 1..255
ASSUME TextAssumption ==
    /\ {"receiver", "blink"} \subseteq Writers
    /\ Received \in Seq(Symbols) /\ Tests \in Seq(Seq(Symbols))

receiver == <<buffer, cr_received, answering, overrun, displayed, got>>
tasksVars == <<vars, receiver, blinks>>

TasksInit ==
    /\ Init
    /\ buffer = <<>> /\ cr_received = FALSE /\ answering = FALSE
    /\ overrun = FALSE /\ displayed = <<>>
    /\ blinks = 0 /\ got = <<>>

(* What usb_puts prints of a buffer that ends with a Nul.                  *)
CString(s) ==
    LET nuls == {i \in 1..Len(s) : s[i] = Nul}
    IN  IF nuls = {} THEN s
        ELSE SubSeq(s, 1, (CHOOSE i \in nuls : \A j \in nuls : i <= j) - 1)

(* Mutant: the CR is not asked for.                                        *)
LineDoneAtLf(c) == c = LF

LineDone(c) == c = LF /\ cr_received

(* Is there a place for the character and, behind a completed line, for    *)
(* the Nul?                                                                *)
HasRoom(c) == Len(buffer) + (IF LineDone(c) THEN 1 ELSE 0) < Buffer

(* A character is stored; a LF right after a CR completes the line, which  *)
(* is answered.                                                            *)
Store(c) ==
    /\ buffer' = Append(buffer, c)
    /\ IF LineDone(c)
       THEN /\ Puts("receiver", Received \o CString(buffer'))
            /\ answering' = TRUE
            /\ UNCHANGED cr_received
       ELSE /\ cr_received' = (c = CR)
            /\ UNCHANGED <<answering, writers>>
    /\ UNCHANGED overrun

(* The receiver does not look at the end of its buffer.  What it does once *)
(* it wrote behind it, C leaves open: here it does nothing any more.       *)
Overrun ==
    /\ overrun' = TRUE
    /\ UNCHANGED <<buffer, cr_received, answering, writers>>

ReceiveChar ==
    /\ ~answering /\ ~overrun
    /\ \E c \in Symbols :
        /\ Getc(c)
        /\ got' = Append(got, c)
        /\ IF HasRoom(c) THEN Store(c) ELSE Overrun
    /\ UNCHANGED <<initialized, at, txbuf, buf, cut, host, usb_txq, outEp, inEp, put,
                   heard, blinks, displayed>>

(* The answer is put and the line displayed: index and cr_received start   *)
(* again.                                                                  *)
Answered ==
    /\ answering /\ text["receiver"] = <<>>
    /\ displayed' = CString(buffer)
    /\ answering' = FALSE /\ buffer' = <<>> /\ cr_received' = FALSE
    /\ UNCHANGED <<vars, blinks, got, overrun>>

Blink ==
    /\ blinks < Len(Tests)
    /\ Puts("blink", Tests[blinks + 1])
    /\ blinks' = blinks + 1
    /\ UNCHANGED <<driver, host, usb_txq, outEp, inEp, put, heard, waits, receiver>>

Tasks == ReceiveChar \/ Answered \/ Blink
Port == (UsbTask \/ Host \/ \E w \in Writers : PutChar(w)) /\ UNCHANGED <<receiver, blinks>>

Next == Tasks \/ Port

(* The tasks have one priority and share the processor by time slices; the *)
(* host polls the endpoints.  Its request to configure the device stays    *)
(* until usbd_poll finds it, which usb_task calls again and again.  No     *)
(* wait has to run out.                                                    *)
Fairness ==
    /\ WF_tasksVars(UsbTask /\ UNCHANGED <<receiver, blinks>>)
    /\ \A w \in Writers :
          WF_tasksVars(Len(usb_txq) < TxQueue /\ PutChar(w) /\ UNCHANGED <<receiver, blinks>>)
    /\ WF_tasksVars((usb_rxq # <<>> /\ ReceiveChar) \/ Answered) /\ WF_tasksVars(Blink)
    /\ SF_tasksVars(SetConfig /\ UNCHANGED <<receiver, blinks>>)
    /\ WF_tasksVars(HostWrites /\ UNCHANGED <<receiver, blinks>>)
    /\ WF_tasksVars(HostReads /\ UNCHANGED <<receiver, blinks>>)

Spec == TasksInit /\ [][Next]_tasksVars /\ Fairness

-----------------------------------------------------------------------------
(* Properties                                                              *)

(* The lines a text completes end at a LF right after a CR, and begin      *)
(* behind the end of the line before.                                      *)
Ends(s) == {i \in 2..Len(s) : s[i] = LF /\ s[i - 1] = CR}
LineStart(s, i) ==
    LET before == {j \in Ends(s) : j < i}
    IN  IF before = {} THEN 1 ELSE 1 + CHOOSE j \in before : \A k \in before : k <= j
LineAt(s, i) == SubSeq(s, LineStart(s, i), i)

(* The answers to them, one after the other.                               *)
AnswerAt(s, i) ==
    IF i \in Ends(s) THEN Received \o CString(LineAt(s, i)) ELSE <<>>
Answers(s) == FlattenSeq([i \in 1..Len(s) |-> AnswerAt(s, i)])

(* A line too long for the buffer: a completed one has a Nul behind it.    *)
TooLong(s) == \E i \in 1..Len(s) :
    Len(LineAt(s, i)) + (IF i \in Ends(s) THEN 1 ELSE 0) > Buffer

(* However packets cut the host's text, whatever is lost of it, and while  *)
(* blink_task puts its own between, the receiver answers every completed   *)
(* line, whole and once, and displays it before it reads on.  It does so   *)
(* until a line is longer than its buffer, which it then overruns          *)
(* (main.c:22-25): nothing else makes it write behind the end.             *)
AnswersEachLine ==
    /\ overrun <=> TooLong(got)
    /\ ~overrun => given["receiver"] = Answers(got)
    /\ ~overrun /\ ~answering => \A i \in Ends(got) :
          LineStart(got, Len(got) + 1) = i + 1 => displayed = CString(LineAt(got, i))

(* The receiver's buffer holds the line it has begun, and cr_received what *)
(* it read last; while an answer is under way, it is the line that ended.  *)
BufferIsLine ==
    /\ answering => Len(got) \in Ends(got) /\ buffer = LineAt(got, Len(got))
    /\ ~answering /\ ~overrun =>
        /\ buffer = SubSeq(got, LineStart(got, Len(got) + 1), Len(got))
        /\ cr_received = (got # <<>> /\ got[Len(got)] = CR)

(* The two directions of the port as serial lines.  The way out loses      *)
(* nothing until the host resets the bus, whatever is refused or full; the *)
(* way in loses nothing either until then, or until a packet does not fit  *)
(* and its end is lost with it (usbcdc.c:220-296).                         *)
Said == SubSeq(HostText, 1, Len(HostText) - Len(unsaid))

Outgoing == INSTANCE ByteChannel WITH
    broken <- resets > 0,
    accepted <- Chars(put), pending <- ToHost, delivered <- heard
Incoming == INSTANCE ByteChannel WITH
    broken <- resets > 0 \/ cut,
    accepted <- Said, pending <- ToReader, delivered <- taken
OutgoingIsALine == Outgoing!Spec
IncomingIsALine == Incoming!Spec

(* Nothing stays under way: usb_task empties the queues however often the  *)
(* endpoints refuse, the receiver waits to answer and the host resets.     *)
(* Only a receiver that overran its buffer reads nothing any more.         *)
AllArrives ==
    <>[](~overrun => unsaid = <<>> /\ ToReader = <<>> /\ ToHost = <<>> /\ blinks = Len(Tests)
         /\ \A w \in Writers : text[w] = <<>>)
=============================================================================
