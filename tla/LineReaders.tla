---------------------------- MODULE LineReaders ----------------------------
(***************************************************************************)
(* The two tasks of src/asio/processor.hh that make lines of a stream of   *)
(* bytes: ReadTelnetLine, which the master gives the bytes of a session,   *)
(* and ReadLineCRLF, which the player gives the header of the answer, one  *)
(* task after another.  Here both are given the same bytes.                *)
(*                                                                         *)
(* The bytes are those a telnet client sends: text, ends of lines (any of  *)
(* the forms src/task.txt:170 mentions) and the sequences that begin with  *)
(* IAC.  What the client means by them is the reference the lines are      *)
(* compared with.                                                          *)
(***************************************************************************)
EXTENDS Integers, Sequences, SequencesExt

CONSTANTS
  Text,     \* bytes of text, other than ends of lines and IAC
  Argument, \* bytes that name an option
  Payload,  \* what a subnegotiation says of an option, IAC doubled
  MaxItem   \* how many pieces the client sends

NUL == 0
LF == 10
CR == 13
SE == 240
NOP == 241
SB == 250
WILL == 251
DONT == 254
IAC == 255

(* Every IAC is the first or the second of two.                            *)
Doubled(bytes) ==
  \E first \in SUBSET (1..Len(bytes) - 1) :
    \A i \in 1..Len(bytes) :
      /\ bytes[i] = IAC <=> (i \in first \/ i - 1 \in first)
      /\ i \in first => i - 1 \notin first

ASSUME LineReadersAssumption ==
  /\ Text \subseteq 1..254 \ {LF, CR}
  /\ Argument \subseteq 0..255
  /\ Payload \subseteq Seq(0..255) /\ \A bytes \in Payload : Doubled(bytes)
  /\ MaxItem \in Nat

VARIABLES
  stream,          \* bytes sent and not yet given to the tasks
  items,           \* how many pieces the client has sent
  mode, buffer,    \* ReadTelnetLine
  lines,           \* the lines on_line_received was emitted for
  crlf_buffer,     \* ReadLineCRLF::buffer
  crlf_lines,      \* the lines its actions were called with
  escaped,         \* reference: has the client just sent IAC IAC?
  meant, partial,  \* reference: the lines of the client, the line it is in
  fed,             \* history: the bytes given to the tasks
  lost             \* history: was a sequence begun by accident?

telnet == <<mode, buffer, lines>>
crlf == <<crlf_buffer, crlf_lines>>
client == <<items, escaped, meant, partial, lost>>
readersVars == <<stream, client, telnet, crlf, fed>>

ReadersInit ==
  /\ stream = <<>> /\ items = 0
  /\ mode = "Text" /\ buffer = <<>> /\ lines = <<>>
  /\ crlf_buffer = <<>> /\ crlf_lines = <<>>
  /\ escaped = FALSE /\ meant = <<>> /\ partial = <<>>
  /\ fed = <<>> /\ lost = FALSE
-----------------------------------------------------------------------------
(* The telnet client.                                                      *)
EndOfLine == {<<CR, LF>>, <<CR, NUL>>, <<CR>>, <<LF>>}
Letter == {<<b>> : b \in Text}
Sequence ==
  {<<IAC, NOP>>}
    \cup {<<IAC, WILL, o>> : o \in Argument} \cup {<<IAC, DONT, o>> : o \in Argument}
    \cup {<<IAC, SB>> \o p \o <<IAC, SE>> : p \in Payload}

More == items < MaxItem

Put(bytes) ==
  /\ More
  /\ items' = items + 1
  /\ stream' = stream \o bytes
  /\ UNCHANGED <<telnet, crlf, fed>>

(* A sequence is no text.                                                  *)
SendSequence ==
  /\ \E bytes \in Sequence : Put(bytes)
  /\ escaped' = FALSE
  /\ UNCHANGED <<meant, partial, lost>>

(* The character 255 is sent as IAC IAC; the code drops it, and takes the  *)
(* next byte for a command.                                                *)
SendIAC ==
  /\ Put(<<IAC, IAC>>)
  /\ escaped' = TRUE
  /\ UNCHANGED <<meant, partial, lost>>

(* Text that is heard goes to the line; after IAC IAC it loses a byte,     *)
(* which may begin a command of more than one.                             *)
SendLetter ==
  /\ \E bytes \in Letter :
       /\ Put(bytes)
       /\ partial' = IF escaped THEN partial ELSE partial \o bytes
       /\ lost' = (lost \/ (escaped /\ bytes[1] \in SB..DONT))
  /\ escaped' = FALSE
  /\ UNCHANGED meant

(* The end of a line that is not empty; two bytes of it outlive IAC IAC.   *)
SendEnd ==
  /\ \E bytes \in EndOfLine :
       /\ Put(bytes)
       /\ IF partial = <<>> \/ (escaped /\ Len(bytes) = 1)
            THEN UNCHANGED <<meant, partial>>
            ELSE meant' = Append(meant, partial) /\ partial' = <<>>
  /\ escaped' = FALSE
  /\ UNCHANGED lost
-----------------------------------------------------------------------------
(* ReadTelnetLine::on_byte_received()                                      *)
Newline == {LF, CR, NUL}

ModeAfterSlip(b) ==                                              \* mutant
  CASE mode = "Text" -> IF b = IAC THEN "Command" ELSE "Text"
    [] mode = "Command" ->
         IF b \in WILL..DONT THEN "Option"
         ELSE IF b = IAC THEN "Command"
         ELSE IF b = SB THEN "Subnegotiation" ELSE "Text"
    [] mode = "Option" -> "Text"
    [] mode = "Subnegotiation" -> IF b = SE THEN "Text" ELSE mode
    [] mode = "SubnegotiationCommand" -> mode

ModeAfter(b) ==
  CASE mode = "Text" -> IF b = IAC THEN "Command" ELSE "Text"
    [] mode = "Command" ->
         IF b \in WILL..DONT THEN "Option"
         ELSE IF b = IAC THEN "Command"
         ELSE IF b = SB THEN "Subnegotiation" ELSE "Text"
    [] mode = "Option" -> "Text"
    [] mode = "Subnegotiation" ->
         IF b = IAC THEN "SubnegotiationCommand" ELSE "Subnegotiation"
    [] mode = "SubnegotiationCommand" ->
         IF b = SE THEN "Text" ELSE "Subnegotiation"

TelnetByte(b) ==
  /\ mode' = ModeAfter(b)
  /\ IF mode # "Text" \/ b = IAC \/ (b \in Newline /\ buffer = <<>>)
       THEN UNCHANGED <<buffer, lines>>
     ELSE IF b \in Newline
       THEN lines' = Append(lines, buffer) /\ buffer' = <<>>
     ELSE buffer' = Append(buffer, b) /\ UNCHANGED lines

EndsAtLF(b) == b = LF                                            \* mutant

(* Does b end the line in the buffer of ReadLineCRLF?                      *)
EndsLine(b) == b = LF /\ crlf_buffer # <<>> /\ Last(crlf_buffer) = CR

(* ReadLineCRLF::on_byte_received(); a new task follows the one that ends. *)
CrlfByte(b) ==
  IF EndsLine(b)
    THEN /\ crlf_lines' = Append(crlf_lines, Front(crlf_buffer))
         /\ crlf_buffer' = <<>>
    ELSE crlf_buffer' = Append(crlf_buffer, b) /\ UNCHANGED crlf_lines

(* Processor::data_received_handler(): one byte after another, however     *)
(* they were cut into segments.                                            *)
DataReceived ==
  /\ stream # <<>>
  /\ TelnetByte(Head(stream)) /\ CrlfByte(Head(stream))
  /\ fed' = Append(fed, Head(stream))
  /\ stream' = Tail(stream)
  /\ UNCHANGED client

ReadersNext == SendSequence \/ SendIAC \/ SendLetter \/ SendEnd \/ DataReceived

ReadersSpec == ReadersInit /\ [][ReadersNext]_readersVars
-----------------------------------------------------------------------------
(* ReadTelnetLine hears the lines the client means, in order, and when all *)
(* bytes have come it is in the same line, outside of any sequence: all    *)
(* forms of ends of lines, two- and three-byte sequences and               *)
(* subnegotiations may come anywhere, in any segments.  The exception is   *)
(* IAC IAC: the character 255 is dropped and one byte after it as well,    *)
(* and nothing more is said once such a byte was the code of a command.    *)
LinesAsMeant ==
  ~lost =>
    /\ IsPrefix(lines, meant)
    /\ stream = <<>> =>
         /\ lines = meant /\ buffer = partial
         /\ mode = IF escaped THEN "Command" ELSE "Text"

(* Where a CR LF ends in the bytes given to the tasks, and where the line  *)
(* it ends begins: after the CR LF before it, or at the first byte.        *)
Ends == {i \in 2..Len(fed) : fed[i - 1] = CR /\ fed[i] = LF}
Before(i) == Max({j \in Ends \cup {0} : j < i})

(* ReadLineCRLF cuts the stream at every CR LF and nowhere else, and       *)
(* neither loses nor moves a byte: the n-th line is what there is between  *)
(* the CR LF before and the n-th, and in the buffer is what came after the *)
(* last.                                                                   *)
CutAtCrlf ==
  /\ Len(crlf_lines) = Cardinality(Ends)
  /\ \A i \in Ends :
       crlf_lines[Cardinality({j \in Ends : j <= i})] = SubSeq(fed, Before(i) + 1, i - 2)
  /\ crlf_buffer = SubSeq(fed, Before(Len(fed) + 1) + 1, Len(fed))
=============================================================================
