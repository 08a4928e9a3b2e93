---------------------------- MODULE AsciiTransfer ----------------------------
(***************************************************************************)
(* The line ends of transfers in ASCII mode.  RETR puts a CR before every  *)
(* LF that has none, STOR drops every CR; both see the text in buffers of  *)
(* whatever size a read gives.  A file is read byte by byte here, and a    *)
(* read may end behind any of them.                                        *)
(***************************************************************************)
EXTENDS Naturals, FiniteSets, SequencesExt

CONSTANT MaxBytes  \* bound on the length of a text

\* What the constants may be.
AsciiAssumption == MaxBytes \in Nat

Bytes == {"CR", "LF", "x"}

VARIABLE buffers  \* the text, as the reads give it

text == FlattenSeq(buffers)

Init == buffers = <<>>

Read ==
  /\ Len(text) < MaxBytes
  /\ \E b \in Bytes :
       \/ buffers' = Append(buffers, <<b>>)
       \/ buffers # <<>> /\ buffers' = Append(Front(buffers), Append(Last(buffers), b))

Spec == Init /\ [][Read]_buffers

-----------------------------------------------------------------------------
\* Fault: only the buffer itself is looked at.
ConvertsAlone(buffer, lastBufEndedWithCR) ==
  FlattenSeq([k \in DOMAIN buffer |->
    IF buffer[k] = "LF" /\ (k = 1 \/ buffer[k - 1] # "CR") THEN <<"CR", "LF">> ELSE <<buffer[k]>>])

\* One pass of the loop of RETR: what is sent of a buffer.
Converts(buffer, lastBufEndedWithCR) ==
  FlattenSeq([k \in DOMAIN buffer |->
    IF buffer[k] = "LF" /\ ~(IF k = 1 THEN lastBufEndedWithCR ELSE buffer[k - 1] = "CR")
      THEN <<"CR", "LF">> ELSE <<buffer[k]>>])

Retrieved ==
  FlattenSeq([k \in DOMAIN buffers |->
    Converts(buffers[k], k > 1 /\ Last(buffers[k - 1]) = "CR")])

\* doStorOrAppe: "Our hacky method is to drop all \r", of a buffer or of all of them.
DropsCR(buffer) == FlattenSeq([k \in DOMAIN buffer |-> IF buffer[k] = "CR" THEN <<>> ELSE <<buffer[k]>>])

-----------------------------------------------------------------------------
\* CmdRETR.java:99-136, CmdAbstractStore.java:130-144 - in whatever buffers a file is
\* read, each LF is sent with one CR before it and nothing else is added; and a file
\* without CR that was retrieved and is stored again is the same file.
AsciiIsFaithful ==
  LET sent == Retrieved
      bare == {k \in DOMAIN text : text[k] = "LF" /\ (k = 1 \/ text[k - 1] # "CR")}
  IN  /\ \A k \in DOMAIN sent : sent[k] = "LF" => k > 1 /\ sent[k - 1] = "CR"
      /\ Len(sent) = Len(text) + Cardinality(bare)
      /\ DropsCR(sent) = DropsCR(text)
=============================================================================
