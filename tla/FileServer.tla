----------------------------- MODULE FileServer -----------------------------
(***************************************************************************)
(* The file transfer plugin of the slave, file-service/file_server.c.      *)
(* One server record serves every master: handleAsdu runs for an ASDU of   *)
(* any of them, runTask for each in turn, each as one step (as in the      *)
(* threadless slave and in the CS 101 slave).  The files are those of the  *)
(* application: FileContent is the one it offers, a sequence of sections.      *)
(* Time is whether timeout has passed since lastSendTime.                  *)
(***************************************************************************)
EXTENDS Integers, Sequences, Functions

CONSTANTS
  FileMasters,   \* the connections
  FileContent,       \* the sections of the file, sequences of octets
  SegmentSize     \* maxSegmentSize

ASSUME FileAssumption ==
  /\ FileMasters # {} /\ SegmentSize \in Nat \ {0}
  /\ FileContent \in Seq(Seq(0..255)) /\ Len(FileContent) > 0
  /\ \A s \in DOMAIN FileContent : Len(FileContent[s]) > 0

VARIABLES
  fileState,      \* state
  selectedBy,     \* selectedConnection, "none" when selectedFile is NULL
  receiving,      \* fileReceiver # NULL
  fileName,       \* ca, ioa and nof
  currentSection, currentOffset, currentSize,
  sectionChecksum, fileChecksum,
  expired,        \* timeout has passed since lastSendTime
  reply,          \* the ASDU the last step sent
  sectionSum,     \* history: the octets of the section sent since its transmission began
  fileSum,        \* history: the sections announced since the file was called
  disturbed       \* history: "section", "file": that sectionChecksum, fileChecksum hold more
                  \* than they should; "last": that the last section announced did
checksums == <<sectionChecksum, fileChecksum, sectionSum, fileSum>>
cursor == <<currentSection, currentOffset, currentSize>>
fileVars == <<fileState, selectedBy, receiving, fileName, cursor, checksums, expired, reply,
              disturbed>>

\* ca, ioa, nof: the name of the file that exists, and another one.
FileNames == {"file", "other"}
FileErrors == {"UNKNOWN_CA"}   \* of the application's handlers; UNKNOWN_IOA is as this one
Octet(n) == n % 256
Total(octets) == Octet(FoldFunction(LAMBDA o, sum : o + sum, 0, octets))
getSectionSize(section) == IF section + 1 \in DOMAIN FileContent THEN Len(FileContent[section + 1]) ELSE 0

\* CS101_FileServer_create.
FileInit ==
  /\ fileState = "idle" /\ selectedBy = "none" /\ receiving = FALSE /\ fileName = "other"
  /\ currentSection = 0 /\ currentOffset = 0 /\ currentSize = 0
  /\ sectionChecksum = 0 /\ fileChecksum = 0 /\ sectionSum = 0 /\ fileSum = 0
  /\ expired = FALSE /\ reply = [kind |-> "none"] /\ disturbed = {}

\* The ASDUs of the send... functions.
CallFile         == [kind |-> "callFile"]
CallSection(s)   == [kind |-> "callSection", section |-> s]
FileAck(s, afq)  == [kind |-> "fileAck", section |-> s, afq |-> afq]
SectionReadyReply(s, size) == [kind |-> "sectionReady", section |-> s, size |-> size]
LastSection(s, sum)   == [kind |-> "lastSection", section |-> s, checksum |-> sum]
FileReadyReply(positive)   == [kind |-> "fileReady", positive |-> positive]
LastSegment(s, sum)   == [kind |-> "lastSegment", section |-> s, checksum |-> sum]
Mirror(what)     == [kind |-> "mirror", what |-> what]   \* the request, its COT or P/N changed
NoReply          == [kind |-> "none"]

\* A handler first looks at the time-out; a step that sends starts it anew.
Current == IF expired THEN "idle" ELSE fileState
Say(state, asdu) == fileState' = state /\ reply' = asdu /\ expired' = FALSE
Keep(asdu) == fileState' = Current /\ reply' = asdu /\ expired' = FALSE

\* A transmission that is given up between two segments leaves sectionChecksum as it is.
GivenUp == disturbed' = IF fileState = "transmit" /\ fileState' # "transmit" /\ currentOffset > 0
                         THEN disturbed \cup {"section"} ELSE disturbed

FileTimePasses ==
  /\ fileState # "idle" /\ ~expired
  /\ expired' = TRUE /\ reply' = NoReply
  /\ UNCHANGED <<fileState, selectedBy, receiving, fileName, cursor, checksums, disturbed>>

-----------------------------------------------------------------------------
\* F_FR_NA_1: a master wants to send a file; answer is what fileReadyHandler says.  It is
\* taken in every state.
FileReadyReceived(name, answer) ==
  /\ receiving' = (answer = "accept")
  /\ fileName' = IF answer \in {"accept", "refuse"} THEN name ELSE fileName
  /\ fileChecksum' = IF answer = "accept" THEN 0 ELSE fileChecksum
  /\ \/ answer = "accept" /\ Say("waitSectionReady", CallFile)
     \/ answer = "refuse" /\ Keep(FileReadyReply(FALSE))
     \/ answer \notin {"accept", "refuse"} /\ Keep(Mirror(answer))
  /\ GivenUp
  /\ UNCHANGED <<selectedBy, cursor, sectionChecksum, sectionSum, fileSum>>

\* A message of another kind than the state waits for is ignored, whichever it is.
MessageIgnored ==
  /\ Keep(NoReply) /\ GivenUp
  /\ UNCHANGED <<selectedBy, receiving, fileName, cursor, checksums>>

\* F_SR_NA_1.
SectionReadyReceived(section, length) ==
  /\ Current = "waitSectionReady"
  /\ currentSection' = section /\ currentOffset' = 0 /\ currentSize' = length
  /\ Say("receive", CallSection(section)) /\ GivenUp
  /\ UNCHANGED <<selectedBy, receiving, fileName, checksums>>

\* F_SG_NA_1: a segment goes to the receiver, at the offset the server counts.
SegmentReceived(length) ==
  /\ Current = "receive"
  /\ currentOffset' = currentOffset + length
  /\ Say("receive", NoReply) /\ GivenUp
  /\ UNCHANGED <<selectedBy, receiving, fileName, currentSection, currentSize, checksums>>

\* F_LS_NA_1: 1 the file ends, 2 the master aborts, 3 the section ends.
LastReceived(section, lsq) ==
  /\ \/ Current = "receive" /\ lsq = 3          /\ Say("waitSectionReady", FileAck(section, 3))
     \/ Current = "waitSectionReady" /\ lsq = 1 /\ Say("idle", FileAck(section, 1))
     \/ Current \in {"receive", "waitSectionReady"} /\ lsq = 2 /\ Say("idle", NoReply)
  /\ GivenUp
  /\ UNCHANGED <<selectedBy, receiving, fileName, cursor, checksums>>

-----------------------------------------------------------------------------
\* F_AF_NA_1, by the qualifier of the acknowledgement.  In a state that waits for no such
\* acknowledgement the transfer is to be aborted.
AckInIdle == Current = "idle" /\ Keep(Mirror("UNKNOWN_CA")) /\ GivenUp
             /\ UNCHANGED <<selectedBy, receiving, fileName, cursor, checksums>>
AckUnexpected(awaited) ==
  /\ Current \notin {"idle", awaited} /\ fileState' = "abort" /\ reply' = NoReply
  /\ GivenUp
  /\ UNCHANGED <<selectedBy, receiving, fileName, cursor, checksums, expired>>

\* 1 and 2: the file, positive or negative.
FileAcknowledged ==
  \/ AckInIdle \/ AckUnexpected("waitFileAck")
  \/ /\ Current = "waitFileAck" /\ Say("idle", NoReply)
     /\ selectedBy' = "none"
     /\ UNCHANGED <<receiving, fileName, cursor, checksums, disturbed>>

\* 4: the section is sent again, and counts again in fileChecksum.
SectionRefused ==
  \/ AckInIdle \/ AckUnexpected("waitSectionAck")
  \/ /\ Current = "waitSectionAck"
     /\ currentOffset' = 0 /\ sectionChecksum' = 0
     /\ sectionSum' = 0 /\ fileSum' = Octet(256 + fileSum - sectionSum)
     /\ Say("transmit", SectionReadyReply(currentSection, currentSize))
     /\ disturbed' = disturbed \cup {"file"}
     /\ UNCHANGED <<selectedBy, receiving, fileName, currentSection, currentSize,
                    fileChecksum>>

\* The section after this one, or the end of the file.
NextSection ==
  /\ currentSection' = currentSection + 1 /\ currentOffset' = 0
  /\ IF getSectionSize(currentSection) = 0
       THEN Say("waitFileAck", LastSection(currentSection + 1, fileChecksum))
       ELSE Say("waitSectionCall", SectionReadyReply(currentSection + 1,
                                                getSectionSize(currentSection)))

\* 3: the section was received.
SectionAcknowledged ==
  \/ AckInIdle \/ AckUnexpected("waitSectionAck")
  \/ /\ Current = "waitSectionAck" /\ NextSection
     /\ currentSize' = IF getSectionSize(currentSection) = 0 THEN currentSize
                       ELSE getSectionSize(currentSection)
     /\ sectionChecksum' = 0
     /\ UNCHANGED <<selectedBy, receiving, fileName, fileChecksum, sectionSum, fileSum,
                    disturbed>>

-----------------------------------------------------------------------------
\* F_SC_NA_1 with the cause FILE_TRANSFER: a file is selected, or the application has none
\* of that name.
SelectFile(c, name) ==
  /\ Current = "idle"
  /\ selectedBy' = c /\ fileName' = name /\ Say("waitFileCall", FileReadyReply(TRUE))
  /\ GivenUp
  /\ UNCHANGED <<receiving, cursor, checksums>>

SelectRefused(name, answer) ==
  /\ Current = "idle"
  /\ IF answer = "refuse" THEN fileName' = name /\ Keep(FileReadyReply(FALSE))
                          ELSE fileName' = fileName /\ Keep(Mirror(answer))
  /\ GivenUp
  /\ UNCHANGED <<selectedBy, receiving, cursor, checksums>>

\* Only when nothing is selected.
DeactivateFile ==
  /\ Current = "idle" /\ selectedBy' = "none"
  /\ Keep(NoReply) /\ GivenUp
  /\ UNCHANGED <<receiving, fileName, cursor, checksums>>

WrongName(name) == name # fileName /\ Keep(Mirror("UNKNOWN_CA_IOA"))
                   /\ UNCHANGED <<selectedBy, receiving, fileName, cursor, checksums, disturbed>>

CallReceived(name) ==
  \/ Current = "waitFileCall" /\ WrongName(name)
  \/ /\ Current = "waitFileCall" /\ name = fileName
     /\ currentSection' = 1 /\ currentOffset' = 0 /\ currentSize' = getSectionSize(0)
     /\ fileChecksum' = 0 /\ fileSum' = 0 /\ disturbed' = disturbed \ {"file"}
     /\ Say("waitSectionCall", SectionReadyReply(1, getSectionSize(0)))
     /\ UNCHANGED <<selectedBy, receiving, fileName, sectionChecksum, sectionSum>>

\* A negative call skips the section; a positive one asks for any section of the file.
SectionCallReceived(name, section, negative) ==
  \/ Current = "waitSectionCall" /\ WrongName(name)
  \/ /\ Current = "waitSectionCall" /\ name = fileName /\ negative
     /\ NextSection
     /\ currentSize' = getSectionSize(currentSection)
     /\ UNCHANGED <<selectedBy, receiving, fileName, checksums, disturbed>>
  \/ /\ Current = "waitSectionCall" /\ name = fileName /\ ~negative
     /\ currentSize' = getSectionSize(section - 1)
     /\ IF getSectionSize(section - 1) > 0
          THEN /\ currentSection' = section /\ currentOffset' = 0 /\ sectionSum' = 0
               /\ fileState' = "transmit" /\ reply' = NoReply /\ UNCHANGED expired
          ELSE /\ Keep(Mirror("negative"))
               /\ UNCHANGED <<currentSection, currentOffset, sectionSum>>
     /\ UNCHANGED <<selectedBy, receiving, fileName, sectionChecksum, fileChecksum, fileSum,
                    disturbed>>

-----------------------------------------------------------------------------
\* CS101_FileServer_runTask, called for every connection in turn: the next segment of the
\* section, or its end (sendSegment, sendLastSegment).
Sending(c) == fileState = "transmit" /\ selectedBy = c

Segment == SubSeq(FileContent[currentSection], currentOffset + 1,
                  IF currentSize - currentOffset > SegmentSize THEN currentOffset + SegmentSize
                  ELSE currentSize)

sendSegment(c) ==
  /\ Sending(c) /\ currentOffset < currentSize
  /\ currentOffset' = currentOffset + Len(Segment)
  /\ sectionChecksum' = Octet(sectionChecksum + Total(Segment))
  /\ sectionSum' = Octet(sectionSum + Total(Segment))
  /\ Say("transmit", [kind |-> "segment", section |-> currentSection, data |-> Segment])
  /\ UNCHANGED <<selectedBy, receiving, fileName, currentSection, currentSize, fileChecksum,
                 fileSum, disturbed>>

\* Mutant of sendLastSegment: the section counts in the file only after it was reset.
sendLastSegmentLate(c) ==
  /\ Sending(c) /\ currentOffset = currentSize
  /\ sectionChecksum' = 0
  /\ fileSum' = Octet(fileSum + sectionSum)
  /\ disturbed' = IF "section" \in disturbed THEN {"file", "last"} ELSE disturbed \ {"last"}
  /\ Say("waitSectionAck", LastSegment(currentSection, sectionChecksum))
  /\ UNCHANGED <<selectedBy, receiving, fileName, cursor, fileChecksum, sectionSum>>

sendLastSegment(c) ==
  /\ Sending(c) /\ currentOffset = currentSize
  /\ fileChecksum' = Octet(fileChecksum + sectionChecksum) /\ sectionChecksum' = 0
  /\ fileSum' = Octet(fileSum + sectionSum)
  /\ disturbed' = IF "section" \in disturbed THEN {"file", "last"} ELSE disturbed \ {"last"}
  /\ Say("waitSectionAck", LastSegment(currentSection, sectionChecksum))
  /\ UNCHANGED <<selectedBy, receiving, fileName, cursor, sectionSum>>

\* For another connection, or in another state, only the time-out counts.
runTaskTimeout(c) ==
  /\ ~Sending(c) /\ expired
  /\ Say("idle", NoReply) /\ GivenUp
  /\ UNCHANGED <<selectedBy, receiving, fileName, cursor, checksums>>

FileNext ==
  \/ FileTimePasses
  \/ \E name \in FileNames, answer \in {"accept", "refuse"} \cup FileErrors :
        FileReadyReceived(name, answer)
  \/ MessageIgnored
  \/ SectionReadyReceived(1, SegmentSize)
  \/ currentOffset < SegmentSize /\ SegmentReceived(1)
  \/ \E lsq \in 1..3 : LastReceived(1, lsq)
  \/ FileAcknowledged \/ SectionRefused \/ SectionAcknowledged
  \/ \E c \in FileMasters : SelectFile(c, "file")
  \/ \E answer \in {"refuse"} \cup FileErrors : SelectRefused("other", answer)
  \/ DeactivateFile
  \/ \E name \in FileNames : CallReceived(name)
  \/ \E name \in FileNames, section \in 1..(Len(FileContent) + 1), negative \in BOOLEAN :
        SectionCallReceived(name, section, negative)
  \/ \E c \in FileMasters : sendSegment(c) \/ sendLastSegment(c) \/ runTaskTimeout(c)

FileSpec == FileInit /\ [][FileNext]_fileVars

-----------------------------------------------------------------------------
\* The master can trust the checksums: the one that ends a section is that of the octets
\* sent for it, and the one that ends the file that of the sections announced since the file
\* was called - unless a transmission was given up between two segments, which leaves
\* sectionChecksum for the next one, or a section was sent again, which counts twice.
ChecksumsTrue ==
  /\ reply.kind = "lastSegment" /\ "last" \notin disturbed => reply.checksum = sectionSum
  /\ reply.kind = "lastSection" /\ "file" \notin disturbed => reply.checksum = fileSum
=============================================================================
