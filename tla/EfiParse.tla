------------------------------- MODULE EfiParse -------------------------------
(***************************************************************************)
(* LoadOption::parse and DevicePath::parse over the bounded reader of      *)
(* reader.rs, one step per piece of the value of a Boot#### variable:      *)
(* header, description, path list, nodes.                                  *)
(*                                                                         *)
(* Only positions and lengths are kept of the bytes, and of a node what    *)
(* identity.rs and identify.rs look at.  A byte is read once, so what it   *)
(* says is chosen when it is read.                                         *)
(***************************************************************************)
EXTENDS Naturals, Sequences

CONSTANTS
  Sizes,     \* the lengths of a variable
  Declared,  \* the values of FilePathListLength, 16 bits in the code
  Lengths,   \* the values of the length of a node, 16 bits in the code
  MaxNodes   \* MAX_NODES

ASSUME ParserAssumption ==
  /\ Sizes \subseteq Nat /\ Declared \subseteq Nat /\ Lengths \subseteq Nat
  /\ MaxNodes \in Nat

NODE_HEADER_LEN == 4

\* attributes and FilePathListLength
OptionHeaderLen == 6

VARIABLES
  size,       \* buf.len()
  pos,        \* the position of the reader
  stage,      \* what comes next: a piece, or "done", or the EfiParseError
  listStart,  \* the bytes of the path list
  listEnd,
  nodes       \* DevicePath.nodes

parserVars == <<size, pos, stage, listStart, listEnd, nodes>>

Failures == {"UnexpectedEof", "UnterminatedString", "FilePathListOutOfRange",
             "TooManyNodes", "NodeTooShort", "NodeOverruns"}

-----------------------------------------------------------------------------
(* Nodes                                                                   *)

\* The media and firmware forms that decode_body knows, and the length of the
\* body below which each is kept as Other.  A signature of a hard drive is a
\* GPT GUID, a GPT GUID of zeros, or something else.
MediaBody ==
  [HardDriveGpt |-> 38, HardDriveZero |-> 38, HardDriveOther |-> 38,
   CdRom |-> 20, FilePath |-> 0, FirmwareFile |-> 16, FirmwareVolume |-> 16]

\* The same for the messaging forms and the legacy one.
MessagingBody ==
  [Atapi |-> 4, Scsi |-> 4, Usb |-> 2, MacAddress |-> 33, UsbWwid |-> 6,
   Sata |-> 6, Nvme |-> 12, BiosBootSpec |-> 4]

\* The two nodes of type 0x7F, and all those that are kept raw.
PlainForms == {"EndEntire", "EndInstance", "Other"}

Forms == DOMAIN MediaBody \cup DOMAIN MessagingBody \cup PlainForms

\* MUTANT: the partition number alone makes a hard drive node.
ShortHardDrive(form, body) ==
  \/ form \in DOMAIN MediaBody /\ body >= 4
  \/ form \in DOMAIN MessagingBody /\ body >= MessagingBody[form]
  \/ form \in PlainForms

\* The body is long enough for its form.
LongEnough(form, body) ==
  \/ form \in DOMAIN MediaBody /\ body >= MediaBody[form]
  \/ form \in DOMAIN MessagingBody /\ body >= MessagingBody[form]
  \/ form \in PlainForms

\* decode_body never fails: a body that is too short makes the node Other.
Decoded(form, body) == IF LongEnough(form, body) THEN form ELSE "Other"

\* gpt_partition_guid finds node k: the first hard drive node with a GPT GUID
\* that is not all zeros.
GptPartitionGuid(k) ==
  /\ nodes[k].form = "HardDriveGpt"
  /\ \A l \in 1..k - 1 : nodes[l].form # "HardDriveGpt"

-----------------------------------------------------------------------------
(* Steps                                                                   *)

ParserInit ==
  /\ size \in Sizes
  /\ pos = 0 /\ stage = "header"
  /\ listStart = 0 /\ listEnd = 0 /\ nodes = << >>

\* An early return; the error says what was wrong.
Fails(error) ==
  /\ stage' = error
  /\ UNCHANGED <<size, pos, listStart, listEnd, nodes>>

\* The reader never takes more than what remains.
Remaining(end) == end - pos

\* attributes and FilePathListLength, which nothing uses before TakeList.
ReadHeader ==
  /\ stage = "header"
  /\ \/ Remaining(size) < OptionHeaderLen /\ Fails("UnexpectedEof")
     \/ /\ Remaining(size) >= OptionHeaderLen
        /\ pos' = pos + OptionHeaderLen
        /\ stage' = "description"
        /\ UNCHANGED <<size, listStart, listEnd, nodes>>

\* ucs2_nul_terminated reads one unit of the description.
ReadUnit ==
  /\ stage = "description"
  /\ \/ Remaining(size) < 2 /\ Fails("UnterminatedString")
     \/ /\ Remaining(size) >= 2
        /\ pos' = pos + 2
        /\ stage' \in {"description", "list"}
        /\ UNCHANGED <<size, listStart, listEnd, nodes>>

\* MUTANT: FilePathListLength is believed.
DeclaredBelieved(declared) == declared \in Nat

ListFits(declared) == Remaining(size) >= declared

\* The reader of the nodes gets the slice of the path list.
TakeList ==
  /\ stage = "list"
  /\ \E declared \in Declared :
       \/ ~ListFits(declared) /\ Fails("FilePathListOutOfRange")
       \/ /\ ListFits(declared)
          /\ listStart' = pos
          /\ listEnd' = pos + declared
          /\ stage' = "nodes"
          /\ UNCHANGED <<size, pos, nodes>>

\* Where the slice that the node reader holds ends.
EndOfSlice == listEnd

\* MUTANT: the reader skips the body only.
AfterBody(length) == pos + length - NODE_HEADER_LEN

AfterNode(length) == pos + length

\* parse_one has read a node of this form.
Pushed(form, length) ==
  /\ nodes' = Append(nodes, [at |-> pos, length |-> length,
                             form |-> Decoded(form, length - NODE_HEADER_LEN)])
  /\ pos' = AfterNode(length)
  /\ stage' = IF form = "EndEntire" THEN "done" ELSE "nodes"
  /\ UNCHANGED <<size, listStart, listEnd>>

\* One turn of the loop of DevicePath::parse, with parse_one.
ReadNode ==
  /\ stage = "nodes"
  /\ pos # EndOfSlice
  /\ \/ Len(nodes) >= MaxNodes /\ Fails("TooManyNodes")
     \/ /\ Len(nodes) < MaxNodes
        /\ Remaining(EndOfSlice) < NODE_HEADER_LEN /\ Fails("UnexpectedEof")
     \/ /\ Len(nodes) < MaxNodes
        /\ Remaining(EndOfSlice) >= NODE_HEADER_LEN
        /\ \E length \in Lengths :
             \/ length < NODE_HEADER_LEN /\ Fails("NodeTooShort")
             \/ /\ length >= NODE_HEADER_LEN
                /\ Remaining(EndOfSlice) < length /\ Fails("NodeOverruns")
             \/ /\ length >= NODE_HEADER_LEN
                /\ Remaining(EndOfSlice) >= length
                /\ \E form \in Forms : Pushed(form, length)

\* The slice is exhausted, with or without a final node.
EndOfList ==
  /\ stage = "nodes"
  /\ pos = EndOfSlice
  /\ stage' = "done"
  /\ UNCHANGED <<size, pos, listStart, listEnd, nodes>>

ParserNext == ReadHeader \/ ReadUnit \/ TakeList \/ ReadNode \/ EndOfList

ParserSpec == ParserInit /\ [][ParserNext]_parserVars

-----------------------------------------------------------------------------
(* Properties                                                              *)

Node == [at : Nat, length : Nat, form : Forms]

\* Every variable has its type; the reader stays in the buffer.
ParserTypeOK ==
  /\ size \in Nat /\ pos \in 0..size
  /\ stage \in {"header", "description", "list", "nodes", "done"} \cup Failures
  /\ listStart \in Nat /\ listEnd \in 0..size
  /\ nodes \in Seq(Node)

\* device_path.rs parse and parse_one: whatever lengths the firmware wrote,
\* the nodes follow one another without gap or overlap from the start of the
\* declared list, never beyond its end nor beyond MAX_NODES, and nothing
\* follows a final node.
NodesTileTheList ==
  /\ Len(nodes) <= MaxNodes
  /\ \A k \in DOMAIN nodes :
       /\ nodes[k].length >= NODE_HEADER_LEN
       /\ nodes[k].at = IF k = 1 THEN listStart
                        ELSE nodes[k - 1].at + nodes[k - 1].length
       /\ nodes[k].at + nodes[k].length <= listEnd
       /\ nodes[k].form = "EndEntire" => k = Len(nodes) /\ stage = "done"

\* device_path.rs decode_body and gpt_partition_guid, identity.rs
\* stable_id_for: the 16 bytes that become the identity of an entry, which
\* follow the header and 20 bytes of the body, belong to the declared list.
IdentityComesFromTheList ==
  stage = "done" => \A k \in DOMAIN nodes : GptPartitionGuid(k) =>
    LET guid == nodes[k].at + NODE_HEADER_LEN + 20
    IN listStart <= guid /\ guid + 16 <= listEnd

=============================================================================
