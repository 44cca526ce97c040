--------------------------- MODULE EfiParseProofs ---------------------------
(***************************************************************************)
(* The properties of EfiParse, for every length of a variable, every       *)
(* length its bytes may declare and every bound on the nodes.              *)
(***************************************************************************)
EXTENDS EfiParse, TLAPS

\* Where the reader stands with respect to the list and to the last node.
Standing ==
  /\ stage \in {"header", "description", "list"} => nodes = << >>
  /\ stage \in {"nodes", "done"} =>
       /\ listStart <= pos /\ pos <= listEnd
       /\ pos = IF nodes = << >> THEN listStart
                ELSE nodes[Len(nodes)].at + nodes[Len(nodes)].length

\* A node is not before the list, and one that is decoded as a hard drive has
\* the body of one.
WholeHardDrives ==
  \A k \in DOMAIN nodes :
    /\ listStart <= nodes[k].at
    /\ nodes[k].form = "HardDriveGpt" => nodes[k].length >= 42

ParserInv == ParserTypeOK /\ Standing /\ NodesTileTheList /\ WholeHardDrives

\* The invariant holds before the first byte.
LEMMA ParserInitInv == ParserInit => ParserInv
  BY ParserAssumption
  DEF ParserInit, ParserInv, ParserTypeOK, Standing, NodesTileTheList,
      WholeHardDrives

\* An early return changes nothing but the stage.
LEMMA FailureInv ==
  ASSUME ParserInv, stage # "done", NEW error \in Failures, Fails(error)
  PROVE  ParserInv'
<1>1. error \notin {"header", "description", "list", "nodes", "done"}
  BY DEF Failures
<1>2. ParserTypeOK'
  BY DEF ParserInv, ParserTypeOK, Fails
<1>3. Standing'
  BY <1>1 DEF ParserInv, Standing, Fails
<1>4. NodesTileTheList'
  BY DEF ParserInv, NodesTileTheList, Fails
<1>5. WholeHardDrives'
  BY DEF ParserInv, WholeHardDrives, Fails
<1> QED
  BY <1>2, <1>3, <1>4, <1>5 DEF ParserInv

\* A body that is long enough is that of its form.
LEMMA DecodedForm ==
  ASSUME NEW form \in Forms, NEW body \in Nat
  PROVE  /\ Decoded(form, body) \in Forms
         /\ Decoded(form, body) = "EndEntire" <=> form = "EndEntire"
         /\ Decoded(form, body) = "HardDriveGpt" => body >= 38
  BY DEF Decoded, LongEnough, Forms, MediaBody, MessagingBody, PlainForms

\* A node that lies in the list keeps the tiling.
LEMMA PushedInv ==
  ASSUME ParserInv, stage = "nodes", Len(nodes) < MaxNodes,
         NEW length \in Lengths, length >= NODE_HEADER_LEN,
         Remaining(EndOfSlice) >= length,
         NEW form \in Forms, Pushed(form, length)
  PROVE  ParserInv'
<1> DEFINE node == [at |-> pos, length |-> length,
                    form |-> Decoded(form, length - NODE_HEADER_LEN)]
<1>1. /\ size \in Nat /\ pos \in Nat /\ listEnd \in Nat /\ listStart \in Nat
      /\ length \in Nat /\ MaxNodes \in Nat
      /\ nodes \in Seq(Node)
      /\ listEnd <= size
  BY ParserAssumption DEF ParserInv, ParserTypeOK
<1>2. length - NODE_HEADER_LEN \in Nat
  BY <1>1 DEF NODE_HEADER_LEN
<1>3. /\ node \in Node
      /\ node.form = "EndEntire" <=> form = "EndEntire"
      /\ node.form = "HardDriveGpt" => length >= 42
  BY <1>1, <1>2, DecodedForm DEF Node, NODE_HEADER_LEN
<1>4. pos + length <= listEnd
  BY <1>1 DEF Remaining, EndOfSlice
<1>5. /\ nodes' = Append(nodes, node) /\ pos' = pos + length
      /\ stage' = IF form = "EndEntire" THEN "done" ELSE "nodes"
      /\ UNCHANGED <<size, listStart, listEnd>>
  BY DEF Pushed, AfterNode
<1> HIDE DEF node
<1>6. /\ nodes' \in Seq(Node)
      /\ Len(nodes') = Len(nodes) + 1 /\ DOMAIN nodes' = 1..Len(nodes) + 1
      /\ DOMAIN nodes = 1..Len(nodes) /\ Len(nodes) \in Nat
      /\ nodes'[Len(nodes) + 1] = node
      /\ \A k \in 1..Len(nodes) : nodes'[k] = nodes[k]
  BY <1>1, <1>3, <1>5
<1>7. node.at = pos /\ node.length = length
  BY DEF node
<1>8. ParserTypeOK'
  BY <1>1, <1>4, <1>5, <1>6 DEF ParserTypeOK
<1>9. nodes' # << >>
  BY <1>6
<1>10. Standing'
  <2>1. stage' \in {"nodes", "done"}
    BY <1>5
  <2>2. listStart' <= pos' /\ pos' <= listEnd'
    BY <1>1, <1>4, <1>5 DEF ParserInv, Standing
  <2>3. pos' = nodes'[Len(nodes')].at + nodes'[Len(nodes')].length
    BY <1>5, <1>6, <1>7
  <2> QED
    BY <1>9, <2>1, <2>2, <2>3 DEF Standing
<1>11. NodesTileTheList'
  <2>1. Len(nodes') <= MaxNodes
    BY <1>1, <1>6
  <2>2. ASSUME NEW k \in 1..Len(nodes)
        PROVE  /\ nodes'[k].length >= NODE_HEADER_LEN
               /\ nodes'[k].at = IF k = 1 THEN listStart
                                 ELSE nodes'[k - 1].at + nodes'[k - 1].length
               /\ nodes'[k].at + nodes'[k].length <= listEnd
               /\ nodes'[k].form # "EndEntire"
    <3>1. k # 1 => k - 1 \in 1..Len(nodes)
      BY <1>6
    <3> QED
      BY <1>6, <3>1 DEF ParserInv, NodesTileTheList
  <2>3. node.at = IF Len(nodes) + 1 = 1 THEN listStart
                  ELSE nodes'[Len(nodes)].at + nodes'[Len(nodes)].length
    <3>1. CASE nodes = << >>
      BY <1>6, <1>7, <3>1 DEF ParserInv, Standing
    <3>2. CASE nodes # << >>
      <4>1. Len(nodes) \in 1..Len(nodes)
        BY <1>1, <1>6, <3>2
      <4> QED
        BY <1>6, <1>7, <3>2, <4>1 DEF ParserInv, Standing
    <3> QED
      BY <3>1, <3>2
  <2>4. node.form = "EndEntire" => stage' = "done"
    BY <1>3, <1>5
  <2>5. Len(nodes) + 1 - 1 = Len(nodes)
    BY <1>6
  <2>6. ASSUME NEW k \in DOMAIN nodes'
        PROVE  /\ nodes'[k].length >= NODE_HEADER_LEN
               /\ nodes'[k].at = IF k = 1 THEN listStart'
                                 ELSE nodes'[k - 1].at + nodes'[k - 1].length
               /\ nodes'[k].at + nodes'[k].length <= listEnd'
               /\ nodes'[k].form = "EndEntire" =>
                    k = Len(nodes') /\ stage' = "done"
    <3>1. CASE k \in 1..Len(nodes)
      BY <1>5, <2>2, <3>1
    <3>2. CASE k = Len(nodes) + 1
      <4>1. nodes'[k] = node /\ k - 1 = Len(nodes) /\ k = Len(nodes')
        BY <1>6, <2>5, <3>2
      <4>2. nodes'[k].at = IF k = 1 THEN listStart'
                           ELSE nodes'[k - 1].at + nodes'[k - 1].length
        BY <1>5, <2>3, <3>2, <4>1
      <4>3. /\ nodes'[k].length >= NODE_HEADER_LEN
            /\ nodes'[k].at + nodes'[k].length <= listEnd'
        BY <1>4, <1>5, <1>7, <4>1
      <4> QED
        BY <2>4, <4>1, <4>2, <4>3
    <3> QED
      BY <1>6, <3>1, <3>2
  <2> QED
    BY <2>1, <2>6 DEF NodesTileTheList
<1>12. WholeHardDrives'
  <2>1. ASSUME NEW k \in DOMAIN nodes'
        PROVE  /\ listStart' <= nodes'[k].at
               /\ nodes'[k].form = "HardDriveGpt" => nodes'[k].length >= 42
    <3>1. CASE k \in 1..Len(nodes)
      BY <1>5, <1>6, <2>1, <3>1 DEF ParserInv, WholeHardDrives
    <3>2. CASE k = Len(nodes) + 1
      BY <1>3, <1>5, <1>6, <1>7, <2>1, <3>2 DEF ParserInv, Standing
    <3> QED
      BY <1>6, <3>1, <3>2
  <2> QED
    BY <2>1 DEF WholeHardDrives
<1> QED
  BY <1>8, <1>10, <1>11, <1>12 DEF ParserInv

\* Every step of the parser preserves the invariant.
LEMMA ParserStepInv == ParserInv /\ [ParserNext]_parserVars => ParserInv'
<1> SUFFICES ASSUME ParserInv, [ParserNext]_parserVars PROVE ParserInv'
  OBVIOUS
<1>1. /\ "UnexpectedEof" \in Failures /\ "UnterminatedString" \in Failures
      /\ "FilePathListOutOfRange" \in Failures /\ "TooManyNodes" \in Failures
      /\ "NodeTooShort" \in Failures /\ "NodeOverruns" \in Failures
  BY DEF Failures
<1>2. size \in Nat /\ pos \in Nat /\ pos <= size /\ Declared \subseteq Nat
  BY ParserAssumption DEF ParserInv, ParserTypeOK
<1>3. CASE ReadHeader
  <2>1. CASE Fails("UnexpectedEof")
    BY <1>1, <1>3, <2>1, FailureInv DEF ReadHeader
  <2>2. CASE /\ Remaining(size) >= OptionHeaderLen
             /\ pos' = pos + OptionHeaderLen
             /\ stage' = "description"
             /\ UNCHANGED <<size, listStart, listEnd, nodes>>
    BY <1>2, <1>3, <2>2
    DEF ReadHeader, Remaining, OptionHeaderLen, ParserInv, ParserTypeOK,
        Standing, NodesTileTheList, WholeHardDrives
  <2> QED
    BY <1>3, <2>1, <2>2 DEF ReadHeader
<1>4. CASE ReadUnit
  <2>1. CASE Fails("UnterminatedString")
    BY <1>1, <1>4, <2>1, FailureInv DEF ReadUnit
  <2>2. CASE /\ Remaining(size) >= 2
             /\ pos' = pos + 2
             /\ stage' \in {"description", "list"}
             /\ UNCHANGED <<size, listStart, listEnd, nodes>>
    BY <1>2, <1>4, <2>2
    DEF ReadUnit, Remaining, ParserInv, ParserTypeOK, Standing,
        NodesTileTheList, WholeHardDrives
  <2> QED
    BY <1>4, <2>1, <2>2 DEF ReadUnit
<1>5. CASE TakeList
  <2>1. CASE Fails("FilePathListOutOfRange")
    BY <1>1, <1>5, <2>1, FailureInv DEF TakeList
  <2>2. ASSUME NEW declared \in Declared,
               /\ ListFits(declared)
               /\ listStart' = pos
               /\ listEnd' = pos + declared
               /\ stage' = "nodes"
               /\ UNCHANGED <<size, pos, nodes>>
        PROVE  ParserInv'
    <3>1. nodes = << >>
      BY <1>5 DEF TakeList, ParserInv, Standing
    <3>2. declared \in Nat /\ pos + declared <= size
      BY <1>2, <2>2 DEF ListFits, Remaining
    <3> QED
      BY <1>2, <2>2, <3>1, <3>2
      DEF ParserInv, ParserTypeOK, Standing, NodesTileTheList, WholeHardDrives
  <2> QED
    BY <1>5, <2>1, <2>2 DEF TakeList
<1>6. CASE ReadNode
  <2>1. stage = "nodes"
    BY <1>6 DEF ReadNode
  <2>2. ASSUME NEW error \in Failures, Fails(error) PROVE ParserInv'
    BY <2>1, <2>2, FailureInv
  <2>3. ASSUME Len(nodes) < MaxNodes, NEW length \in Lengths,
               length >= NODE_HEADER_LEN, Remaining(EndOfSlice) >= length,
               NEW form \in Forms, Pushed(form, length)
        PROVE  ParserInv'
    BY <2>1, <2>3, PushedInv
  <2> QED
    BY <1>1, <1>6, <2>2, <2>3 DEF ReadNode
<1>7. CASE EndOfList
  BY <1>7
  DEF EndOfList, EndOfSlice, ParserInv, ParserTypeOK, Standing,
      NodesTileTheList, WholeHardDrives
<1>8. CASE UNCHANGED parserVars
  BY <1>8
  DEF parserVars, ParserInv, ParserTypeOK, Standing, NodesTileTheList,
      WholeHardDrives
<1> QED
  BY <1>3, <1>4, <1>5, <1>6, <1>7, <1>8 DEF ParserNext

\* The inductive invariant: the types, the place of the reader, the tiling and
\* the length of what was decoded as a hard drive.
THEOREM ParserInvariance == ParserSpec => []ParserInv
  BY ParserInitInv, ParserStepInv, PTL DEF ParserSpec

\* reader.rs: no read leaves the buffer, whatever lengths it declares.
THEOREM ParserType == ParserSpec => []ParserTypeOK
<1>1. ParserInv => ParserTypeOK
  BY DEF ParserInv
<1> QED
  BY <1>1, ParserInvariance, PTL

\* DevicePath::parse: the nodes tile the declared list from its start.
THEOREM ParserTiles == ParserSpec => []NodesTileTheList
<1>1. ParserInv => NodesTileTheList
  BY DEF ParserInv
<1> QED
  BY <1>1, ParserInvariance, PTL


\* stable_id_for: the bytes of the partition GUID lie in the declared list.
THEOREM ParserIdentity == ParserSpec => []IdentityComesFromTheList
<1>1. ASSUME ParserInv PROVE IdentityComesFromTheList
  <2> SUFFICES ASSUME NEW k \in DOMAIN nodes, GptPartitionGuid(k)
               PROVE  LET guid == nodes[k].at + NODE_HEADER_LEN + 20
                      IN listStart <= guid /\ guid + 16 <= listEnd
    BY DEF IdentityComesFromTheList
  <2>1. nodes[k] \in Node /\ listStart \in Nat /\ listEnd \in Nat
    BY <1>1 DEF ParserInv, ParserTypeOK
  <2>2. /\ listStart <= nodes[k].at
        /\ nodes[k].length >= 42
        /\ nodes[k].at + nodes[k].length <= listEnd
    BY <1>1 DEF ParserInv, WholeHardDrives, NodesTileTheList, GptPartitionGuid
  <2> QED
    BY <2>1, <2>2 DEF Node, NODE_HEADER_LEN
<1> QED
  BY <1>1, ParserInvariance, PTL
=============================================================================
