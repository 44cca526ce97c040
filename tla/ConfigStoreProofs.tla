-------------------------- MODULE ConfigStoreProofs --------------------------
(***************************************************************************)
(* The safety properties of ConfigStore, for any number of instances and   *)
(* any keys and names.                                                     *)
(***************************************************************************)
EXTENDS ConfigStore, TLAPS

\* A file is open exactly while a save is between its first and last call.
OpenWhileSaving ==
  \A i \in Instance : open[i] # "none" <=> pc[i] \in {"write", "rename", "remove"}

\* As long as no two saves have overlapped: the one that is in progress has
\* the temporary file to itself, empty before it writes and complete after.
SavesAlone ==
  ~overlapped =>
    /\ configText = stored
    /\ \A i \in Instance : open[i] \in {"none", "temp"}
    /\ \A i, j \in Instance : open[i] # "none" /\ open[j] # "none" => i = j
    /\ \A i \in Instance : pc[i] = "write" => tempText = Torn
    /\ \A i \in Instance : pc[i] = "rename" => tempText = memory[i]

StoreInv == StoreTypeOK /\ OpenWhileSaving /\ SavesAlone

-----------------------------------------------------------------------------
(* Configurations                                                          *)

\* A configuration in memory can be written as it is.
LEMMA ConfigIsText == Config \subseteq Text
  BY DEF Config

\* Config::default is valid.
LEMMA DefaultIsConfig == Default \in Config
  BY UnsetAssumption DEF Default, Config, Text

\* Config::sanitize makes a valid configuration of any text.
LEMMA SanitizedIsConfig ==
  ASSUME NEW text \in Text
  PROVE  Sanitized(text) \in Config
<1> DEFINE s == Sanitized(text)
<1>1. s \in Text
  BY DEF Sanitized, Text
<1>2. \A k \in Key \cup BadKey :
        s[k] \in IF k \in Key THEN Name \cup {Unset} ELSE {Unset}
  BY DEF Sanitized
<1> QED
  BY <1>1, <1>2 DEF Config

\* Whatever the file holds, load returns a valid configuration.
LEMMA ParsedIsConfig ==
  ASSUME NEW text \in Text \cup {Missing, Torn}
  PROVE  Parsed(text) \in Config
  BY SanitizedIsConfig, DefaultIsConfig DEF Parsed

\* set_alias, clear_alias and set_preference keep the configuration valid.
LEMMA ChangedIsConfig ==
  ASSUME NEW c \in Config, NEW k \in Key, NEW n \in Name \cup {Unset}
  PROVE  [c EXCEPT ![k] = n] \in Config
<1> DEFINE d == [c EXCEPT ![k] = n]
<1>1. d \in Text
  BY DEF Config, Text
<1>2. \A l \in Key \cup BadKey :
        d[l] \in IF l \in Key THEN Name \cup {Unset} ELSE {Unset}
  BY DEF Config, Text
<1> QED
  BY <1>1, <1>2 DEF Config

-----------------------------------------------------------------------------
(* The inductive invariant                                                 *)

\* The invariant holds before any instance has started.
LEMMA StoreInit == Init => StoreInv
  BY DefaultIsConfig
  DEF Init, StoreInv, StoreTypeOK, OpenWhileSaving, SavesAlone, Places, Names

\* An instance starts.
LEMMA StartInv ==
  ASSUME StoreInv, NEW i \in Instance, Start(i)
  PROVE  StoreInv'
<1>1. Parsed(configText) \in Config
  BY ParsedIsConfig DEF StoreInv, StoreTypeOK
<1>2. StoreTypeOK'
  BY <1>1 DEF StoreInv, StoreTypeOK, Start, history, Places
<1>3. OpenWhileSaving'
  BY DEF StoreInv, StoreTypeOK, OpenWhileSaving, Start
<1>4. SavesAlone'
  BY DEF StoreInv, StoreTypeOK, SavesAlone, Start, history
<1> QED
  BY <1>2, <1>3, <1>4 DEF StoreInv

\* An instance is closed or killed, in the middle of a save perhaps.
LEMMA StopInv ==
  ASSUME StoreInv, NEW i \in Instance, Stop(i)
  PROVE  StoreInv'
<1>1. StoreTypeOK'
  BY DEF StoreInv, StoreTypeOK, Stop, history, Places, Names
<1>2. OpenWhileSaving'
  BY DEF StoreInv, StoreTypeOK, OpenWhileSaving, Stop
<1>3. SavesAlone'
  BY DEF StoreInv, StoreTypeOK, SavesAlone, Stop, history
<1> QED
  BY <1>1, <1>2, <1>3 DEF StoreInv

\* A command changes the memory.
LEMMA ChangeInv ==
  ASSUME StoreInv, NEW i \in Instance, Change(i)
  PROVE  StoreInv'
<1>1. PICK k \in Key, n \in Name \cup {Unset} :
        memory' = [memory EXCEPT ![i] = [memory[i] EXCEPT ![k] = n]]
  BY DEF Change
<1>2. [memory[i] EXCEPT ![k] = n] \in Config
  BY ChangedIsConfig DEF StoreInv, StoreTypeOK
<1>3. StoreTypeOK'
  BY <1>1, <1>2 DEF StoreInv, StoreTypeOK, Change, history, Places
<1>4. OpenWhileSaving'
  BY DEF StoreInv, StoreTypeOK, OpenWhileSaving, Change
<1>5. SavesAlone'
  BY <1>1 DEF StoreInv, StoreTypeOK, SavesAlone, Change, history
<1> QED
  BY <1>3, <1>4, <1>5 DEF StoreInv

\* A save that ends with an error, whatever the call that failed.
LEMMA SaveFailsInv ==
  ASSUME StoreInv, NEW i \in Instance, SaveFails(i), UNCHANGED tempText
  PROVE  StoreInv'
<1>1. StoreTypeOK'
  BY DEF StoreInv, StoreTypeOK, SaveFails, history, Places, Names
<1>2. OpenWhileSaving'
  BY DEF StoreInv, StoreTypeOK, OpenWhileSaving, SaveFails
<1>3. SavesAlone'
  BY DEF StoreInv, StoreTypeOK, SavesAlone, SaveFails, history
<1> QED
  BY <1>1, <1>2, <1>3 DEF StoreInv

\* The temporary file is opened and truncated.
LEMMA OpenTempInv ==
  ASSUME StoreInv, NEW i \in Instance, OpenTemp(i)
  PROVE  StoreInv'
<1>1. tempText' = Torn /\ configText' = configText
  BY DEF OpenTemp, WrittenFile, Holds
<1>2. StoreTypeOK'
  BY <1>1 DEF StoreInv, StoreTypeOK, OpenTemp, WrittenFile, Places, Names
<1>3. OpenWhileSaving'
  BY DEF StoreInv, StoreTypeOK, OpenWhileSaving, OpenTemp, WrittenFile
<1>4. SavesAlone'
  <2>1. SUFFICES ASSUME ~overlapped' PROVE SavesAlone'
    BY DEF SavesAlone
  <2>2. ~overlapped /\ \A j \in Instance \ {i} : open[j] = "none"
    BY <2>1 DEF OpenTemp
  <2>3. \A j \in Instance \ {i} : pc'[j] = pc[j] /\ pc[j] # "write" /\ pc[j] # "rename"
    BY <2>2 DEF StoreInv, StoreTypeOK, OpenWhileSaving, OpenTemp
  <2>4. pc'[i] = "write" /\ open'[i] = "temp"
    BY DEF StoreInv, StoreTypeOK, OpenTemp, WrittenFile
  <2>5. \A j \in Instance \ {i} : open'[j] = "none"
    BY <2>2 DEF StoreInv, StoreTypeOK, OpenTemp
  <2>6. configText' = stored'
    BY <1>1, <2>2 DEF StoreInv, SavesAlone, OpenTemp
  <2> QED
    BY <1>1, <2>3, <2>4, <2>5, <2>6 DEF SavesAlone
<1> QED
  BY <1>2, <1>3, <1>4 DEF StoreInv

\* The configuration is written, over what another instance wrote perhaps.
LEMMA WriteTempInv ==
  ASSUME StoreInv, NEW i \in Instance, WriteTemp(i)
  PROVE  StoreInv'
<1>1. open[i] # "none"
  BY DEF StoreInv, OpenWhileSaving, WriteTemp
<1>2. memory[i] \in Config
  BY DEF StoreInv, StoreTypeOK
<1>3. configText' \in Text \cup {Missing, Torn}
  BY <1>2, ConfigIsText DEF StoreInv, StoreTypeOK, WriteTemp, Holds
<1>4. tempText' \in Config \cup {Missing, Torn}
  BY <1>2 DEF StoreInv, StoreTypeOK, WriteTemp, Holds
<1>5. StoreTypeOK'
  BY <1>3, <1>4 DEF StoreInv, StoreTypeOK, WriteTemp, history, Places
<1>6. OpenWhileSaving'
  BY <1>1 DEF StoreInv, StoreTypeOK, OpenWhileSaving, WriteTemp
<1>7. SavesAlone'
  <2>1. SUFFICES ASSUME ~overlapped' PROVE SavesAlone'
    BY DEF SavesAlone
  <2>2. ~overlapped
    BY <2>1 DEF WriteTemp, history
  <2>3. open[i] = "temp" /\ tempText = Torn
    BY <1>1, <2>2 DEF StoreInv, SavesAlone, WriteTemp
  <2>4. tempText' = memory[i] /\ configText' = configText
    BY <2>3 DEF WriteTemp, Holds
  <2>5. \A j \in Instance \ {i} : pc'[j] = pc[j] /\ pc[j] # "write" /\ pc[j] # "rename"
    BY <1>1, <2>2 DEF StoreInv, StoreTypeOK, OpenWhileSaving, SavesAlone, WriteTemp
  <2>6. pc'[i] = "rename" /\ memory' = memory /\ open' = open /\ stored' = stored
    BY DEF StoreInv, StoreTypeOK, WriteTemp, history
  <2> QED
    BY <2>2, <2>4, <2>5, <2>6 DEF StoreInv, SavesAlone
<1> QED
  BY <1>5, <1>6, <1>7 DEF StoreInv

\* The temporary file becomes the configuration.
LEMMA RenameInv ==
  ASSUME StoreInv, NEW i \in Instance, Rename(i)
  PROVE  StoreInv'
<1>1. open[i] # "none"
  BY DEF StoreInv, OpenWhileSaving, Rename
<1>2. \A j \in Instance : Renamed(open[j]) \in Names
                            /\ (Renamed(open[j]) = "none" <=> open[j] = "none")
  BY DEF StoreInv, StoreTypeOK, Renamed, Names
<1>3. StoreTypeOK'
  BY <1>2, ConfigIsText
  DEF StoreInv, StoreTypeOK, Rename, Places, Names
<1>4. OpenWhileSaving'
  BY <1>2 DEF StoreInv, StoreTypeOK, OpenWhileSaving, Rename
<1>5. SavesAlone'
  <2>1. SUFFICES ASSUME ~overlapped' PROVE SavesAlone'
    BY DEF SavesAlone
  <2>2. ~overlapped
    BY <2>1 DEF Rename
  <2>3. \A j \in Instance \ {i} : open[j] = "none"
    BY <1>1, <2>2 DEF StoreInv, SavesAlone
  <2>4. \A j \in Instance : open'[j] = "none"
    BY <1>2, <2>3 DEF Rename
  <2>5. \A j \in Instance : pc'[j] # "write" /\ pc'[j] # "rename"
    BY <2>3 DEF StoreInv, StoreTypeOK, OpenWhileSaving, Rename
  <2>6. configText' = stored'
    BY <2>2 DEF StoreInv, SavesAlone, Rename
  <2> QED
    BY <2>4, <2>5, <2>6 DEF SavesAlone
<1> QED
  BY <1>3, <1>4, <1>5 DEF StoreInv

\* The rename fails: the file stays open until it is removed.
LEMMA RenameFailsInv ==
  ASSUME StoreInv, NEW i \in Instance, RenameFails(i)
  PROVE  StoreInv'
<1>1. StoreTypeOK'
  BY DEF StoreInv, StoreTypeOK, RenameFails, history, Places
<1>2. OpenWhileSaving'
  BY DEF StoreInv, StoreTypeOK, OpenWhileSaving, RenameFails
<1>3. SavesAlone'
  BY DEF StoreInv, StoreTypeOK, SavesAlone, RenameFails, history
<1> QED
  BY <1>1, <1>2, <1>3 DEF StoreInv

\* The temporary file is removed after a failed rename.
LEMMA RemoveTempInv ==
  ASSUME StoreInv, NEW i \in Instance, RemoveTemp(i)
  PROVE  StoreInv'
<1>1. open[i] # "none"
  BY DEF StoreInv, OpenWhileSaving, RemoveTemp
<1>2. StoreTypeOK'
  BY DEF StoreInv, StoreTypeOK, RemoveTemp, history, Places, Names
<1>3. OpenWhileSaving'
  BY DEF StoreInv, StoreTypeOK, OpenWhileSaving, RemoveTemp
<1>4. SavesAlone'
  <2>1. SUFFICES ASSUME ~overlapped' PROVE SavesAlone'
    BY DEF SavesAlone
  <2>2. ~overlapped
    BY <2>1 DEF RemoveTemp, history
  <2>3. \A j \in Instance \ {i} : open[j] = "none"
    BY <1>1, <2>2 DEF StoreInv, SavesAlone
  <2>4. \A j \in Instance : open'[j] = "none"
    BY <2>3 DEF RemoveTemp
  <2>5. \A j \in Instance : pc'[j] # "write" /\ pc'[j] # "rename"
    BY <2>3 DEF StoreInv, StoreTypeOK, OpenWhileSaving, RemoveTemp
  <2>6. configText' = stored'
    BY <2>2 DEF StoreInv, SavesAlone, RemoveTemp, history
  <2> QED
    BY <2>4, <2>5, <2>6 DEF SavesAlone
<1> QED
  BY <1>2, <1>3, <1>4 DEF StoreInv

\* Every step keeps the invariant.
LEMMA StoreStep == StoreInv /\ [Next]_vars => StoreInv'
<1> SUFFICES ASSUME StoreInv, [Next]_vars PROVE StoreInv'
  OBVIOUS
<1>1. CASE UNCHANGED vars
  BY <1>1 DEF vars, StoreInv, StoreTypeOK, OpenWhileSaving, SavesAlone
<1>2. CASE \E i \in Instance : Start(i) \/ Stop(i) \/ Change(i)
  BY <1>2, StartInv, StopInv, ChangeInv
<1>3. CASE \E i \in Instance : Save(i)
  <2>1. PICK i \in Instance : Save(i)
    BY <1>3
  <2>2. CASE OpenTemp(i) \/ WriteTemp(i) \/ Rename(i)
    BY <2>2, OpenTempInv, WriteTempInv, RenameInv
  <2>3. CASE OpenFails(i) \/ WriteFails(i) \/ RemoveFails(i)
    BY <2>3, SaveFailsInv DEF OpenFails, WriteFails, RemoveFails
  <2>4. CASE RenameFails(i) \/ RemoveTemp(i)
    BY <2>4, RenameFailsInv, RemoveTempInv
  <2> QED
    BY <2>1, <2>2, <2>3, <2>4 DEF Save
<1> QED
  BY <1>1, <1>2, <1>3 DEF Next

\* The conjunction of the three parts holds in every reachable state.
THEOREM StoreInvariance == Spec => []StoreInv
<1>1. Init => StoreInv
  BY StoreInit
<1>2. StoreInv /\ [Next]_vars => StoreInv'
  BY StoreStep
<1> QED
  BY <1>1, <1>2, PTL DEF Spec

\* config_store.rs load and Config::sanitize, commands.rs set_alias: the
\* memory of every instance holds valid keys and names only, whatever the
\* file says and whatever call fails.
THEOREM StoreType == Spec => []StoreTypeOK
<1>1. StoreInv => StoreTypeOK
  BY DEF StoreInv
<1> QED
  BY <1>1, StoreInvariance, PTL

\* config_store.rs write_atomically: unless two saves overlap, config.json is
\* what the last successful save wrote, through kills and failures of any call.
THEOREM StoreOldOrNew == Spec => []OldOrNew
<1>1. StoreInv => OldOrNew
  BY DEF StoreInv, SavesAlone, OldOrNew
<1> QED
  BY <1>1, StoreInvariance, PTL

=============================================================================
