----------------------------- MODULE ConfigStore -----------------------------
(***************************************************************************)
(* config_store.rs and the commands that change the configuration, with    *)
(* several instances of the application over one directory, each with the  *)
(* configuration in memory that it loaded when it started.  A save writes  *)
(* the file config.json.tmp, whose name is the same for all, then renames  *)
(* it.  A process may be killed between two calls, and any call may fail.  *)
(*                                                                         *)
(* An open file stays the same file after it is renamed, replaced or       *)
(* removed.  That the data of a renamed file is on the disk when the power *)
(* fails is left to the file system: the code does not ask for it.         *)
(***************************************************************************)
EXTENDS Naturals

CONSTANTS
  Instance,  \* the processes of the application
  Key,       \* well-formed stable identifiers, and the preferences
  BadKey,    \* keys of a file edited by hand that are no stable identifiers
  Name,      \* aliases that normalize_alias accepts, and values of preferences
  BadName,   \* aliases of such a file that normalize_alias refuses
  Unset,     \* no alias
  Torn,      \* the contents of a file that does not parse
  Missing    \* the contents of a file that does not exist

\* What a file of the right syntax may say.
Text == [Key \cup BadKey -> Name \cup BadName \cup {Unset}]

\* What the application may have in memory.
Config == {c \in Text : \A k \in Key \cup BadKey :
             c[k] \in IF k \in Key THEN Name \cup {Unset} ELSE {Unset}}

ASSUME KeyAssumption == Key \cap BadKey = {} /\ Name \cap BadName = {}

ASSUME UnsetAssumption == Unset \notin Name \cup BadName

ASSUME NullAssumption == Torn \notin Text /\ Missing \notin Text /\ Torn # Missing

\* Config::default
Default == [k \in Key \cup BadKey |-> Unset]

VARIABLES
  configText,  \* the contents of config.json
  tempText,    \* the contents of config.json.tmp
  pc,          \* where each instance stands; "dead" before and after its life
  memory,      \* Inner.config
  open,        \* the name that the file it writes has now, or "none"
  \* --- history, read by properties only
  overlapped,  \* two instances have had the temporary file open at once
  stored       \* what the last successful save wrote, or what was there before

vars == <<configText, tempText, pc, memory, open, overlapped, stored>>

history == <<overlapped, stored>>

-----------------------------------------------------------------------------
\* MUTANT: only the names of a file edited by hand are validated.
SanitizedNames(text) ==
  [k \in Key \cup BadKey |-> IF text[k] \in Name THEN text[k] ELSE Unset]

\* Config::sanitize: an alias stays if its key and its name are valid.
Sanitized(text) ==
  [k \in Key \cup BadKey |->
     IF k \in Key /\ text[k] \in Name THEN text[k] ELSE Unset]

\* read_to_string and from_str: an absent, unreadable or corrupt file gives the
\* default configuration.
Parsed(text) == IF text \in {Missing, Torn} THEN Default ELSE Sanitized(text)

\* AppState::new calls load, once.
Start(i) ==
  /\ pc[i] = "dead"
  /\ pc' = [pc EXCEPT ![i] = "idle"]
  /\ memory' = [memory EXCEPT ![i] = Parsed(configText)]
  /\ UNCHANGED <<configText, tempText, open, history>>

\* The process is closed or killed, at any moment.
Stop(i) ==
  /\ pc[i] # "dead"
  /\ pc' = [pc EXCEPT ![i] = "dead"]
  /\ open' = [open EXCEPT ![i] = "none"]
  /\ UNCHANGED <<configText, tempText, memory, history>>

\* set_alias with a valid key and name, clear_alias or set_preference: the
\* memory changes before the save, and stays changed whatever becomes of it.
\* A refused name, key or preference changes and saves nothing.
Change(i) ==
  /\ pc[i] = "idle"
  /\ \E k \in Key, n \in Name \cup {Unset} :
       memory' = [memory EXCEPT ![i] = [@ EXCEPT ![k] = n]]
  /\ pc' = [pc EXCEPT ![i] = "save"]
  /\ UNCHANGED <<configText, tempText, open, history>>

\* A call of save fails: the user is told so, and the command ends.
SaveFails(i) ==
  /\ pc' = [pc EXCEPT ![i] = "idle"]
  /\ open' = [open EXCEPT ![i] = "none"]
  /\ UNCHANGED <<configText, memory, history>>

\* The directory cannot be made, or the temporary file not be opened.
OpenFails(i) ==
  /\ pc[i] = "save"
  /\ SaveFails(i)
  /\ UNCHANGED tempText

\* with_extension("json.tmp")
WrittenFile == "temp"

\* The file named f holds text.
Holds(f, text) ==
  /\ tempText' = IF f = "temp" THEN text ELSE tempText
  /\ configText' = IF f = "config" THEN text ELSE configText

\* fs::write opens the temporary file, or creates it, and truncates it.
OpenTemp(i) ==
  /\ pc[i] = "save"
  /\ Holds(WrittenFile, Torn)
  /\ open' = [open EXCEPT ![i] = WrittenFile]
  /\ pc' = [pc EXCEPT ![i] = "write"]
  /\ overlapped' = (overlapped \/ \E j \in Instance \ {i} : open[j] # "none")
  /\ UNCHANGED <<memory, stored>>

\* fs::write writes from the start of the file, whatever its name is by now.
\* If another instance wrote to it since it was truncated, the end of a longer
\* text remains.
WriteTemp(i) ==
  /\ pc[i] = "write"
  /\ \/ Holds(open[i], memory[i])
     \/ open[i] = "temp" /\ tempText # Torn /\ Holds("temp", Torn)
     \/ open[i] = "config" /\ configText # Torn /\ Holds("config", Torn)
  /\ pc' = [pc EXCEPT ![i] = "rename"]
  /\ UNCHANGED <<memory, open, history>>

\* MUTANT: the error of fs::write is ignored.
WriteErrorIgnored(i) ==
  /\ pc[i] = "write"
  /\ pc' = [pc EXCEPT ![i] = "rename"]
  /\ UNCHANGED <<configText, tempText, memory, open, history>>

\* The disk is full: the temporary file stays as it is.
WriteFails(i) ==
  /\ pc[i] = "write"
  /\ SaveFails(i)
  /\ UNCHANGED tempText

\* What is open keeps its contents when its name changes.
Renamed(o) ==
  CASE o = "temp" -> "config"
    [] o = "config" -> "nameless"
    [] OTHER -> o

\* fs::rename replaces config.json by whatever has the temporary name now.
Rename(i) ==
  /\ pc[i] = "rename"
  /\ tempText # Missing
  /\ configText' = tempText
  /\ tempText' = Missing
  /\ stored' = memory[i]
  /\ pc' = [pc EXCEPT ![i] = "idle"]
  /\ open' = [j \in Instance |-> IF j = i THEN "none" ELSE Renamed(open[j])]
  /\ UNCHANGED <<memory, overlapped>>

\* MUTANT: a rename that fails is tried again.
RenameRetried(i) ==
  /\ pc[i] = "rename"
  /\ UNCHANGED vars

\* It fails, for instance because another instance renamed the file away.
RenameFails(i) ==
  /\ pc[i] = "rename"
  /\ pc' = [pc EXCEPT ![i] = "remove"]
  /\ UNCHANGED <<configText, tempText, memory, open, history>>

\* The temporary file is removed, whoever wrote it.
RemoveTemp(i) ==
  /\ pc[i] = "remove"
  /\ tempText' = Missing
  /\ pc' = [pc EXCEPT ![i] = "idle"]
  /\ open' = [j \in Instance |->
       IF j = i THEN "none" ELSE IF open[j] = "temp" THEN "nameless" ELSE open[j]]
  /\ UNCHANGED <<configText, memory, history>>

\* That fails too: its result is ignored.
RemoveFails(i) ==
  /\ pc[i] = "remove"
  /\ SaveFails(i)
  /\ UNCHANGED tempText

-----------------------------------------------------------------------------
\* An earlier session may have left a configuration, which may have been
\* edited by hand, and a temporary file.
Init ==
  /\ configText \in Text \cup {Missing, Torn}
  /\ tempText \in Config \cup {Missing, Torn}
  /\ stored = configText
  /\ pc = [i \in Instance |-> "dead"]
  /\ memory = [i \in Instance |-> Default]
  /\ open = [i \in Instance |-> "none"]
  /\ overlapped = FALSE

Save(i) ==
  \/ OpenTemp(i) \/ OpenFails(i)
  \/ WriteTemp(i) \/ WriteFails(i)
  \/ Rename(i) \/ RenameFails(i)
  \/ RemoveTemp(i) \/ RemoveFails(i)

Next == \E i \in Instance : Start(i) \/ Stop(i) \/ Change(i) \/ Save(i)

\* A command in progress goes on; nothing is assumed of the user.
Spec == Init /\ [][Next]_vars /\ \A i \in Instance : WF_vars(Save(i))

-----------------------------------------------------------------------------
Places == {"dead", "idle", "save", "write", "rename", "remove"}

Names == {"none", "temp", "config", "nameless"}

\* Every variable has its type; in particular, what an instance has in memory
\* is a valid configuration, whatever it found in the file.
StoreTypeOK ==
  /\ configText \in Text \cup {Missing, Torn}
  /\ tempText \in Config \cup {Missing, Torn}
  /\ pc \in [Instance -> Places]
  /\ memory \in [Instance -> Config]
  /\ open \in [Instance -> Names]
  /\ overlapped \in BOOLEAN
  /\ stored \in Text \cup {Missing, Torn}

\* config_store.rs write_atomically: the file holds exactly what the last
\* successful save wrote, however often an instance was killed in the middle
\* of a save or a call failed, unless two saves were in progress at once.
OldOrNew == ~overlapped => configText = stored

\* commands.rs set_alias: every save ends, with success or with an error.
SaveEnds ==
  \A i \in Instance :
    pc[i] \in {"save", "write", "rename", "remove"} ~> pc[i] \in {"idle", "dead"}

=============================================================================
