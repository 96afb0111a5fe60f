------------------------- MODULE PersistentSettings -------------------------
(***************************************************************************)
(* PersistentSettings (settings_persistent.h) as the link uses it for      *)
(* wifibroadcast_settings.json: threads change a field of the shared       *)
(* structure and persist it, none of them under a lock; the program may    *)
(* end at any moment and read the file again when it starts.               *)
(*                                                                         *)
(* The callers are the settings callbacks of the telemetry module and the  *)
(* worker of the link (wb_link.cpp:1488, 1584, 1602, 1638).                *)
(***************************************************************************)
EXTENDS Integers, FiniteSetsExt

CONSTANTS
  Fields,        \* fields of the structure
  Stored,        \* those the JSON conversion names
  Values,        \* values of a field
  Default,       \* what create_default gives every field
  TextLength,    \* length of the text that each content is dumped as
  Threads        \* threads that change settings

ASSUME SettingsAssumption ==
  /\ IsFiniteSet(Fields) /\ Stored \subseteq Fields /\ Stored # {}
  /\ Default \in Values
  /\ TextLength \in [[Stored -> Values] -> Nat \ {0}]

VARIABLES
  up,            \* the program runs
  settings,      \* *_settings
  file,          \* the settings file: its leading JSON object, and its length
  pc,            \* where each thread is in change and persist
  content,       \* what imp_serialize has read so far, per thread
  changed,       \* the field each thread last changed
  alone,         \* threads whose change and save nobody else's overlapped
  repaired       \* the last text in the file is of init or of such a save

saves == <<changed, alone, repaired>>
settingsVars == <<up, settings, file, pc, content, saves>>

\* An empty file.
Empty == [object |-> <<>>, length |-> 0]
DefaultSettings == [f \in Fields |-> Default]

\* What imp_serialize makes of a structure nobody changes: the fields it names.
Dumped(s) == [f \in Stored |-> s[f]]

\* A file that holds one text and nothing after it.
FileOf(c) == [object |-> c, length |-> TextLength[c]]

\* The text is one JSON object and nothing follows it.
Parsable(x) == DOMAIN x.object = Stored /\ x.length = TextLength[x.object]

Busy == {t \in Threads : pc[t] # "idle"}

-----------------------------------------------------------------------------
\* First start on new hardware: no file, so defaults, which are persisted.
SettingsInit ==
  /\ up = TRUE
  /\ settings = DefaultSettings
  /\ file = FileOf(Dumped(DefaultSettings))
  /\ pc = [t \in Threads |-> "idle"]
  /\ content = [t \in Threads |-> <<>>]
  /\ changed = [t \in Threads |-> CHOOSE f \in Fields : TRUE]
  /\ alone = {} /\ repaired = TRUE

\* unsafe_get_settings() and an assignment.
Change(t, f, v) ==
  /\ up /\ pc[t] = "idle" /\ settings[f] # v
  /\ settings' = [settings EXCEPT ![f] = v]
  /\ pc' = [pc EXCEPT ![t] = "serialize"]
  /\ content' = [content EXCEPT ![t] = <<>>]
  /\ changed' = [changed EXCEPT ![t] = f]
  /\ alone' = IF Busy = {} THEN {t} ELSE {}
  /\ UNCHANGED <<up, file, repaired>>

\* imp_serialize reads the fields one after the other.
Serialize(t, f) ==
  /\ pc[t] = "serialize" /\ f \in Stored \ DOMAIN content[t]
  /\ content' = [content EXCEPT ![t] =
                    [g \in DOMAIN @ \cup {f} |-> IF g = f THEN settings[f] ELSE @[g]]]
  /\ UNCHANGED <<up, settings, file, pc, saves>>

\* Mutant: the file is opened without truncating it.
OpenKeeping(t) ==
  /\ pc[t] = "serialize" /\ DOMAIN content[t] = Stored
  /\ pc' = [pc EXCEPT ![t] = "write"]
  /\ UNCHANGED <<up, settings, file, content, saves>>

\* write_file opens the file, which truncates it ...
Open(t) ==
  /\ pc[t] = "serialize" /\ DOMAIN content[t] = Stored
  /\ file' = Empty
  /\ pc' = [pc EXCEPT ![t] = "write"]
  /\ UNCHANGED <<up, settings, content, saves>>

\* ... and writes from its beginning when the buffer is flushed: what another
\* thread has written in between is overwritten, its tail stays.
Write(t) ==
  /\ pc[t] = "write"
  /\ file' = [object |-> content[t], length |-> Max({file.length, TextLength[content[t]]})]
  /\ pc' = [pc EXCEPT ![t] = "idle"]
  /\ repaired' = (t \in alone)
  /\ UNCHANGED <<up, settings, content, changed, alone>>

\* The program ends or the power fails, wherever the threads are.
Crash ==
  /\ up /\ up' = FALSE
  /\ pc' = [t \in Threads |-> "idle"]
  /\ UNCHANGED <<settings, file, content, saves>>

\* impl_deserialize; a field the conversion does not name has its default.
Restored ==
  IF Parsable(file)
  THEN [f \in Fields |-> IF f \in Stored THEN file.object[f] ELSE Default]
  ELSE DefaultSettings

\* init(): the settings of the file, or the defaults, which are persisted.
init ==
  /\ ~up /\ up' = TRUE
  /\ settings' = Restored
  /\ file' = FileOf(Dumped(Restored))
  /\ repaired' = TRUE
  /\ UNCHANGED <<pc, content, changed, alone>>

SettingsNext ==
  \/ \E t \in Threads :
       \/ \E f \in Fields, v \in Values : Change(t, f, v)
       \/ \E f \in Stored : Serialize(t, f)
       \/ Open(t) \/ Write(t)
  \/ Crash \/ init

SettingsSpec == SettingsInit /\ [][SettingsNext]_settingsVars

-----------------------------------------------------------------------------
SettingsTypes ==
  /\ up \in BOOLEAN /\ repaired \in BOOLEAN
  /\ changed \in [Threads -> Fields] /\ alone \subseteq Threads
  /\ settings \in [Fields -> Values]
  /\ file = Empty \/ (file.object \in [Stored -> Values] /\ file.length \in Nat)
  /\ pc \in [Threads -> {"idle", "serialize", "write"}]
  /\ content \in [Threads -> UNION {[D -> Values] : D \in SUBSET Stored}]
  /\ \A t \in Threads : pc[t] = "write" => content[t] \in [Stored -> Values]

(***************************************************************************)
(* A restart costs at most the changes that are just being saved, and      *)
(* never a setting that was saved before, except in two cases: a thread is *)
(* between the truncation of the file and its write, or the saves of two   *)
(* threads have overlapped and no save has run alone since. Whatever       *)
(* overlapping saves and crashes made of the file, old contents and torn   *)
(* texts included, one save that runs alone repairs it                     *)
(* (settings_persistent.h:80-87, 108-123, 143-169).                        *)
(***************************************************************************)
SavesSurvive ==
  up /\ repaired /\ (\A t \in Threads : pc[t] # "write") =>
      \A f \in Stored : Restored[f] # settings[f] => \E t \in Busy : changed[t] = f

(***************************************************************************)
(* Types, and the promise of a save (settings_persistent.h:143-169): see   *)
(* the part above.                                                         *)
(***************************************************************************)
SettingsInv == SettingsTypes /\ SavesSurvive

=============================================================================
