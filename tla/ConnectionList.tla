--------------------------- MODULE ConnectionList ---------------------------
(***************************************************************************)
(* The saved connections of the tray and their private keys                *)
(* (cmd/tray/connections.go): connections.json, the list in memory, the    *)
(* fields of the window, and the client-config.json of older versions.     *)
(*                                                                         *)
(* Everything happens on the GUI thread, but the process may end at any    *)
(* point, and writing a file may fail.  A write is one step, since the     *)
(* rename that ends it is.                                                 *)
(***************************************************************************)
EXTENDS Integers, Sequences, SequencesExt

CONSTANTS
  Keys,       \* private keys
  FileNames,  \* names of connections
  Imported,   \* the name of the imported one
  MaxLen,     \* bound: length of the list
  None

(* There is room for the imported connection, and no key is no key.        *)
ListAssumption ==
  /\ MaxLen \in Nat /\ MaxLen > 0
  /\ Imported \in FileNames
  /\ None \notin Keys

VARIABLES
  file,         \* connections.json: [state, entries]
  aside,        \* the keys in connections.json.broken-*
  configKey,    \* client_key in client-config.json
  gui,          \* "off", "loading", "migrate", "import", "strip", "idle",
                \* "save", "connect", "delete"
  connections,
  fields,       \* nameEdit and clientKeyEdit
  loaded,       \* loadedConnectionName
  \* history
  subject,      \* the entry that is selected, 0 for a new one
  kept,         \* the keys the user has and has not given up
  risked        \* those of them that the tray may lose

diskVars   == <<file, aside, configKey>>
windowVars == <<connections, fields, loaded, subject>>
history == <<kept, risked>>
vars == <<diskVars, gui, windowVars, history>>

(* On disk a key is sealed for this Windows user ("mine") or for another   *)
(* ("foreign"), or it is in plain text, alone or beside a blob that cannot *)
(* be decrypted ("plain").                                                 *)
Forms   == {"mine", "foreign", "plain"}
Entries == [name : FileNames, key : Keys \union {None}, form : Forms]
(* In memory: ClientKey, or the sealedKey that could not be decrypted. *)
Connections == [name : FileNames, key : Keys \union {None}, sealed : Keys \union {None}]
NoFields == [name |-> None, key |-> None]

File(state, entries) == [state |-> state, entries |-> entries]
KeysIn(s) == {s[i].key : i \in DOMAIN s} \ {None}

TypeOK ==
  /\ file \in [state : {"absent", "good", "broken"}, entries : Seq(Entries)]
  /\ aside \in SUBSET Keys
  /\ configKey \in Keys \union {None}
  /\ gui \in {"off", "loading", "migrate", "import", "strip", "idle", "save", "connect", "delete"}
  /\ connections \in Seq(Connections)
  /\ fields \in [name : FileNames \union {None}, key : Keys \union {None}]
  /\ loaded \in FileNames \union {None}
  /\ subject \in 0 .. MaxLen
  /\ kept \in SUBSET Keys
  /\ risked \in SUBSET Keys

(* One connection at most is there before the tray is started first.  Next *)
(* to a connections.json, a key in client-config.json is one left over,    *)
(* which the next connect removes.                                         *)
Init ==
  /\ \/ file = File("absent", <<>>)
     \/ \E s \in {"good", "broken"}, e \in Entries : e.key # None /\ file = File(s, <<e>>)
  /\ aside = {}
  /\ configKey \in Keys \union {None}
  /\ gui = "off" /\ connections = <<>> /\ fields = NoFields /\ loaded = None
  /\ subject = 0
  /\ kept = IF file.state = "absent" THEN {configKey} \ {None} ELSE KeysIn(file.entries)
  /\ risked = {}

-----------------------------------------------------------------------------
(* decodeConnections and encodeConnections. *)
Decoded(e) ==
  [name |-> e.name, key |-> IF e.form = "foreign" THEN None ELSE e.key,
   sealed |-> IF e.form = "foreign" THEN e.key ELSE None]
Encoded(c) ==
  IF c.key # None THEN [name |-> c.name, key |-> c.key, form |-> "mine"]
                  ELSE [name |-> c.name, key |-> c.sealed, form |-> "foreign"]

EachOf(Op(_), s) == [i \in DOMAIN s |-> Op(s[i])]
NeedsMigration == \E i \in DOMAIN file.entries : file.entries[i].form = "plain"

(* The keys of a list in memory once it is saved. *)
KeysOf(list) == KeysIn(EachOf(Encoded, list))

(* What the code does not guard against puts keys at risk: it takes a      *)
(* connections.json that cannot be read for none; a key is not imported or *)
(* the import is not saved, and it leaves client-config.json all the same; *)
(* a save meets another entry of the name.                                 *)
Risk(keys) == risked' = risked \union (keys \intersect kept)
Rescue(keys) == risked' = risked \ keys

(* The user gives keys up. *)
GiveUp(keys) == kept' = kept \ keys /\ risked' = risked \ keys

(* saveConnections, with writeFileAtomic: all or nothing. *)
Saved ==
  /\ file' = File("good", EachOf(Encoded, connections))
  /\ kept' = kept \union KeysIn(connections)
  /\ Rescue(KeysOf(connections))
NotSaved == UNCHANGED <<file, history>>

(* writeClientConfigFromConnection: the key of older versions goes.        *)
Stripped == configKey' \in {None, configKey}

(* fillFieldsFrom and onNew *)
Fill(i) ==
  LET c == connections[i] IN
  fields' = [name |-> c.name, key |-> c.key] /\ loaded' = c.name /\ subject' = i
Blank == fields' = NoFields /\ loaded' = None /\ subject' = 0

-----------------------------------------------------------------------------
(* loadConnections *)
StartTray ==
  /\ gui = "off" /\ gui' = "loading"
  /\ UNCHANGED <<diskVars, windowVars, history>>

LoadGood ==
  /\ gui = "loading" /\ file.state = "good"
  /\ connections' = EachOf(Decoded, file.entries)
  /\ gui' = IF NeedsMigration THEN "migrate" ELSE "idle"
  /\ Rescue(KeysIn(file.entries))
  /\ UNCHANGED <<diskVars, fields, loaded, subject, kept>>

Migrate ==
  /\ gui = "migrate" /\ gui' = "idle"
  /\ Saved \/ NotSaved
  /\ UNCHANGED <<aside, configKey, windowVars>>

(* moveAside; a broken file that cannot be moved is left, and the user     *)
(* told that saving replaces it.                                           *)
LoadBroken ==
  /\ gui = "loading" /\ file.state = "broken"
  /\ gui' = "idle"
  /\ \/ /\ aside' = aside \union KeysIn(file.entries)
        /\ file' = File("absent", <<>>)
        /\ UNCHANGED history
     \/ GiveUp(KeysIn(file.entries)) /\ UNCHANGED <<file, aside>>
  /\ UNCHANGED <<configKey, windowVars>>

(* importFromClientConfig, whatever the reason for which the file could    *)
(* not be read.  There may be a key that is not imported, because          *)
(* client-config.json cannot be read or has no address beside it.          *)
LoadNothing ==
  /\ gui = "loading"
  /\ \/ /\ configKey # None /\ gui' = "import"
        /\ connections' = <<[name |-> Imported, key |-> configKey, sealed |-> None]>>
        /\ Risk(KeysIn(file.entries))
     \/ /\ gui' = "idle" /\ UNCHANGED connections
        /\ Risk(KeysIn(file.entries) \union {configKey})
  /\ UNCHANGED <<diskVars, fields, loaded, subject, kept>>

(* It is saved before the key leaves client-config.json, or else the       *)
(* connection is in memory only.                                           *)
Import ==
  /\ gui = "import"
  /\ \/ Saved /\ gui' = "strip"
     \/ gui' = "idle" /\ Risk({configKey}) /\ UNCHANGED <<file, kept>>
  /\ UNCHANGED <<aside, configKey, windowVars>>

Strip ==
  /\ gui = "strip" /\ gui' = "idle"
  /\ Stripped
  /\ UNCHANGED <<file, aside, windowVars, history>>

-----------------------------------------------------------------------------
(* The window.                                                             *)
Select(i) ==
  /\ gui = "idle" /\ i \in DOMAIN connections
  /\ Fill(i)
  /\ UNCHANGED <<diskVars, gui, connections, history>>

New ==
  /\ gui = "idle" /\ Blank
  /\ UNCHANGED <<diskVars, gui, connections, history>>

(* The user types. *)
Type(name, key) ==
  /\ gui = "idle" /\ fields' = [name |-> name, key |-> key]
  /\ UNCHANGED <<diskVars, gui, connections, loaded, subject, history>>

(* upsertConnection: the entry that was loaded, or the first one with this *)
(* name.                                                                   *)
Named(n) == {i \in DOMAIN connections : connections[i].name = n}
First(s) == CHOOSE i \in s : \A j \in s : i <= j

Targets == IF Named(loaded) # {} THEN Named(loaded) ELSE Named(fields.name)

\* Variant with a bug: the key that could not be decrypted is forgotten.
DropSealed(i) == None
CarrySealed(i) == IF fields.key = None THEN connections[i].sealed ELSE None

(* The keys of entry i that the fields are to replace. *)
Overwritten(i) ==
  {connections[i].key} \union (IF fields.key = None THEN {} ELSE {connections[i].sealed})

(* The user means to replace the entry that is selected, or the one whose  *)
(* name a new connection gets.                                             *)
Meant(i) == IF subject # 0 THEN i = subject ELSE connections[i].name = fields.name

(* What onWindowConnect asks for before it saves. *)
Complete(then) == then = "connect" => fields.key # None

Replace(i) ==
  /\ connections' = [connections EXCEPT ![i] =
       [name |-> fields.name, key |-> fields.key, sealed |-> CarrySealed(i)]]
  /\ LET gone == Overwritten(i) \ KeysOf(connections') IN
     \/ Meant(i) /\ GiveUp(gone)
     \/ ~Meant(i) /\ Risk(gone) /\ UNCHANGED kept

Add ==
  /\ Len(connections) < MaxLen
  /\ connections' = Append(connections,
       [name |-> fields.name, key |-> fields.key, sealed |-> None])
  /\ UNCHANGED history

(* saveFields up to the write, for the save and connect buttons; onNewKey  *)
(* fills the key field before.  The name may be that of another entry.     *)
Save(then) ==
  /\ gui = "idle" /\ fields.name # None
  /\ Complete(then)
  /\ \/ Targets # {} /\ Replace(First(Targets))
     \/ Targets = {} /\ Add
  /\ gui' = then
  /\ UNCHANGED <<diskVars, fields, loaded, subject>>

(* The write; then the first entry of the name is selected and shown, or   *)
(* an error.                                                               *)
Write ==
  /\ \/ gui \in {"save", "connect"} /\ Saved /\ Fill(First(Named(fields.name)))
        /\ configKey' \in IF gui = "connect" THEN {None, configKey} ELSE {configKey}
     \/ gui \in {"save", "connect", "delete"} /\ NotSaved
        /\ UNCHANGED <<fields, loaded, subject, configKey>>
     \/ gui = "delete" /\ Saved /\ Blank /\ UNCHANGED configKey
  /\ gui' = "idle"
  /\ UNCHANGED <<aside, connections>>

(* onDeleteConnection of the selected entry, the user having confirmed.    *)
(* After a delete that could not be saved the list still has a selection.  *)
DeleteEntry(i) ==
  /\ gui = "idle" /\ i \in DOMAIN connections
  /\ i = subject \/ (subject = 0 /\ loaded # None)
  /\ connections' = RemoveAt(connections, i)
  /\ GiveUp({connections[i].key, connections[i].sealed} \ KeysOf(connections'))
  /\ gui' = "delete" /\ subject' = 0
  /\ UNCHANGED <<diskVars, fields, loaded>>

(* onListActivated: a double click, without saving. *)
Activate(i) ==
  /\ gui = "idle" /\ i \in DOMAIN connections
  /\ Fill(i)
  /\ IF connections[i].key # None THEN Stripped ELSE UNCHANGED configKey
  /\ UNCHANGED <<file, aside, gui, connections, history>>

(* The process ends. *)
Exit ==
  /\ gui # "off" /\ gui' = "off"
  /\ connections' = <<>> /\ Blank
  /\ UNCHANGED <<diskVars, history>>

Next ==
  \/ StartTray \/ LoadGood \/ Migrate \/ LoadBroken \/ LoadNothing \/ Import \/ Strip
  \/ New \/ Write \/ Exit
  \/ \E i \in 1 .. MaxLen : Select(i) \/ DeleteEntry(i) \/ Activate(i)
  \/ \E n \in FileNames, key \in Keys \union {None} : Type(n, key)
  \/ \E then \in {"save", "connect"} : Save(then)

Spec == Init /\ [][Next]_vars

-----------------------------------------------------------------------------
Stored == KeysIn(file.entries) \union aside \union ({configKey} \ {None})

(* No key is lost but by the user's will: it is always in a file, sealed,  *)
(* in plain text or moved aside, also when it cannot be decrypted here,    *)
(* when a write fails and when the process ends between two writes         *)
(* (connections.go:21-24, 101-106, 145-173, 183-203, 247-254).  Only what  *)
(* Risk is about can end in a loss, and only until the key is read from    *)
(* connections.json or written to it again.                                *)
KeysSurvive == kept \ risked \subseteq Stored

(* "saving the empty list over it would wipe all keys" (connections.go:    *)
(* 102): a write of connections.json keeps what the user has there.  The   *)
(* code sees to it for a file that it cannot parse, but takes one that it  *)
(* cannot read for absent (connections.go:95-98).                          *)
WritesKeepKeys ==
  [][file'.entries # file.entries => kept' \intersect KeysIn(file.entries) \subseteq Stored']_vars

(* The key of client-config.json is turned into a saved connection before  *)
(* it is taken out (connections.go:141-142), but the next connect takes it *)
(* out as well, saved or not (connections.go:166-169, 409, client.go:89).  *)
ConfigKeyIsSaved == [][configKey' # configKey => {configKey} \intersect kept \subseteq Stored']_vars

(* loadedConnectionName is the "name of the connection shown in the        *)
(* fields" (tray/main.go:60): a save of the entry that is selected changes *)
(* no other one (connections.go:247-272).                                  *)
OthersStayAsTheyAre ==
  [][subject # 0 /\ gui = "idle" /\ gui' \in {"save", "connect"}
       => \A i \in DOMAIN connections \ {subject} : connections'[i] = connections[i]]_vars

(* "needed so renaming doesn't create a second entry" (tray/main.go:61):   *)
(* nor does it add one.                                                    *)
RenamesAddNothing ==
  [][subject # 0 /\ gui = "idle" /\ gui' \in {"save", "connect"}
       => Len(connections') = Len(connections)]_vars
=============================================================================
