------------------------------ MODULE Settings ------------------------------
(***************************************************************************)
(* The settings file at start-up: the options of the .config file are      *)
(* migrated into it (migrate_config_to_settings, miriway.cpp), then every  *)
(* attribute it does not mention is documented in it (DocumentingStore).   *)
(*                                                                         *)
(* A file is the sequence of its lines that matter: "active" (key=value),  *)
(* "placeholder" (#key=...) and "torn", what a crash may leave of a line.  *)
(* Blank lines and comments are left out.  The migration truncates the     *)
(* file and writes it again, and a crash may stop it anywhere; an          *)
(* attribute is documented by one small write.                             *)
(*                                                                         *)
(* A definition whose name ends in _mutant is a wrong version of the next  *)
(* one: no action uses it, and the properties are shown to reject it.      *)
(***************************************************************************)
EXTENDS Rows

CONSTANTS
    Keys,           \* the names of settings, in the order of std::map
    Options,        \* option of the .config file -> name of the setting
    Value,          \* what users and .config files set
    Chosen,         \* the values the user sets (bounds an instance)
    Empty,          \* the value of an option that is only a comment
    Cut, Glued,     \* a value that a crash cut short, or that a comment runs into
    Attributes,     \* in the order they are added: the key, the lines of its presets
    Systemwide,     \* the .config file found in XDG_CONFIG_DIRS
    Personal,       \* the one the user may put in XDG_CONFIG_HOME
    MaxLines,       \* bound on the lines of a file the user adds to
    MaxEdits,       \* bound on the user's changes
    MaxCrashes      \* bound on the crashes while the file is written again

Key == ToSet(Keys)
Option == [option : DOMAIN Options, value : Value \cup {Empty}]

ASSUME KeysAssumption == Keys \in Seq(Key) /\ NoRepeats(Keys)
ASSUME OptionsAssumption == Options \in [DOMAIN Options -> Key]
ASSUME ValueAssumption ==
    {Empty, Cut, Glued} \cap Value = {} /\ Chosen \subseteq Value
ASSUME AttributesAssumption ==
    /\ Attributes \in Seq([key : Key, lines : Nat \ {0}])
    /\ \A i, j \in DOMAIN Attributes : Attributes[i].key = Attributes[j].key => i = j
ASSUME ConfigAssumption == {Systemwide, Personal} \subseteq Seq(Option)
ASSUME BoundAssumption == {MaxLines, MaxEdits, MaxCrashes} \subseteq Nat

VARIABLES
    file,           \* the lines of the settings file, <<>> if there is none
    ended,          \* does the last one end with a newline?
    writable,       \* can the file be opened for writing?
    home,           \* is there a .config file in XDG_CONFIG_HOME?
    phase,          \* of the start
    settings_lines, \* what the migration is writing
    existing_keys,  \* of the DocumentingStore
    added,          \* the attributes added to it so far
    edits, crashes, \* so far
    base,           \* history: the file when the user last changed anything
    whole,          \* history: did it end with a newline?
    damaged,        \* history: has a rewrite been cut short since?
    settled         \* history: has a start been completed since?

disk == <<file, ended>>
memory == <<settings_lines, existing_keys, added>>
bounds == <<edits, crashes>>
history == <<base, whole, damaged, settled>>
vars == <<disk, writable, home, phase, memory, bounds, history>>

Active(k, v) == [kind |-> "active", key |-> k, value |-> v]
Placeholder(k) == [kind |-> "placeholder", key |-> k]
Torn == [kind |-> "torn"]
Line ==
    [kind : {"active"}, key : Key, value : Value \cup {Cut, Glued}]
        \cup [kind : {"placeholder"}, key : Key] \cup {Torn}

KeysOf(lines, kinds) == {l.key : l \in {m \in ToSet(lines) : m.kind \in kinds}}

ActiveLines(k) == {Active(k, v) : v \in Value \cup {Cut, Glued}}

ValuesOf(row) == [i \in 1..Len(row) |-> row[i].value]

\* The values a file gives to k, first to last.
ValuesIn(lines, k) == ValuesOf(Those(lines, ActiveLines(k)))
-----------------------------------------------------------------------------
\* migrate_config_to_settings.

find_config_file == IF home THEN Personal ELSE Systemwide

ActiveKeys_mutant1(lines) == {}                          \* overrides the user
ActiveKeys_mutant2(lines) == KeysOf(lines, {"active", "placeholder"})
ActiveKeys(lines) == KeysOf(lines, {"active"})

\* The values the .config file gives to k, under any of its options.
ConfigValues(k) ==
    ValuesOf(Those(find_config_file,
                   {o \in Option : Options[o.option] = k /\ o.value # Empty}))

to_migrate == {k \in Key \ ActiveKeys(file) : ConfigValues(k) # <<>>}

NewLines_mutant(k) == Reverse([i \in 1..Len(ConfigValues(k)) |-> Active(k, ConfigValues(k)[i])])
NewLines(k) == [i \in 1..Len(ConfigValues(k)) |-> Active(k, ConfigValues(k)[i])]

IsPlaceholder(lines, k) == \E i \in DOMAIN lines : lines[i] = Placeholder(k)

\* After the first placeholder.
Inserted(lines, k) ==
    LET at == SelectInSeq(lines, LAMBDA l : l = Placeholder(k))
    IN  SubSeq(lines, 1, at) \o NewLines(k) \o SubSeq(lines, at + 1, Len(lines))

\* Turn i does to the lines what is done for the i-th key, if it is in ks.
PlaceNew(ks) ==
    [i \in DOMAIN Keys |-> [lines \in Seq(Line) |->
        IF Keys[i] \in ks THEN Inserted(lines, Keys[i]) ELSE lines]]
AppendNew(ks) ==
    [i \in DOMAIN Keys |-> [lines \in Seq(Line) |->
        IF Keys[i] \in ks THEN lines \o NewLines(Keys[i]) ELSE lines]]

Migrated(lines) ==
    LET placed == {k \in to_migrate : IsPlaceholder(lines, k)}
    IN  Loop(AppendNew(to_migrate \ placed),
             Loop(PlaceNew(placed), lines, Len(Keys)), Len(Keys))

\* The file is read and, if anything is to be migrated, truncated.
Migrate ==
    /\ phase = "off"
    /\ IF to_migrate # {} /\ writable
       THEN /\ phase' = "writing"
            /\ settings_lines' = Migrated(file)
            /\ file' = <<>> /\ ended' = TRUE
       ELSE /\ phase' = "migrated"
            /\ UNCHANGED <<disk, settings_lines>>
    /\ UNCHANGED <<writable, home, existing_keys, added, bounds, history>>

Written ==
    /\ phase = "writing"
    /\ phase' = "migrated"
    /\ file' = settings_lines
    /\ settings_lines' = <<>>
    /\ UNCHANGED <<ended, writable, home, existing_keys, added, bounds, history>>
-----------------------------------------------------------------------------
\* DocumentingStore.

ExistingKeys_mutant1(lines) ==                           \* the '#' left on a key
    KeysOf(lines, {"active"}) \cup {"#" \o k : k \in KeysOf(lines, {"placeholder"})}
ExistingKeys_mutant2(lines) == KeysOf(lines, {"active"}) \* '#' lines not tracked
ExistingKeys(lines) == KeysOf(lines, {"active", "placeholder"})

OpenStore ==
    /\ phase = "migrated"
    /\ phase' = "documenting"
    /\ existing_keys' = ExistingKeys(file)
    /\ UNCHANGED <<disk, writable, home, settings_lines, added, bounds, history>>

\* What is appended to a file that does not end with a newline starts with the
\* '#' of a description, on its last line.
Continued ==
    IF ended \/ file = <<>> \/ Last(file).kind # "active" THEN file
    ELSE [file EXCEPT ![Len(file)].value = Glued]

Document(k, lines) ==
    IF k \in existing_keys \/ ~writable THEN UNCHANGED disk
    ELSE /\ file' = Continued \o [i \in 1..lines |-> Placeholder(k)]
         /\ ended' = TRUE

\* add_..._attribute: presets that are a span take a line each.
AddAttribute ==
    /\ phase = "documenting" /\ added < Len(Attributes)
    /\ added' = added + 1
    /\ Document(Attributes[added + 1].key, Attributes[added + 1].lines)
    /\ UNCHANGED <<writable, home, phase, settings_lines, existing_keys, bounds, history>>

\* settings_store.reset(), and the shell runs.
Started ==
    /\ phase = "documenting" /\ added = Len(Attributes)
    /\ phase' = "running"
    /\ settled' = TRUE
    /\ existing_keys' = {} /\ added' = 0
    /\ UNCHANGED <<disk, writable, home, settings_lines, bounds, base, whole, damaged>>
-----------------------------------------------------------------------------
\* Crashes, and the user.

\* What there may be of a line of which not all has been written.
Partial(l) ==
    {Torn} \cup (IF l.kind = "active" THEN {l, Active(l.key, Cut)} ELSE {l})

Stop == phase' = "off" /\ settings_lines' = <<>> /\ existing_keys' = {} /\ added' = 0

CrashWriting ==
    /\ phase = "writing" /\ crashes < MaxCrashes /\ Stop
    /\ crashes' = crashes + 1
    /\ \E n \in 0..Len(settings_lines) :
          \/ file' = SubSeq(settings_lines, 1, n) /\ ended' = TRUE
          \/ /\ n < Len(settings_lines)
             /\ \E l \in Partial(settings_lines[n + 1]) :
                    file' = Append(SubSeq(settings_lines, 1, n), l)
             /\ ended' = FALSE
    /\ damaged' = TRUE
    /\ UNCHANGED <<writable, home, edits, base, whole, settled>>

\* A crash at any other moment, or the end of the session.
Exit ==
    /\ phase \in {"migrated", "documenting", "running"} /\ Stop
    /\ UNCHANGED <<disk, writable, home, bounds, history>>

Edit ==
    /\ \/ \E k \in Key, v \in Chosen :
             Len(file) < MaxLines /\ file' = Append(file, Active(k, v))
       \/ \E i \in DOMAIN file, v \in Chosen :
             /\ file[i].kind = "placeholder"
             /\ file' = [file EXCEPT ![i] = Active(@.key, v)]
       \/ \E i \in DOMAIN file :
             /\ file[i].kind = "active"
             /\ file' = [file EXCEPT ![i] = Placeholder(@.key)]
       \/ \E i \in DOMAIN file : file' = RemoveAt(file, i)
    /\ ended' \in BOOLEAN
    /\ UNCHANGED home

PutConfig == ~home /\ home' = TRUE /\ UNCHANGED disk

UserChanges ==
    /\ phase \in {"off", "running"}
    /\ edits < MaxEdits
    /\ Edit \/ PutConfig
    /\ edits' = edits + 1
    /\ base' = file' /\ whole' = ended'
    /\ damaged' = FALSE /\ settled' = FALSE
    /\ UNCHANGED <<writable, phase, memory, crashes>>
-----------------------------------------------------------------------------
Init ==
    /\ file = <<>> /\ ended = TRUE
    /\ writable \in BOOLEAN
    /\ home = FALSE
    /\ phase = "off"
    /\ settings_lines = <<>> /\ existing_keys = {} /\ added = 0
    /\ edits = 0 /\ crashes = 0
    /\ base = <<>> /\ whole = TRUE /\ damaged = FALSE /\ settled = FALSE

Next ==
    \/ Migrate \/ Written \/ OpenStore \/ AddAttribute \/ Started
    \/ CrashWriting \/ Exit \/ UserChanges

Spec == Init /\ [][Next]_vars
-----------------------------------------------------------------------------
TypeOK ==
    /\ {file, base, settings_lines} \subseteq Seq(Line)
    /\ {ended, writable, home, whole, damaged, settled} \subseteq BOOLEAN
    /\ phase \in {"off", "writing", "migrated", "documenting", "running"}
    /\ existing_keys \subseteq Key
    /\ added \in 0..Len(Attributes)
    /\ edits \in 0..MaxEdits /\ crashes \in 0..MaxCrashes

SetIn(lines) == KeysOf(lines, {"active"})

\* The values the user's lines give to k, if the last line of an unended file
\* may have run into a comment.
Intended(k) ==
    {ValuesIn(base, k)} \cup
    IF whole \/ base = <<>> \/ Last(base).kind # "active" THEN {}
    ELSE {ValuesIn([base EXCEPT ![Len(base)].value = Glued], k)}

\* No start, complete or not, changes what the user's file says: every key it
\* sets keeps its values in their order, and a key that is commented out or
\* absent gets none but those of the .config file.  Only a crash while the
\* file is written again, or a last line without newline, costs anything.
KeepsTheUsers ==
    ~damaged /\ phase # "writing" =>
        \A k \in Key :
            \/ ValuesIn(file, k) \in Intended(k)
            \/ k \notin SetIn(base) /\ ValuesIn(file, k) = ConfigValues(k)

\* "Migrate options from .config to .settings if not already present": after a
\* start, however many were cut short before, each setting that the user's
\* file leaves out has all the values of the .config file.
Migrates ==
    settled /\ ~damaged /\ writable =>
        \A k \in Key \ SetIn(base) : ValuesIn(file, k) = ConfigValues(k)

\* Even a rewrite that was cut short is made up for by the next start, as far
\* as a setting of the .config file is not lost altogether.
Recovers ==
    settled /\ writable =>
        \A k \in Key : ConfigValues(k) # <<>> => k \in SetIn(file)

CountOf(lines, k) == Len(Those(lines, {Placeholder(k)}))

\* "Also track commented out keys to avoid duplicating them": after a start
\* every attribute is in the file, and starts never document one that was
\* there, or twice, whichever of them crashed.
DocumentedOnce ==
    \A i \in DOMAIN Attributes :
        LET k == Attributes[i].key IN
        /\ settled /\ writable => k \in KeysOf(file, {"active", "placeholder"})
        /\ \/ CountOf(file, k) <= CountOf(base, k)
           \/ CountOf(file, k) = Attributes[i].lines

\* Once a start has been completed no other start touches the file, until the
\* user changes something (lines 323 and 58 of the two files).
Settled == [][settled /\ settled' => UNCHANGED disk]_vars
=============================================================================
