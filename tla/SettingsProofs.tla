--------------------------- MODULE SettingsProofs ---------------------------
(***************************************************************************)
(* The invariant of Settings, for any settings, attributes and .config     *)
(* files, and what follows from it: starts keep what the user has set, get *)
(* what the .config file sets and document what is left, once, however     *)
(* many of them are cut short.                                             *)
(***************************************************************************)
EXTENDS Settings, RowsProofs

\* What there is of the file: while it is written again, only in memory.
Lines == IF phase = "writing" THEN settings_lines ELSE file

\* It is written only when something is missing, and from its beginning.
WritesWhatIsMissing ==
    phase = "writing" => writable /\ ~settled /\ ended /\ file = <<>>

\* The program ends every line it writes.
LeftUnended == ~damaged /\ ~ended => file = base /\ ~whole

UsersKept ==
    ~damaged =>
        \A k \in Key :
            \/ ValuesIn(Lines, k) \in Intended(k)
            \/ k \notin SetIn(base) /\ ValuesIn(Lines, k) = ConfigValues(k)

\* Every key that has a value in the .config file is set.
AllSet(lines) == \A k \in Key : ConfigValues(k) # <<>> => k \in SetIn(lines)

\* Once the migration has run, and as long as the user changes nothing.
AllMigrated ==
    writable /\ (settled \/ phase \in {"writing", "migrated", "documenting"}) =>
        AllSet(Lines)

Mentions(lines, k) == k \in KeysOf(lines, {"active", "placeholder"})

NoneAddedYet == phase # "documenting" => added = 0

\* existing_keys is of the file as it was before the attributes added so far.
DocumentedSoFar ==
    phase = "documenting" =>
        \A k \in Key :
            Mentions(file, k) <=>
                \/ k \in existing_keys
                \/ writable /\ \E i \in 1..added : Attributes[i].key = k

AllDocumented ==
    settled /\ writable =>
        \A i \in DOMAIN Attributes :
            /\ Mentions(file, Attributes[i].key)
            /\ phase = "documenting" => Attributes[i].key \in existing_keys

\* As long as anything is to be migrated, nothing has been documented.
MigratedFirst ==
    phase = "writing" \/ (writable /\ to_migrate # {}) =>
        \A k \in Key : CountOf(Lines, k) <= CountOf(base, k)

DocumentedAtMostOnce ==
    \A i \in DOMAIN Attributes :
        LET k == Attributes[i].key IN
        CountOf(Lines, k) <= CountOf(base, k) \/ CountOf(Lines, k) = Attributes[i].lines

IInv ==
    /\ TypeOK
    /\ WritesWhatIsMissing /\ LeftUnended
    /\ UsersKept /\ AllMigrated
    /\ NoneAddedYet /\ DocumentedSoFar /\ AllDocumented
    /\ MigratedFirst /\ DocumentedAtMostOnce

-----------------------------------------------------------------------------
\* Lines, and what is found in a file.

Values == Value \cup {Cut, Glued}

\* The lines that set k, and those that hold its place.
Setting(lines, k) == Those(lines, ActiveLines(k))
Holding(lines, k) == Those(lines, {Placeholder(k)})

LEMMA LineIsOf ==
    ASSUME NEW k \in Key
    PROVE  /\ \A v \in Values : /\ Active(k, v) \in Line /\ Active(k, v).kind = "active"
                                /\ Active(k, v).key = k /\ Active(k, v).value = v
           /\ Placeholder(k) \in Line
           /\ Placeholder(k).kind = "placeholder" /\ Placeholder(k).key = k
           /\ Torn \in Line /\ Torn.kind = "torn"
  BY DEF Values, Line, Active, Placeholder, Torn

LEMMA LineKinds ==
    ASSUME NEW l \in Line
    PROVE  /\ l.kind \in {"active", "placeholder", "torn"}
           /\ l.kind = "active" =>
                 l.key \in Key /\ l.value \in Values /\ l = Active(l.key, l.value)
           /\ l.kind = "placeholder" => l.key \in Key /\ l = Placeholder(l.key)
           /\ l.kind = "torn" => l = Torn
  <1>1. CASE l \in [kind : {"active"}, key : Key, value : Values]
    BY <1>1 DEF Active
  <1>2. CASE l \in [kind : {"placeholder"}, key : Key]
    BY <1>2 DEF Placeholder
  <1>3. CASE l = Torn
    BY <1>3 DEF Torn
  <1> QED BY <1>1, <1>2, <1>3 DEF Line, Values

\* Which lines are of k.
LEMMA LinesOfKey ==
    ASSUME NEW l \in Line, NEW k \in Key
    PROVE  /\ l \in ActiveLines(k) <=> l.kind = "active" /\ l.key = k
           /\ l \in {Placeholder(k)} <=> l.kind = "placeholder" /\ l.key = k
  <1>1. l \in ActiveLines(k) => l.kind = "active" /\ l.key = k
    BY DEF ActiveLines, Active
  <1>2. l.kind = "active" /\ l.key = k => l \in ActiveLines(k)
    BY LineKinds DEF ActiveLines, Values
  <1> QED BY <1>1, <1>2, LineKinds, LineIsOf

\* What a file sets and mentions, by its lines.
LEMMA FoundIn ==
    ASSUME NEW lines \in Seq(Line), NEW k \in Key
    PROVE  /\ Setting(lines, k) \in Seq(Line) /\ Holding(lines, k) \in Seq(Line)
           /\ k \in SetIn(lines) <=> Setting(lines, k) # <<>>
           /\ ValuesIn(lines, k) = <<>> <=> Setting(lines, k) = <<>>
           /\ Mentions(lines, k) <=> Setting(lines, k) # <<>> \/ Holding(lines, k) # <<>>
           /\ CountOf(lines, k) \in Nat
           /\ CountOf(lines, k) = 0 <=> Holding(lines, k) = <<>>
  <1>1. /\ Setting(lines, k) \in Seq(Line)
        /\ Setting(lines, k) = <<>> <=>
              \A i \in 1..Len(lines) : lines[i] \notin ActiveLines(k)
    BY ThoseAre DEF Setting
  <1>2. /\ Holding(lines, k) \in Seq(Line)
        /\ Holding(lines, k) = <<>> <=>
              \A i \in 1..Len(lines) : lines[i] \notin {Placeholder(k)}
    BY ThoseAre DEF Holding
  <1>3. \A i \in 1..Len(lines) :
            /\ lines[i] \in Line
            /\ lines[i] \in ActiveLines(k) <=> lines[i].kind = "active" /\ lines[i].key = k
            /\ lines[i] \in {Placeholder(k)} <=>
                  lines[i].kind = "placeholder" /\ lines[i].key = k
    BY LinesOfKey
  <1>4. ASSUME NEW kinds
        PROVE  k \in KeysOf(lines, kinds) <=>
                   \E i \in 1..Len(lines) : lines[i].kind \in kinds /\ lines[i].key = k
    BY DEF KeysOf, ToSet
  <1>5. k \in SetIn(lines) <=> Setting(lines, k) # <<>>
    BY <1>1, <1>3, <1>4 DEF SetIn
  <1>6. Mentions(lines, k) <=> Setting(lines, k) # <<>> \/ Holding(lines, k) # <<>>
    BY <1>1, <1>2, <1>3, <1>4 DEF Mentions
  <1>7. ValuesIn(lines, k) = <<>> <=> Setting(lines, k) = <<>>
    <2>1. ValuesIn(lines, k) = [i \in 1..Len(Setting(lines, k)) |-> Setting(lines, k)[i].value]
      BY DEF ValuesIn, ValuesOf, Setting
    <2>2. Len(ValuesIn(lines, k)) = Len(Setting(lines, k))
      BY <1>1, <2>1
    <2>3. Setting(lines, k) = <<>> => ValuesIn(lines, k) = <<>>
      BY <2>1
    <2> QED BY <1>1, <2>2, <2>3
  <1>8. CountOf(lines, k) = Len(Holding(lines, k))
    BY DEF CountOf, Holding
  <1> QED BY <1>1, <1>2, <1>5, <1>6, <1>7, <1>8

\* The same lines, the same values and counts.
LEMMA SameLines ==
    ASSUME NEW a, NEW b, NEW k
    PROVE  /\ Setting(a, k) = Setting(b, k) => ValuesIn(a, k) = ValuesIn(b, k)
           /\ Holding(a, k) = Holding(b, k) => CountOf(a, k) = CountOf(b, k)
  BY DEF Setting, Holding, ValuesIn, CountOf

LEMMA ConfigValuesType ==
    ASSUME NEW k \in Key
    PROVE  ConfigValues(k) \in Seq(Value)
  <1> DEFINE S == {o \in Option : Options[o.option] = k /\ o.value # Empty}
             mine == Those(find_config_file, S)
  <1>1. find_config_file \in Seq(Option)
    BY ConfigAssumption DEF find_config_file
  <1>2. mine \in Seq(S)
    BY <1>1, ThoseAre
  <1>3. \A o \in S : o.value \in Value
    BY ValueAssumption DEF Option
  <1> HIDE DEF S, mine
  <1>4. Len(mine) \in Nat /\ \A i \in 1..Len(mine) : mine[i].value \in Value
    BY <1>2, <1>3
  <1>5. [i \in 1..Len(mine) |-> mine[i].value] \in Seq(Value)
    BY <1>4
  <1> QED BY <1>5 DEF ConfigValues, ValuesOf, mine, S

\* What is written for k sets k and nothing else, to the values of the .config file.
LEMMA NewLinesSet ==
    ASSUME NEW k \in Key
    PROVE  /\ NewLines(k) \in Seq(Line)
           /\ Setting(NewLines(k), k) = NewLines(k)
           /\ ValuesOf(NewLines(k)) = ConfigValues(k)
           /\ \A j \in Key \ {k} : Setting(NewLines(k), j) = <<>>
           /\ \A j \in Key : Holding(NewLines(k), j) = <<>>
  <1> DEFINE values == ConfigValues(k)
             new == NewLines(k)
  <1>1. values \in Seq(Value)
    BY ConfigValuesType
  <1>2. new = [i \in 1..Len(values) |-> Active(k, values[i])]
    BY DEF NewLines
  <1> HIDE DEF values, new
  <1>3. Len(values) \in Nat /\ \A i \in 1..Len(values) : values[i] \in Values
    BY <1>1 DEF Values
  <1>4. \A i \in 1..Len(values) :
            /\ Active(k, values[i]) \in Line
            /\ Active(k, values[i]).kind = "active" /\ Active(k, values[i]).key = k
            /\ Active(k, values[i]).value = values[i]
    BY <1>3, LineIsOf
  <1>5. new \in Seq(Line) /\ Len(new) = Len(values)
    BY <1>2, <1>3, <1>4
  <1>6. \A i \in 1..Len(new) :
            /\ new[i] \in Line /\ new[i].kind = "active" /\ new[i].key = k
            /\ new[i].value = values[i]
    BY <1>2, <1>4, <1>5
  <1>7. Setting(new, k) = new
    <2>1. \A i \in 1..Len(new) : new[i] \in ActiveLines(k)
      BY <1>6, LinesOfKey
    <2> QED BY <1>5, <2>1, ThoseAre DEF Setting
  <1>8. ASSUME NEW j \in Key \ {k} PROVE Setting(new, j) = <<>>
    <2>1. \A i \in 1..Len(new) : new[i] \notin ActiveLines(j)
      BY <1>6, LinesOfKey
    <2> QED BY <1>5, <2>1, ThoseAre DEF Setting
  <1>9. ASSUME NEW j \in Key PROVE Holding(new, j) = <<>>
    <2>1. \A i \in 1..Len(new) : new[i] \notin {Placeholder(j)}
      BY <1>6, LinesOfKey
    <2> QED BY <1>5, <2>1, ThoseAre DEF Holding
  <1>10. ValuesOf(new) = values
    <2>1. ValuesOf(new) = [i \in 1..Len(values) |-> values[i]]
      BY <1>5, <1>6 DEF ValuesOf
    <2>2. [i \in 1..Len(values) |-> values[i]] = values
      BY <1>1
    <2> QED BY <2>1, <2>2
  <1> QED BY <1>5, <1>7, <1>8, <1>9, <1>10 DEF new, values
-----------------------------------------------------------------------------
\* What the migration makes of the lines.

LEMMA ConcatIsEmpty ==
    ASSUME NEW T, NEW a \in Seq(T), NEW b \in Seq(T), a \o b = <<>>
    PROVE  a = <<>> /\ b = <<>>
  <1>1. Len(a) \in Nat /\ Len(b) \in Nat /\ Len(a \o b) = Len(a) + Len(b)
    OBVIOUS
  <1>2. Len(a \o b) = 0
    OBVIOUS
  <1>3. Len(a) = 0 /\ Len(b) = 0
    BY <1>1, <1>2
  <1> QED BY <1>3

\* Lines put between two others change nothing but what they are about.
LEMMA PutBetween ==
    ASSUME NEW a \in Seq(Line), NEW b \in Seq(Line), NEW new \in Seq(Line), NEW S
    PROVE  /\ Those(new, S) = <<>> => Those(a \o new \o b, S) = Those(a \o b, S)
           /\ Those(a \o b, S) = <<>> => Those(a \o new \o b, S) = Those(new, S)
  <1>1. /\ Those(a, S) \in Seq(Line) /\ Those(b, S) \in Seq(Line)
        /\ Those(new, S) \in Seq(Line) /\ a \o new \in Seq(Line)
    BY ThoseAre
  <1>2. Those(a \o new \o b, S) = Those(a, S) \o Those(new, S) \o Those(b, S)
    <2> DEFINE front == a \o new
    <2>1. Those(front, S) = Those(a, S) \o Those(new, S)
      BY ThoseConcat
    <2>2. front \in Seq(Line)
      BY <1>1
    <2> HIDE DEF front
    <2>3. Those(front \o b, S) = Those(front, S) \o Those(b, S)
      BY <2>2, ThoseConcat
    <2> QED BY <2>1, <2>3 DEF front
  <1>3. Those(a \o b, S) = Those(a, S) \o Those(b, S)
    BY ThoseConcat
  <1>4. ASSUME Those(new, S) = <<>> PROVE Those(a \o new \o b, S) = Those(a \o b, S)
    <2>1. Those(a, S) \o <<>> = Those(a, S)
      BY <1>1, ConcatEmptySeq
    <2> QED BY <1>2, <1>3, <1>4, <2>1
  <1>5. ASSUME Those(a \o b, S) = <<>> PROVE Those(a \o new \o b, S) = Those(new, S)
    <2>1. Those(a, S) = <<>> /\ Those(b, S) = <<>>
      BY <1>1, <1>3, <1>5, ConcatIsEmpty
    <2>2. <<>> \o Those(new, S) = Those(new, S) /\ Those(new, S) \o <<>> = Those(new, S)
      BY <1>1, ConcatEmptySeq
    <2> QED BY <1>2, <2>1, <2>2
  <1> QED BY <1>4, <1>5

\* new differs from old in that it sets k, which old did not, as the .config file does.
SetsToo(old, new, k) ==
    /\ \A j \in Key : Holding(new, j) = Holding(old, j)
    /\ \A j \in Key \ {k} : Setting(new, j) = Setting(old, j)
    /\ Setting(old, k) = <<>> => Setting(new, k) = NewLines(k)

\* Wherever the new lines are put.
LEMMA NewLinesBetween ==
    ASSUME NEW a \in Seq(Line), NEW b \in Seq(Line), NEW k \in Key
    PROVE  /\ a \o NewLines(k) \o b \in Seq(Line)
           /\ SetsToo(a \o b, a \o NewLines(k) \o b, k)
  <1> DEFINE new == NewLines(k)
  <1>1. /\ new \in Seq(Line) /\ Setting(new, k) = new
        /\ \A j \in Key \ {k} : Setting(new, j) = <<>>
        /\ \A j \in Key : Holding(new, j) = <<>>
    BY NewLinesSet
  <1>2. a \o new \o b \in Seq(Line)
    BY <1>1
  <1> HIDE DEF new
  <1>3. \A j \in Key : Holding(a \o new \o b, j) = Holding(a \o b, j)
    BY <1>1, PutBetween DEF Holding
  <1>4. \A j \in Key \ {k} : Setting(a \o new \o b, j) = Setting(a \o b, j)
    BY <1>1, PutBetween DEF Setting
  <1>5. Setting(a \o b, k) = <<>> => Setting(a \o new \o b, k) = new
    BY <1>1, PutBetween DEF Setting
  <1> QED BY <1>2, <1>3, <1>4, <1>5 DEF SetsToo, new

\* Inserted puts them somewhere: behind a placeholder, or in front of all.
LEMMA InsertedSomewhere ==
    ASSUME NEW lines \in Seq(Line), NEW k
    PROVE  \E at \in 0..Len(lines) :
               Inserted(lines, k) =
                   SubSeq(lines, 1, at) \o NewLines(k) \o SubSeq(lines, at + 1, Len(lines))
  <1> DEFINE I  == {i \in 1..Len(lines) : lines[i] = Placeholder(k)}
             at == IF I # {} THEN CHOOSE i \in I : \A j \in I : i <= j ELSE 0
  <1>1. Inserted(lines, k) =
            SubSeq(lines, 1, at) \o NewLines(k) \o SubSeq(lines, at + 1, Len(lines))
    BY DEF Inserted, SelectInSeq, Min
  <1>2. I \subseteq Nat /\ Len(lines) \in Nat
    OBVIOUS
  <1>3. I # {} => \E i \in I : \A j \in I : i <= j
    <2> HIDE DEF I
    <2> QED BY <1>2, Least
  <1>4. at \in 0..Len(lines)
    <2>1. CASE I = {}
      BY <1>2, <2>1
    <2>2. CASE I # {}
      <3>1. at = CHOOSE i \in I : \A j \in I : i <= j
        BY <2>2
      <3>2. at \in I
        <4> HIDE DEF I, at
        <4> QED BY <1>3, <2>2, <3>1
      <3> QED BY <1>2, <3>2
    <2> QED BY <2>1, <2>2
  <1> HIDE DEF at
  <1> QED BY <1>1, <1>4

LEMMA InsertedSets ==
    ASSUME NEW lines \in Seq(Line), NEW k \in Key
    PROVE  Inserted(lines, k) \in Seq(Line) /\ SetsToo(lines, Inserted(lines, k), k)
  <1>1. PICK at \in 0..Len(lines) :
            Inserted(lines, k) =
                SubSeq(lines, 1, at) \o NewLines(k) \o SubSeq(lines, at + 1, Len(lines))
    BY InsertedSomewhere
  <1> DEFINE a == SubSeq(lines, 1, at)
             b == SubSeq(lines, at + 1, Len(lines))
  <1>2. a \in Seq(Line) /\ b \in Seq(Line)
    OBVIOUS
  <1>3. a \o b = lines
    <2>1. /\ 1 \in 1..(Len(lines) + 1) /\ at \in (1 - 1)..Len(lines)
          /\ Len(lines) \in at..Len(lines)
      OBVIOUS
    <2>2. a \o b = SubSeq(lines, 1, Len(lines))
      BY <2>1, ConcatAdjacentSubSeq
    <2> QED BY <2>2, SubSeqFull
  <1> HIDE DEF a, b
  <1>4. a \o NewLines(k) \o b \in Seq(Line) /\ SetsToo(a \o b, a \o NewLines(k) \o b, k)
    BY <1>2, NewLinesBetween
  <1> QED BY <1>1, <1>3, <1>4 DEF a, b

LEMMA AppendedSets ==
    ASSUME NEW lines \in Seq(Line), NEW k \in Key
    PROVE  lines \o NewLines(k) \in Seq(Line) /\ SetsToo(lines, lines \o NewLines(k), k)
  <1>1. <<>> \in Seq(Line) /\ lines \o <<>> = lines
    BY ConcatEmptySeq
  <1>2. lines \o NewLines(k) \o <<>> = lines \o NewLines(k)
    BY NewLinesSet, ConcatEmptySeq
  <1> QED BY <1>1, <1>2, NewLinesBetween

\* A loop over the keys each turn of which sets the key, if it is in ks.
SetsEach(step, ks) ==
    \A i \in 1..Len(Keys) : \A lines \in Seq(Line) :
        /\ step[i][lines] \in Seq(Line)
        /\ Keys[i] \in ks => SetsToo(lines, step[i][lines], Keys[i])
        /\ Keys[i] \notin ks => step[i][lines] = lines

LEMMA KeysListed ==
    /\ Len(Keys) \in Nat /\ DOMAIN Keys = 1..Len(Keys)
    /\ \A i \in 1..Len(Keys) : Keys[i] \in Key
    /\ \A k \in Key : \E i \in 1..Len(Keys) : Keys[i] = k
    /\ \A i, j \in 1..Len(Keys) : Keys[i] = Keys[j] => i = j
  BY KeysAssumption DEF Key, ToSet, NoRepeats

LEMMA PlaceNewSets ==
    ASSUME NEW ks
    PROVE  SetsEach(PlaceNew(ks), ks)
  <1> SUFFICES ASSUME NEW i \in 1..Len(Keys), NEW lines \in Seq(Line)
               PROVE  /\ PlaceNew(ks)[i][lines] \in Seq(Line)
                      /\ Keys[i] \in ks => SetsToo(lines, PlaceNew(ks)[i][lines], Keys[i])
                      /\ Keys[i] \notin ks => PlaceNew(ks)[i][lines] = lines
    BY DEF SetsEach
  <1>1. PlaceNew(ks)[i][lines] = IF Keys[i] \in ks THEN Inserted(lines, Keys[i]) ELSE lines
    <2>1. i \in DOMAIN Keys
      BY KeysListed
    <2> QED BY <2>1, Zenon DEF PlaceNew
  <1>2. Keys[i] \in Key
    BY KeysListed
  <1> QED BY <1>1, <1>2, InsertedSets

LEMMA AppendNewSets ==
    ASSUME NEW ks
    PROVE  SetsEach(AppendNew(ks), ks)
  <1> SUFFICES ASSUME NEW i \in 1..Len(Keys), NEW lines \in Seq(Line)
               PROVE  /\ AppendNew(ks)[i][lines] \in Seq(Line)
                      /\ Keys[i] \in ks => SetsToo(lines, AppendNew(ks)[i][lines], Keys[i])
                      /\ Keys[i] \notin ks => AppendNew(ks)[i][lines] = lines
    BY DEF SetsEach
  <1>1. AppendNew(ks)[i][lines] =
            IF Keys[i] \in ks THEN lines \o NewLines(Keys[i]) ELSE lines
    <2>1. i \in DOMAIN Keys
      BY KeysListed
    <2> QED BY <2>1, Zenon DEF AppendNew
  <1>2. Keys[i] \in Key
    BY KeysListed
  <1> QED BY <1>1, <1>2, AppendedSets

\* Of the keys in ks, which old did not set, those in ready are set in new.
SetIf(old, new, ks, ready) ==
    /\ \A k \in Key : Holding(new, k) = Holding(old, k)
    /\ \A k \in Key : Setting(new, k) =
          IF k \in ks \cap ready THEN NewLines(k) ELSE Setting(old, k)

LEMMA LoopSets ==
    ASSUME NEW step, NEW ks, SetsEach(step, ks),
           NEW lines \in Seq(Line), \A k \in ks : Setting(lines, k) = <<>>
    PROVE  /\ Loop(step, lines, Len(Keys)) \in Seq(Line)
           /\ SetIf(lines, Loop(step, lines, Len(Keys)), ks, Key)
  <1> DEFINE N == Len(Keys)
             ready(n) == {Keys[i] : i \in 1..n}
  <1>1. N \in Nat
    BY KeysListed
  <1>2. PICK after : /\ after[0] = lines
                     /\ \A i \in 1..N : after[i] = step[i][after[i - 1]]
                     /\ Loop(step, lines, N) = after[N]
    <2> HIDE DEF N
    <2> QED BY <1>1, LoopRuns
  <1> DEFINE P(n) == after[n] \in Seq(Line) /\ SetIf(lines, after[n], ks, ready(n))
             Bad  == {n \in 0..N : ~P(n)}
  <1>3. P(0)
    <2>1. ready(0) = {}
      OBVIOUS
    <2> HIDE DEF ready
    <2> QED BY <1>2, <2>1 DEF SetIf
  <1>4. ASSUME NEW n \in 1..N, P(n - 1)
        PROVE  P(n)
    <2> DEFINE old == after[n - 1]
               new == step[n][old]
               key == Keys[n]
    <2>1. after[n] = new
      BY <1>2
    <2>2. /\ new \in Seq(Line)
          /\ key \in ks => SetsToo(old, new, key)
          /\ key \notin ks => new = old
      BY <1>4 DEF SetsEach
    <2>3. SetIf(lines, old, ks, ready(n - 1)) /\ key \in Key
      BY <1>4, KeysListed
    <2>4. ready(n) = ready(n - 1) \cup {key} /\ key \notin ready(n - 1)
      <3>1. \A i \in 1..n : i \in 1..(n - 1) \/ i = n
        BY <1>1
      <3>2. \A i \in 1..(n - 1) : i \in 1..n /\ i \in 1..N /\ i # n
        BY <1>1
      <3>3. n \in 1..n /\ n \in 1..N
        BY <1>1
      <3> HIDE DEF N
      <3>4. \A i \in 1..(n - 1) : Keys[i] # key
        BY <3>2, <3>3, KeysListed DEF N
      <3> QED BY <3>1, <3>2, <3>3, <3>4
    <2> HIDE DEF old, new, key, ready, N
    <2>5. CASE key \notin ks
      <3>1. ks \cap ready(n) = ks \cap ready(n - 1)
        BY <2>4, <2>5
      <3> QED BY <2>1, <2>2, <2>3, <2>5, <3>1 DEF SetIf
    <2>6. CASE key \in ks
      <3>1. SetsToo(old, new, key)
        BY <2>2, <2>6
      <3>2. Setting(old, key) = <<>>
        BY <2>3, <2>4, <2>6 DEF SetIf
      <3>3. \A k \in Key : Holding(new, k) = Holding(lines, k)
        BY <2>3, <3>1 DEF SetIf, SetsToo
      <3>4. ASSUME NEW k \in Key
            PROVE  Setting(new, k) =
                       IF k \in ks \cap ready(n) THEN NewLines(k) ELSE Setting(lines, k)
        <4>1. CASE k = key
          BY <2>4, <2>6, <3>1, <3>2, <4>1 DEF SetsToo
        <4>2. CASE k # key
          <5>1. Setting(new, k) = Setting(old, k)
            BY <3>1, <4>2 DEF SetsToo
          <5>2. k \in ks \cap ready(n) <=> k \in ks \cap ready(n - 1)
            BY <2>4, <4>2
          <5> QED BY <2>3, <5>1, <5>2 DEF SetIf
        <4> QED BY <4>1, <4>2
      <3>5. SetIf(lines, new, ks, ready(n))
        BY <3>3, <3>4 DEF SetIf
      <3> QED BY <2>1, <2>2, <3>5
    <2> QED BY <2>5, <2>6
  <1>5. Bad = {}
    <2> SUFFICES ASSUME Bad # {} PROVE FALSE
      OBVIOUS
    <2>1. PICK n \in Bad : \A k \in Bad : n <= k
      <3>1. Bad \subseteq Nat
        OBVIOUS
      <3> HIDE DEF Bad
      <3> QED BY <3>1, Least
    <2> HIDE DEF P
    <2>2. n \in 0..N /\ ~P(n)
      OBVIOUS
    <2>3. n # 0
      BY <1>3, <2>2
    <2>4. n \in 1..N /\ n - 1 \in 0..N /\ ~(n <= n - 1)
      BY <1>1, <2>2, <2>3
    <2>5. P(n - 1)
      BY <2>1, <2>4
    <2> QED BY <1>4, <2>2, <2>4, <2>5
  <1>6. P(N)
    <2> HIDE DEF P
    <2>1. N \in 0..N
      BY <1>1
    <2> QED BY <1>5, <2>1
  <1>7. Key = ready(N)
    BY KeysListed
  <1> HIDE DEF ready
  <1> QED BY <1>2, <1>6, <1>7

\* What is to be migrated is set nowhere yet.
LEMMA ToMigrate ==
    ASSUME NEW k \in Key, file \in Seq(Line)
    PROVE  k \in to_migrate <=> Setting(file, k) = <<>> /\ ConfigValues(k) # <<>>
  <1>1. ActiveKeys(file) = SetIn(file)
    BY DEF ActiveKeys, SetIn
  <1> QED BY <1>1, FoundIn DEF to_migrate

\* The migration: keys the file does not set get the values of the .config
\* file, if it has any; nothing else changes.
LEMMA MigratedSets ==
    ASSUME file \in Seq(Line)
    PROVE  /\ Migrated(file) \in Seq(Line)
           /\ \A k \in Key :
                 /\ CountOf(Migrated(file), k) = CountOf(file, k)
                 /\ k \in to_migrate =>
                       /\ ValuesIn(Migrated(file), k) = ConfigValues(k)
                       /\ k \in SetIn(Migrated(file))
                 /\ k \notin to_migrate =>
                       /\ ValuesIn(Migrated(file), k) = ValuesIn(file, k)
                       /\ k \in SetIn(Migrated(file)) <=> k \in SetIn(file)
  <1> DEFINE placed == {k \in to_migrate : IsPlaceholder(file, k)}
             rest   == to_migrate \ placed
             middle == Loop(PlaceNew(placed), file, Len(Keys))
             new    == Loop(AppendNew(rest), middle, Len(Keys))
  <1>1. \A k \in to_migrate : k \in Key /\ Setting(file, k) = <<>>
    <2>1. to_migrate \subseteq Key
      BY DEF to_migrate
    <2> QED BY <2>1, ToMigrate
  <1>2. placed \subseteq to_migrate /\ rest \subseteq to_migrate /\ placed \cap rest = {}
        /\ placed \cup rest = to_migrate
    OBVIOUS
  <1>3. Migrated(file) = new
    BY DEF Migrated
  <1> HIDE DEF placed, rest, middle, new
  <1>4. middle \in Seq(Line) /\ SetIf(file, middle, placed, Key)
    BY <1>1, <1>2, PlaceNewSets, LoopSets DEF middle
  <1>5. \A k \in rest : Setting(middle, k) = <<>>
    BY <1>1, <1>2, <1>4 DEF SetIf
  <1>6. new \in Seq(Line) /\ SetIf(middle, new, rest, Key)
    BY <1>4, <1>5, AppendNewSets, LoopSets DEF new
  <1>7. ASSUME NEW k \in Key
        PROVE  /\ Holding(new, k) = Holding(file, k)
               /\ Setting(new, k) =
                     IF k \in to_migrate THEN NewLines(k) ELSE Setting(file, k)
    BY <1>2, <1>4, <1>6 DEF SetIf
  <1>8. ASSUME NEW k \in to_migrate
        PROVE  ValuesIn(new, k) = ConfigValues(k) /\ k \in SetIn(new)
    <2>1. k \in Key /\ ConfigValues(k) # <<>>
      BY <1>1, ToMigrate
    <2>2. ValuesIn(new, k) = ConfigValues(k)
      BY <1>7, <2>1, NewLinesSet DEF ValuesIn, Setting
    <2> QED BY <1>6, <2>1, <2>2, FoundIn
  <1>9. ASSUME NEW k \in Key \ to_migrate
        PROVE  ValuesIn(new, k) = ValuesIn(file, k) /\ (k \in SetIn(new) <=> k \in SetIn(file))
    <2>1. k \in Key /\ Setting(new, k) = Setting(file, k)
      BY <1>7
    <2>2. ValuesIn(new, k) = ValuesIn(file, k)
      BY <2>1, SameLines
    <2>3. k \in SetIn(new) <=> k \in SetIn(file)
      BY <1>6, <2>1, FoundIn
    <2> QED BY <2>2, <2>3
  <1>10. \A k \in Key : CountOf(new, k) = CountOf(file, k)
    BY <1>7, SameLines
  <1> QED BY <1>3, <1>6, <1>8, <1>9, <1>10
-----------------------------------------------------------------------------
\* What else becomes of the lines.

\* A comment that runs into the last line changes its value, and nothing else.
LEMMA LastGlued ==
    ASSUME NEW lines \in Seq(Line), lines # <<>>, Last(lines).kind = "active",
           NEW glued, glued = [lines EXCEPT ![Len(lines)].value = Glued]
    PROVE  /\ glued \in Seq(Line)
           /\ \A k \in Key :
                 /\ Holding(glued, k) = Holding(lines, k)
                 /\ Setting(glued, k) = <<>> <=> Setting(lines, k) = <<>>
  <1> DEFINE n    == Len(lines)
             last == lines[n]
             a    == SubSeq(lines, 1, n - 1)
  <1>1. n \in Nat /\ n >= 1 /\ n \in 1..n
    OBVIOUS
  <1>2. last \in Line /\ last.kind = "active"
    BY <1>1 DEF Last
  <1>3. last.key \in Key /\ last.value \in Values /\ last = Active(last.key, last.value)
    BY <1>2, LineKinds
  <1>4. [last EXCEPT !.value = Glued] = Active(last.key, Glued)
    BY <1>3 DEF Active
  <1>5. /\ Active(last.key, Glued) \in Line /\ Active(last.key, Glued).kind = "active"
        /\ Active(last.key, Glued).key = last.key
    BY <1>3, LineIsOf DEF Values
  <1>6. glued = [lines EXCEPT ![n] = Active(last.key, Glued)]
    BY <1>4
  <1> HIDE DEF last
  <1>7. glued \in Seq(Line) /\ Len(glued) = n /\ glued[n] = Active(last.key, Glued)
        /\ \A i \in 1..n : i # n => glued[i] = lines[i]
    BY <1>1, <1>5, <1>6
  <1>8. a \in Seq(Line) /\ lines = Append(a, last)
    <2>1. SubSeq(lines, 1, n) = lines
      BY SubSeqFull
    <2> QED BY <1>1, <2>1, UpToLast DEF last
  <1>9. glued = Append(a, Active(last.key, Glued))
    <2> DEFINE b == SubSeq(glued, 1, n - 1)
    <2>1. b \in Seq(Line) /\ SubSeq(glued, 1, n) = Append(b, glued[n])
      <3>1. n \in 1..Len(glued)
        BY <1>1, <1>7
      <3> HIDE DEF n
      <3> QED BY <1>7, <3>1, UpToLast
    <2>2. SubSeq(glued, 1, n) = glued
      BY <1>7, SubSeqFull
    <2>3. Len(a) = n - 1 /\ Len(b) = n - 1 /\ \A i \in 1..(n - 1) : a[i] = b[i]
      BY <1>1, <1>7
    <2> HIDE DEF a, b
    <2>4. a = b
      BY <1>8, <2>1, <2>3, SeqEqual
    <2> QED BY <1>7, <2>1, <2>2, <2>4
  <1> HIDE DEF a, n
  <1>10. ASSUME NEW k \in Key
         PROVE  /\ Holding(glued, k) = Holding(lines, k)
                /\ Setting(glued, k) = <<>> <=> Setting(lines, k) = <<>>
    <2>1. last \notin {Placeholder(k)} /\ Active(last.key, Glued) \notin {Placeholder(k)}
      BY <1>2, <1>5, LinesOfKey
    <2>2. Holding(lines, k) = Holding(a, k)
      BY <1>2, <1>8, <2>1, ThoseAppend DEF Holding
    <2>3. Holding(glued, k) = Holding(a, k)
      <3> DEFINE l == Active(last.key, Glued)
      <3>1. l \in Line /\ l \notin {Placeholder(k)} /\ glued = Append(a, l)
        BY <1>5, <1>9, <2>1
      <3> HIDE DEF l
      <3>2. a \in Seq(Line)
        BY <1>8
      <3>3. Those(Append(a, l), {Placeholder(k)}) = Those(a, {Placeholder(k)})
        BY <3>1, <3>2, ThoseAppend
      <3> QED BY <3>1, <3>3 DEF Holding
    <2>4. last \in ActiveLines(k) <=> Active(last.key, Glued) \in ActiveLines(k)
      BY <1>2, <1>5, LinesOfKey
    <2>5. \A i \in 1..n : glued[i] \in ActiveLines(k) <=> lines[i] \in ActiveLines(k)
      BY <1>7, <2>4 DEF last
    <2>6. Setting(glued, k) = <<>> <=> Setting(lines, k) = <<>>
      BY <1>7, <2>5, ThoseAre DEF Setting, n
    <2> QED BY <2>2, <2>3, <2>6
  <1> QED BY <1>7, <1>10

LEMMA ContinuedKeeps ==
    ASSUME file \in Seq(Line)
    PROVE  /\ Continued \in Seq(Line)
           /\ \A k \in Key :
                 /\ Holding(Continued, k) = Holding(file, k)
                 /\ Setting(Continued, k) = <<>> <=> Setting(file, k) = <<>>
  <1>1. CASE ended \/ file = <<>> \/ Last(file).kind # "active"
    BY <1>1 DEF Continued
  <1>2. CASE ~(ended \/ file = <<>> \/ Last(file).kind # "active")
    BY <1>2, LastGlued DEF Continued
  <1> QED BY <1>1, <1>2

\* Documenting a key adds placeholders for it, and nothing else.
WithPlaces(lines, k, m) == lines \o [i \in 1..m |-> Placeholder(k)]

LEMMA DocumentsKey ==
    ASSUME NEW lines \in Seq(Line), NEW k \in Key, NEW m \in Nat \ {0}
    PROVE  LET new == WithPlaces(lines, k, m)
           IN  /\ new \in Seq(Line)
               /\ \A j \in Key : Setting(new, j) = Setting(lines, j)
               /\ \A j \in Key \ {k} : Holding(new, j) = Holding(lines, j)
               /\ Holding(new, k) # <<>>
               /\ Holding(lines, k) = <<>> => CountOf(new, k) = m
  <1> DEFINE more == [i \in 1..m |-> Placeholder(k)]
             new  == WithPlaces(lines, k, m)
  <1>1. /\ Placeholder(k) \in Line
        /\ Placeholder(k).kind = "placeholder" /\ Placeholder(k).key = k
    BY LineIsOf
  <1>2. more \in Seq(Line) /\ Len(more) = m /\ \A i \in 1..m : more[i] = Placeholder(k)
    BY <1>1
  <1>3. new = lines \o more
    BY DEF WithPlaces
  <1> HIDE DEF more, new
  <1>4. new \in Seq(Line)
    BY <1>2, <1>3
  <1>5. ASSUME NEW S PROVE Those(new, S) = Those(lines, S) \o Those(more, S)
    <2>1. Those(lines \o more, S) = Those(lines, S) \o Those(more, S)
      BY <1>2, ThoseConcat
    <2> QED BY <1>3, <2>1
  <1>6. \A S : Those(lines, S) \in Seq(Line) /\ Those(more, S) \in Seq(Line)
    BY <1>2, ThoseAre
  <1>7. \A s \in Seq(Line) : s \o <<>> = s /\ <<>> \o s = s
    BY ConcatEmptySeq
  <1>8. ASSUME NEW j \in Key PROVE Setting(new, j) = Setting(lines, j)
    <2>1. \A i \in 1..Len(more) : more[i] \notin ActiveLines(j)
      BY <1>1, <1>2, LinesOfKey
    <2>2. Those(more, ActiveLines(j)) = <<>>
      BY <1>2, <2>1, ThoseAre
    <2> QED BY <1>5, <1>6, <1>7, <2>2 DEF Setting
  <1>9. ASSUME NEW j \in Key \ {k} PROVE Holding(new, j) = Holding(lines, j)
    <2>1. \A i \in 1..Len(more) : more[i] \notin {Placeholder(j)}
      BY <1>1, <1>2, LinesOfKey
    <2>2. Those(more, {Placeholder(j)}) = <<>>
      BY <1>2, <2>1, ThoseAre
    <2> QED BY <1>5, <1>6, <1>7, <2>2 DEF Holding
  <1>10. Those(more, {Placeholder(k)}) = more
    <2>1. \A i \in 1..Len(more) : more[i] \in {Placeholder(k)}
      BY <1>2
    <2> QED BY <1>2, <2>1, ThoseAre
  <1>11. Holding(new, k) = Holding(lines, k) \o more /\ Holding(lines, k) \in Seq(Line)
    BY <1>5, <1>6, <1>10 DEF Holding
  <1>12. Holding(new, k) # <<>>
    <2>1. more # <<>>
      BY <1>2
    <2> QED BY <1>2, <1>11, <2>1, ConcatIsEmpty
  <1>13. Holding(lines, k) = <<>> => CountOf(new, k) = m
    BY <1>2, <1>7, <1>11 DEF CountOf, Holding
  <1> QED BY <1>4, <1>8, <1>9, <1>12, <1>13 DEF new

\* What a crash leaves holds no more places than what was to be written.
LEMMA CutShort ==
    ASSUME NEW lines \in Seq(Line), NEW n \in 0..Len(lines)
    PROVE  /\ SubSeq(lines, 1, n) \in Seq(Line)
           /\ \A k \in Key : CountOf(SubSeq(lines, 1, n), k) <= CountOf(lines, k)
  <1> DEFINE a == SubSeq(lines, 1, n)
             b == SubSeq(lines, n + 1, Len(lines))
  <1>1. a \in Seq(Line) /\ b \in Seq(Line)
    OBVIOUS
  <1>2. a \o b = lines
    <2>1. /\ 1 \in 1..(Len(lines) + 1) /\ n \in (1 - 1)..Len(lines)
          /\ Len(lines) \in n..Len(lines)
      OBVIOUS
    <2>2. a \o b = SubSeq(lines, 1, Len(lines))
      BY <2>1, ConcatAdjacentSubSeq
    <2> QED BY <2>2, SubSeqFull
  <1> HIDE DEF a, b
  <1>3. ASSUME NEW k \in Key PROVE CountOf(a, k) <= CountOf(lines, k)
    <2>1. Holding(a, k) \in Seq(Line) /\ Holding(b, k) \in Seq(Line)
      BY <1>1, FoundIn
    <2>2. Holding(lines, k) = Holding(a, k) \o Holding(b, k)
      <3>1. Those(a \o b, {Placeholder(k)}) =
                Those(a, {Placeholder(k)}) \o Those(b, {Placeholder(k)})
        BY <1>1, ThoseConcat
      <3> QED BY <1>2, <3>1 DEF Holding
    <2>3. Len(Holding(lines, k)) = Len(Holding(a, k)) + Len(Holding(b, k))
      BY <2>1, <2>2
    <2>4. Len(Holding(a, k)) <= Len(Holding(lines, k))
      BY <2>1, <2>3
    <2> QED BY <2>4 DEF CountOf, Holding
  <1> QED BY <1>1, <1>3 DEF a

LEMMA CutWithin ==
    ASSUME NEW lines \in Seq(Line), NEW n \in 0..Len(lines), n < Len(lines),
           NEW l \in Partial(lines[n + 1])
    PROVE  /\ Append(SubSeq(lines, 1, n), l) \in Seq(Line)
           /\ \A k \in Key : CountOf(Append(SubSeq(lines, 1, n), l), k) <= CountOf(lines, k)
  <1> DEFINE a == SubSeq(lines, 1, n)
             x == lines[n + 1]
  <1>1. n + 1 \in 1..Len(lines) /\ n + 1 \in 0..Len(lines) /\ (n + 1) - 1 = n
    OBVIOUS
  <1>2. a \in Seq(Line) /\ x \in Line /\ SubSeq(lines, 1, n + 1) = Append(a, x)
    <2> DEFINE p == n + 1
    <2>1. p \in 1..Len(lines) /\ p - 1 = n
      BY <1>1
    <2> HIDE DEF p
    <2>2. /\ SubSeq(lines, 1, p - 1) \in Seq(Line) /\ lines[p] \in Line
          /\ SubSeq(lines, 1, p) = Append(SubSeq(lines, 1, p - 1), lines[p])
      BY <2>1, UpToLast
    <2> QED BY <2>1, <2>2 DEF p
  <1>3. \A k \in Key : CountOf(Append(a, x), k) <= CountOf(lines, k)
    BY <1>1, <1>2, CutShort
  <1> HIDE DEF a, x
  <1>4. l \in Line /\ (l.kind = "placeholder" => l = x)
    <2>1. CASE l = Torn
      BY <2>1 DEF Torn, Line
    <2>2. CASE l = x
      BY <1>2, <2>2
    <2>3. CASE x.kind = "active" /\ l = Active(x.key, Cut)
      BY <1>2, <2>3, LineKinds, LineIsOf DEF Values
    <2> QED BY <2>1, <2>2, <2>3 DEF Partial, x
  <1>5. ASSUME NEW k \in Key PROVE CountOf(Append(a, l), k) <= CountOf(lines, k)
    <2>1. CASE l = Placeholder(k)
      <3>1. l = x
        BY <1>4, <2>1, LineIsOf
      <3> QED BY <1>3, <3>1
    <2>2. CASE l # Placeholder(k)
      <3>1. Holding(Append(a, l), k) = Holding(a, k)
        BY <1>2, <1>4, <2>2, ThoseAppend DEF Holding
      <3>2. CountOf(Append(a, l), k) = CountOf(a, k)
        BY <3>1, SameLines
      <3>3. CountOf(a, k) <= CountOf(lines, k)
        BY CutShort DEF a
      <3> QED BY <3>2, <3>3
    <2> QED BY <2>1, <2>2
  <1>6. Append(a, l) \in Seq(Line)
    BY <1>2, <1>4
  <1> QED BY <1>5, <1>6 DEF a

\* The user writes lines.
LEMMA EditWritesLines ==
    ASSUME file \in Seq(Line), Edit
    PROVE  file' \in Seq(Line)
  <1>1. \A k \in Key : /\ \A v \in Chosen : Active(k, v) \in Line
                       /\ Placeholder(k) \in Line
    BY ValueAssumption, LineIsOf DEF Values
  <1>2. \A i \in DOMAIN file :
            /\ i \in 1..Len(file) /\ file[i] \in Line
            /\ file[i].kind # "torn" => file[i].key \in Key
    BY LineKinds
  <1>3. ASSUME NEW k \in Key, NEW v \in Chosen, file' = Append(file, Active(k, v))
        PROVE  file' \in Seq(Line)
    BY <1>1, <1>3
  <1>4. ASSUME NEW i \in DOMAIN file, NEW v \in Chosen, file[i].kind = "placeholder",
               file' = [file EXCEPT ![i] = Active(@.key, v)]
        PROVE  file' \in Seq(Line)
    <2>1. Active(file[i].key, v) \in Line /\ i \in 1..Len(file)
      BY <1>1, <1>2, <1>4
    <2> DEFINE l == Active(file[i].key, v)
    <2>2. file' = [file EXCEPT ![i] = l]
      BY <1>4
    <2> HIDE DEF l
    <2> QED BY <2>1, <2>2 DEF l
  <1>5. ASSUME NEW i \in DOMAIN file, file[i].kind = "active",
               file' = [file EXCEPT ![i] = Placeholder(@.key)]
        PROVE  file' \in Seq(Line)
    <2>1. Placeholder(file[i].key) \in Line /\ i \in 1..Len(file)
      BY <1>1, <1>2, <1>5
    <2> DEFINE l == Placeholder(file[i].key)
    <2>2. file' = [file EXCEPT ![i] = l]
      BY <1>5
    <2> HIDE DEF l
    <2> QED BY <2>1, <2>2 DEF l
  <1>6. ASSUME NEW i \in DOMAIN file, file' = RemoveAt(file, i)
        PROVE  file' \in Seq(Line)
    BY <1>2, <1>6, RemoveAtMoves
  <1> QED BY <1>3, <1>4, <1>5, <1>6 DEF Edit
-----------------------------------------------------------------------------
\* What depends on what.

LEMMA SameConfig ==
    ASSUME home' = home
    PROVE  \A k \in Key : ConfigValues(k)' = ConfigValues(k)
  BY DEF ConfigValues, find_config_file

LEMMA SameIntended ==
    ASSUME base' = base, whole' = whole
    PROVE  \A k \in Key : Intended(k)' = Intended(k)
  BY DEF Intended

\* The user means a key to have no value by not setting it.
LEMMA IntendedNothing ==
    ASSUME base \in Seq(Line), NEW k \in Key
    PROVE  /\ <<>> \in Intended(k) <=> k \notin SetIn(base)
           /\ k \notin SetIn(base) => Intended(k) = {<<>>}
  <1>1. ValuesIn(base, k) = <<>> <=> k \notin SetIn(base)
    BY FoundIn
  <1>2. CASE whole \/ base = <<>> \/ Last(base).kind # "active"
    BY <1>1, <1>2 DEF Intended
  <1>3. CASE ~(whole \/ base = <<>> \/ Last(base).kind # "active")
    <2> DEFINE glued == [base EXCEPT ![Len(base)].value = Glued]
    <2>1. Intended(k) = {ValuesIn(base, k), ValuesIn(glued, k)}
      BY <1>3 DEF Intended
    <2>2. glued \in Seq(Line) /\ (Setting(glued, k) = <<>> <=> Setting(base, k) = <<>>)
      BY <1>3, LastGlued
    <2> HIDE DEF glued
    <2>3. ValuesIn(glued, k) = <<>> <=> k \notin SetIn(base)
      BY <2>2, FoundIn
    <2> QED BY <1>1, <2>1, <2>3
  <1> QED BY <1>2, <1>3

\* TypeOK, in a form that is easier to use.
LEMMA Types ==
    ASSUME TypeOK
    PROVE  /\ file \in Seq(Line) /\ base \in Seq(Line) /\ settings_lines \in Seq(Line)
           /\ Lines \in Seq(Line)
           /\ existing_keys \subseteq Key
           /\ added \in Nat /\ added <= Len(Attributes)
  BY AttributesAssumption DEF TypeOK, Lines

LEMMA AttributeTypes ==
    /\ Len(Attributes) \in Nat /\ DOMAIN Attributes = 1..Len(Attributes)
    /\ \A i \in 1..Len(Attributes) :
          Attributes[i].key \in Key /\ Attributes[i].lines \in Nat \ {0}
    /\ \A i, j \in 1..Len(Attributes) : Attributes[i].key = Attributes[j].key => i = j
  <1>1. Attributes \in Seq([key : Key, lines : Nat \ {0}])
    BY AttributesAssumption
  <1>2. Len(Attributes) \in Nat /\ DOMAIN Attributes = 1..Len(Attributes)
    BY <1>1
  <1>3. \A i \in 1..Len(Attributes) : Attributes[i] \in [key : Key, lines : Nat \ {0}]
    BY <1>1, ElementOfSeq
  <1>4. \A i, j \in 1..Len(Attributes) : Attributes[i].key = Attributes[j].key => i = j
    BY <1>2, AttributesAssumption
  <1> QED BY <1>2, <1>3, <1>4

LEMMA NothingToMigrate ==
    /\ to_migrate = {} <=> AllSet(file)
    /\ AllSet(file)' => to_migrate' = {}
    /\ file' = file /\ home' = home => to_migrate' = to_migrate
  <1>1. to_migrate = {} <=> AllSet(file)
    BY DEF to_migrate, AllSet, ActiveKeys, SetIn
  <1>2. AllSet(file)' => to_migrate' = {}
    BY DEF to_migrate, AllSet, ActiveKeys, SetIn
  <1>3. file' = file /\ home' = home => to_migrate' = to_migrate
    BY SameConfig DEF to_migrate
  <1> QED BY <1>1, <1>2, <1>3

\* A step that changes nothing the user has, nor the lines, keeps what is said of them.
LEMMA LinesSame ==
    ASSUME Lines' = Lines, UNCHANGED <<home, base, whole>>, damaged => damaged'
    PROVE  /\ UsersKept => UsersKept'
           /\ DocumentedAtMostOnce => DocumentedAtMostOnce'
           /\ AllSet(Lines) => AllSet(Lines)'
  <1>1. \A k \in Key : ConfigValues(k)' = ConfigValues(k) /\ Intended(k)' = Intended(k)
    BY SameConfig, SameIntended
  <1>2. UsersKept => UsersKept'
    BY <1>1 DEF UsersKept
  <1>3. DocumentedAtMostOnce => DocumentedAtMostOnce'
    BY DEF DocumentedAtMostOnce
  <1>4. AllSet(Lines) => AllSet(Lines)'
    BY <1>1 DEF AllSet
  <1> QED BY <1>2, <1>3, <1>4
-----------------------------------------------------------------------------
\* One lemma per action.

LEMMA InitKeeps ==
    ASSUME Init
    PROVE  IInv
  <1>1. file = <<>> /\ base = <<>> /\ settings_lines = <<>> /\ phase = "off" /\ Lines = <<>>
    BY DEF Init, Lines
  <1>2. TypeOK
    <2>1. added \in 0..Len(Attributes)
      BY AttributeTypes DEF Init
    <2>2. edits \in 0..MaxEdits /\ crashes \in 0..MaxCrashes
      BY BoundAssumption DEF Init
    <2>3. {ended, writable, home, whole, damaged, settled} \subseteq BOOLEAN
      BY DEF Init
    <2>4. existing_keys \subseteq Key /\ {file, base, settings_lines} \subseteq Seq(Line)
      BY <1>1 DEF Init
    <2> QED BY <1>1, <2>1, <2>2, <2>3, <2>4 DEF TypeOK
  <1>3. /\ WritesWhatIsMissing /\ LeftUnended /\ AllMigrated
        /\ NoneAddedYet /\ DocumentedSoFar /\ AllDocumented
    BY DEF Init, WritesWhatIsMissing, LeftUnended, AllMigrated, NoneAddedYet,
           DocumentedSoFar, AllDocumented
  <1>4. UsersKept
    BY <1>1 DEF UsersKept, Intended
  <1>5. \A k \in Key : CountOf(Lines, k) <= CountOf(base, k)
    <2>1. base \in Seq(Line) /\ Lines = base
      BY <1>1
    <2>2. \A k \in Key : CountOf(base, k) \in Nat
      BY <2>1, FoundIn
    <2> QED BY <2>1, <2>2
  <1>6. MigratedFirst
    BY <1>5 DEF MigratedFirst
  <1>7. DocumentedAtMostOnce
    BY <1>5, AttributeTypes DEF DocumentedAtMostOnce
  <1> QED BY <1>2, <1>3, <1>4, <1>6, <1>7 DEF IInv

\* There is nothing to migrate, or the file cannot be written.
LEMMA MigrateNothingKeeps ==
    ASSUME IInv, Migrate, ~(to_migrate # {} /\ writable)
    PROVE  IInv'
  <1>1. /\ phase = "off" /\ phase' = "migrated"
        /\ UNCHANGED <<disk, settings_lines, writable, home, existing_keys, added, bounds, history>>
    BY DEF Migrate
  <1>2. /\ file' = file /\ ended' = ended /\ home' = home /\ writable' = writable
        /\ base' = base /\ whole' = whole /\ damaged' = damaged /\ settled' = settled
        /\ Lines = file /\ Lines' = file /\ added' = added
    BY <1>1 DEF disk, history, Lines
  <1>3. TypeOK'
    BY <1>1 DEF IInv, TypeOK, disk, history, bounds
  <1>4. UsersKept' /\ DocumentedAtMostOnce' /\ (AllSet(Lines) => AllSet(Lines)')
    BY <1>2, LinesSame DEF IInv
  <1>5. WritesWhatIsMissing' /\ LeftUnended' /\ NoneAddedYet' /\ DocumentedSoFar'
    BY <1>1, <1>2
       DEF IInv, WritesWhatIsMissing, LeftUnended, NoneAddedYet, DocumentedSoFar
  <1>6. AllMigrated'
    <2>1. writable => AllSet(Lines)
      BY <1>2, NothingToMigrate
    <2> QED BY <1>2, <1>4, <2>1 DEF AllMigrated
  <1>7. AllDocumented'
    BY <1>1, <1>2 DEF IInv, AllDocumented
  <1>8. MigratedFirst'
    <2>1. to_migrate' = to_migrate
      BY <1>2, NothingToMigrate
    <2> QED BY <1>1, <1>2, <2>1 DEF MigratedFirst
  <1> QED BY <1>3, <1>4, <1>5, <1>6, <1>7, <1>8 DEF IInv

\* The file is truncated, and what it is to be is in memory.
LEMMA MigrateKeeps ==
    ASSUME IInv, Migrate
    PROVE  IInv'
  <1>1. CASE ~(to_migrate # {} /\ writable)
    BY <1>1, MigrateNothingKeeps
  <1>2. CASE to_migrate # {} /\ writable
    <2>1. /\ phase = "off" /\ phase' = "writing"
          /\ settings_lines' = Migrated(file) /\ file' = <<>> /\ ended' = TRUE
          /\ UNCHANGED <<writable, home, existing_keys, added, bounds, history>>
      BY <1>2 DEF Migrate
    <2> DEFINE new == Migrated(file)
    <2>2. /\ home' = home /\ writable' = writable /\ added' = added
          /\ base' = base /\ whole' = whole /\ damaged' = damaged /\ settled' = settled
          /\ Lines = file /\ Lines' = new
      BY <2>1 DEF history, Lines
    <2>3. file \in Seq(Line) /\ base \in Seq(Line)
      BY Types DEF IInv
    <2>4. /\ new \in Seq(Line)
          /\ \A k \in Key :
                /\ CountOf(new, k) = CountOf(file, k)
                /\ k \in to_migrate => ValuesIn(new, k) = ConfigValues(k) /\ k \in SetIn(new)
                /\ k \notin to_migrate =>
                      /\ ValuesIn(new, k) = ValuesIn(file, k)
                      /\ k \in SetIn(new) <=> k \in SetIn(file)
      BY <2>3, MigratedSets
    <2> HIDE DEF new
    <2>5. /\ \A k \in Key : ConfigValues(k)' = ConfigValues(k)
          /\ \A k \in Key : Intended(k)' = Intended(k)
      BY <2>2, SameConfig, SameIntended
    <2>6. TypeOK'
      <3>1. {file', base', settings_lines'} \subseteq Seq(Line)
        BY <2>1, <2>2, <2>3, <2>4 DEF new
      <3> QED BY <2>1, <3>1 DEF IInv, TypeOK, bounds, history
    <2>7. ~settled
      <3>1. ~AllSet(Lines)
        BY <1>2, <2>2, NothingToMigrate
      <3> QED BY <1>2, <3>1 DEF IInv, AllMigrated
    <2>8. /\ WritesWhatIsMissing' /\ LeftUnended'
          /\ NoneAddedYet' /\ DocumentedSoFar' /\ AllDocumented'
      BY <1>2, <2>1, <2>2, <2>7
         DEF IInv, WritesWhatIsMissing, LeftUnended, NoneAddedYet, DocumentedSoFar, AllDocumented
    <2>9. UsersKept'
      <3>1. ASSUME ~damaged, NEW k \in Key
            PROVE  \/ ValuesIn(new, k) \in Intended(k)
                   \/ k \notin SetIn(base) /\ ValuesIn(new, k) = ConfigValues(k)
        <4>1. \/ ValuesIn(file, k) \in Intended(k)
              \/ k \notin SetIn(base) /\ ValuesIn(file, k) = ConfigValues(k)
          BY <2>2, <3>1 DEF IInv, UsersKept
        <4>2. CASE k \notin to_migrate
          BY <2>4, <4>1, <4>2
        <4>3. CASE k \in to_migrate
          <5>1. ValuesIn(file, k) = <<>>
            BY <2>3, <4>3, ToMigrate, FoundIn
          <5>2. k \notin SetIn(base)
            BY <2>3, <4>1, <5>1, IntendedNothing
          <5> QED BY <2>4, <4>3, <5>2
        <4> QED BY <4>2, <4>3
      <3> QED BY <2>2, <2>5, <3>1 DEF UsersKept
    <2>10. AllMigrated'
      <3>1. ASSUME NEW k \in Key, ConfigValues(k) # <<>> PROVE k \in SetIn(new)
        <4>1. k \notin to_migrate => k \in SetIn(file)
          BY <2>3, <3>1, ToMigrate, FoundIn
        <4> QED BY <2>4, <4>1
      <3> QED BY <2>2, <2>5, <3>1 DEF AllMigrated, AllSet
    <2>11. \A k \in Key : CountOf(new, k) <= CountOf(base, k)
      BY <1>2, <2>2, <2>4 DEF IInv, MigratedFirst
    <2>12. MigratedFirst'
      BY <2>2, <2>11 DEF MigratedFirst
    <2>13. DocumentedAtMostOnce'
      BY <2>2, <2>11, AttributeTypes DEF DocumentedAtMostOnce
    <2> QED BY <2>6, <2>8, <2>9, <2>10, <2>12, <2>13 DEF IInv
  <1> QED BY <1>1, <1>2

\* What was in memory is in the file.
LEMMA WrittenKeeps ==
    ASSUME IInv, Written
    PROVE  IInv'
  <1>1. /\ phase = "writing" /\ phase' = "migrated"
        /\ file' = settings_lines /\ settings_lines' = <<>>
        /\ UNCHANGED <<ended, writable, home, existing_keys, added, bounds, history>>
    BY DEF Written
  <1>2. /\ home' = home /\ writable' = writable /\ added' = added /\ ended' = ended
        /\ base' = base /\ whole' = whole /\ damaged' = damaged /\ settled' = settled
        /\ Lines' = Lines /\ Lines = settings_lines
    BY <1>1 DEF history, Lines
  <1>3. writable /\ ~settled /\ ended
    BY <1>1 DEF IInv, WritesWhatIsMissing
  <1>4. TypeOK'
    <2>1. {file', base', settings_lines'} \subseteq Seq(Line)
      BY <1>1, <1>2 DEF IInv, TypeOK
    <2> QED BY <1>1, <2>1 DEF IInv, TypeOK, bounds, history
  <1>5. UsersKept' /\ DocumentedAtMostOnce' /\ (AllSet(Lines) => AllSet(Lines)')
    BY <1>2, LinesSame DEF IInv
  <1>6. /\ WritesWhatIsMissing' /\ LeftUnended'
        /\ NoneAddedYet' /\ DocumentedSoFar' /\ AllDocumented'
    BY <1>1, <1>2, <1>3
       DEF IInv, WritesWhatIsMissing, LeftUnended, NoneAddedYet, DocumentedSoFar, AllDocumented
  <1>7. AllSet(Lines)'
    BY <1>1, <1>3, <1>5 DEF IInv, AllMigrated
  <1>8. AllMigrated'
    BY <1>7 DEF AllMigrated
  <1>9. MigratedFirst'
    <2>1. AllSet(file)'
      BY <1>1, <1>2, <1>7
    <2>2. to_migrate' = {}
      BY <2>1, NothingToMigrate
    <2> QED BY <1>1, <2>2 DEF MigratedFirst
  <1> QED BY <1>4, <1>5, <1>6, <1>8, <1>9 DEF IInv

\* The keys the file mentions are collected.
LEMMA OpenStoreKeeps ==
    ASSUME IInv, OpenStore
    PROVE  IInv'
  <1>1. /\ phase = "migrated" /\ phase' = "documenting"
        /\ existing_keys' = ExistingKeys(file)
        /\ UNCHANGED <<disk, writable, home, settings_lines, added, bounds, history>>
    BY DEF OpenStore
  <1>2. /\ home' = home /\ writable' = writable /\ added' = added /\ added = 0
        /\ file' = file /\ ended' = ended
        /\ base' = base /\ whole' = whole /\ damaged' = damaged /\ settled' = settled
        /\ Lines' = Lines
    BY <1>1 DEF IInv, NoneAddedYet, disk, history, Lines
  <1>3. \A k \in Key : k \in existing_keys' <=> Mentions(file, k)
    BY <1>1 DEF ExistingKeys, Mentions
  <1>4. TypeOK'
    <2>1. file \in Seq(Line)
      BY Types DEF IInv
    <2>2. \A l \in ToSet(file) : l \in Line
      BY <2>1 DEF ToSet
    <2>3. existing_keys' \subseteq Key
      BY <1>1, <2>2, LineKinds DEF ExistingKeys, KeysOf
    <2> QED BY <1>1, <2>3 DEF IInv, TypeOK, disk, bounds, history
  <1>5. UsersKept' /\ DocumentedAtMostOnce' /\ (AllSet(Lines) => AllSet(Lines)')
    BY <1>2, LinesSame DEF IInv
  <1>6. WritesWhatIsMissing' /\ LeftUnended' /\ NoneAddedYet'
    BY <1>1, <1>2 DEF IInv, WritesWhatIsMissing, LeftUnended, NoneAddedYet
  <1>7. AllMigrated'
    BY <1>1, <1>2, <1>5 DEF IInv, AllMigrated
  <1>8. DocumentedSoFar'
    <2>1. \A i \in 1..added : FALSE
      BY <1>2
    <2> QED BY <1>2, <1>3, <2>1 DEF DocumentedSoFar
  <1>9. AllDocumented'
    BY <1>2, <1>3, AttributeTypes DEF IInv, AllDocumented
  <1>10. MigratedFirst'
    <2>1. to_migrate' = to_migrate
      BY <1>2, NothingToMigrate
    <2> QED BY <1>1, <1>2, <2>1 DEF IInv, MigratedFirst
  <1> QED BY <1>4, <1>5, <1>6, <1>7, <1>8, <1>9, <1>10 DEF IInv

\* An attribute the file mentions, or a file that cannot be written.
LEMMA AddKnownKeeps ==
    ASSUME IInv, AddAttribute,
           Attributes[added + 1].key \in existing_keys \/ ~writable
    PROVE  IInv' /\ UNCHANGED disk
  <1> DEFINE key == Attributes[added + 1].key
  <1>1. /\ phase = "documenting" /\ phase' = phase /\ added < Len(Attributes)
        /\ added' = added + 1
        /\ UNCHANGED <<disk, writable, home, settings_lines, existing_keys, bounds, history>>
    BY DEF AddAttribute, Document
  <1>2. /\ home' = home /\ writable' = writable
        /\ file' = file /\ ended' = ended /\ existing_keys' = existing_keys
        /\ base' = base /\ whole' = whole /\ damaged' = damaged /\ settled' = settled
        /\ Lines' = Lines
    BY <1>1 DEF disk, history, Lines
  <1>3. added \in Nat /\ Len(Attributes) \in Nat
    BY Types, AttributeTypes DEF IInv
  <1>4. TypeOK'
    <2>1. added' \in 0..Len(Attributes)
      BY <1>1, <1>3
    <2> QED BY <1>1, <2>1 DEF IInv, TypeOK, disk, bounds, history
  <1>5. UsersKept' /\ DocumentedAtMostOnce' /\ (AllSet(Lines) => AllSet(Lines)')
    BY <1>2, LinesSame DEF IInv
  <1>6. WritesWhatIsMissing' /\ LeftUnended' /\ NoneAddedYet' /\ AllDocumented'
    BY <1>1, <1>2
       DEF IInv, WritesWhatIsMissing, LeftUnended, NoneAddedYet, AllDocumented
  <1>7. AllMigrated'
    BY <1>1, <1>2, <1>5 DEF IInv, AllMigrated
  <1>8. DocumentedSoFar'
    <2>1. \A i : i \in 1..added' <=> i \in 1..added \/ i = added + 1
      BY <1>1, <1>3
    <2>2. \A k \in Key :
              Mentions(file, k) <=>
                  \/ k \in existing_keys
                  \/ writable /\ \E i \in 1..added : Attributes[i].key = k
      BY <1>1 DEF IInv, DocumentedSoFar
    <2>3. \A k \in Key :
              Mentions(file, k) <=>
                  \/ k \in existing_keys
                  \/ writable /\ \E i \in 1..added' : Attributes[i].key = k
      BY <2>1, <2>2
    <2> QED BY <1>1, <1>2, <2>3 DEF DocumentedSoFar
  <1>9. MigratedFirst'
    <2>1. to_migrate' = to_migrate
      BY <1>2, NothingToMigrate
    <2> QED BY <1>1, <1>2, <2>1 DEF IInv, MigratedFirst
  <1> QED BY <1>1, <1>4, <1>5, <1>6, <1>7, <1>8, <1>9 DEF IInv

\* An attribute the file does not mention: it does afterwards.
LEMMA AddNewKeeps ==
    ASSUME IInv, AddAttribute,
           ~(Attributes[added + 1].key \in existing_keys \/ ~writable)
    PROVE  IInv' /\ ~settled
  <1> DEFINE at  == added + 1
             key == Attributes[at].key
             m   == Attributes[at].lines
             new == Continued \o [i \in 1..m |-> Placeholder(key)]
  <1>1. /\ phase = "documenting" /\ phase' = phase /\ added < Len(Attributes)
        /\ added' = at /\ file' = new /\ ended' = TRUE
        /\ UNCHANGED <<writable, home, settings_lines, existing_keys, bounds, history>>
    BY DEF AddAttribute, Document
  <1>2. /\ home' = home /\ writable' = writable /\ writable /\ existing_keys' = existing_keys
        /\ base' = base /\ whole' = whole /\ damaged' = damaged /\ settled' = settled
        /\ Lines = file /\ Lines' = new
    BY <1>1 DEF history, Lines
  <1>3. added \in Nat /\ file \in Seq(Line) /\ base \in Seq(Line)
    BY Types DEF IInv
  <1>4. at \in 1..Len(Attributes) /\ key \in Key /\ m \in Nat \ {0}
    <2>1. at \in 1..Len(Attributes)
      BY <1>1, <1>3, AttributeTypes
    <2> HIDE DEF at
    <2> QED BY <2>1, AttributeTypes
  <1>5. /\ Continued \in Seq(Line)
        /\ \A k \in Key : /\ Holding(Continued, k) = Holding(file, k)
                          /\ Setting(Continued, k) = <<>> <=> Setting(file, k) = <<>>
    BY <1>3, ContinuedKeeps
  <1> HIDE DEF key, m
  <1>6. /\ new \in Seq(Line)
        /\ \A k \in Key : Setting(new, k) = Setting(Continued, k)
        /\ \A k \in Key \ {key} : Holding(new, k) = Holding(Continued, k)
        /\ Holding(new, key) # <<>>
        /\ Holding(Continued, key) = <<>> => CountOf(new, key) = m
    <2>1. new = WithPlaces(Continued, key, m)
      BY DEF WithPlaces
    <2> HIDE DEF new, at
    <2>2. Continued \in Seq(Line) /\ key \in Key /\ m \in Nat \ {0}
      BY <1>4, <1>5
    <2>3. /\ new \in Seq(Line)
          /\ \A k \in Key : Setting(new, k) = Setting(Continued, k)
      BY <2>1, <2>2, DocumentsKey
    <2>4. \A k \in Key \ {key} : Holding(new, k) = Holding(Continued, k)
      BY <2>1, <2>2, DocumentsKey
    <2>5. Holding(new, key) # <<>>
      BY <2>1, <2>2, DocumentsKey
    <2>6. Holding(Continued, key) = <<>> => CountOf(new, key) = m
      BY <2>1, <2>2, DocumentsKey
    <2> QED BY <2>3, <2>4, <2>5, <2>6
  <1> HIDE DEF new, at
  <1>7. ~settled
    BY <1>1, <1>2, <1>4, AttributeTypes DEF IInv, AllDocumented, key, at
  <1>8. TypeOK'
    <2>1. added' \in 0..Len(Attributes)
      BY <1>1, <1>4
    <2>2. file' \in Seq(Line)
      BY <1>1, <1>6
    <2> QED BY <1>1, <2>1, <2>2 DEF IInv, TypeOK, bounds, history
  <1>9. /\ WritesWhatIsMissing' /\ LeftUnended' /\ NoneAddedYet' /\ AllDocumented'
    BY <1>1, <1>2, <1>7
       DEF IInv, WritesWhatIsMissing, LeftUnended, NoneAddedYet, AllDocumented
  <1>10. \A k \in Key : ConfigValues(k)' = ConfigValues(k) /\ Intended(k)' = Intended(k)
    BY <1>2, SameConfig, SameIntended
  <1>11. ASSUME NEW k \in Key
         PROVE  /\ k \in SetIn(new) <=> k \in SetIn(file)
                /\ ValuesIn(new, k) = ValuesIn(Continued, k)
                /\ Mentions(new, k) <=> k = key \/ Mentions(file, k)
    <2>1. ValuesIn(new, k) = ValuesIn(Continued, k)
      BY <1>6, SameLines
    <2>2. Setting(new, k) = <<>> <=> Setting(file, k) = <<>>
      BY <1>5, <1>6
    <2>3. Holding(new, k) = <<>> <=> k # key /\ Holding(file, k) = <<>>
      BY <1>5, <1>6
    <2>4. /\ k \in SetIn(new) <=> Setting(new, k) # <<>>
          /\ Mentions(new, k) <=> Setting(new, k) # <<>> \/ Holding(new, k) # <<>>
      BY <1>6, FoundIn
    <2>5. /\ k \in SetIn(file) <=> Setting(file, k) # <<>>
          /\ Mentions(file, k) <=> Setting(file, k) # <<>> \/ Holding(file, k) # <<>>
      BY <1>3, FoundIn
    <2> QED BY <2>1, <2>2, <2>3, <2>4, <2>5
  <1>12. UsersKept'
    <2>1. ASSUME ~damaged, NEW k \in Key
          PROVE  \/ ValuesIn(Continued, k) \in Intended(k)
                 \/ k \notin SetIn(base) /\ ValuesIn(Continued, k) = ConfigValues(k)
      <3>1. CASE ended \/ file = <<>> \/ Last(file).kind # "active"
        <4>1. Continued = file
          BY <3>1 DEF Continued
        <4> QED BY <1>2, <2>1, <4>1 DEF IInv, UsersKept
      <3>2. CASE ~(ended \/ file = <<>> \/ Last(file).kind # "active")
        <4>1. file = base /\ ~whole
          BY <2>1, <3>2 DEF IInv, LeftUnended
        <4>2. Continued = [base EXCEPT ![Len(base)].value = Glued]
          BY <3>2, <4>1 DEF Continued
        <4>3. ValuesIn(Continued, k) \in Intended(k)
          BY <3>2, <4>1, <4>2 DEF Intended
        <4> QED BY <4>3
      <3> QED BY <3>1, <3>2
    <2> QED BY <1>2, <1>10, <1>11, <2>1 DEF UsersKept
  <1>13. AllSet(file)'
    <2>1. AllSet(file)
      BY <1>1, <1>2 DEF IInv, AllMigrated
    <2> QED BY <1>1, <1>10, <1>11, <2>1 DEF AllSet
  <1>14. AllMigrated'
    BY <1>1, <1>2, <1>13 DEF AllMigrated
  <1>15. MigratedFirst'
    <2>1. to_migrate' = {}
      BY <1>13, NothingToMigrate
    <2> QED BY <1>1, <2>1 DEF MigratedFirst
  <1>16. \A k \in Key : Mentions(file, k) <=>
             k \in existing_keys \/ \E i \in 1..added : Attributes[i].key = k
    BY <1>1, <1>2 DEF IInv, DocumentedSoFar
  <1>17. \A i : i \in 1..at <=> i \in 1..added \/ i = at
    BY <1>3 DEF at
  <1>18. ~Mentions(file, key)
    <2>1. \A i \in 1..added : i \in 1..Len(Attributes) /\ i # at
      BY <1>3, <1>4 DEF at
    <2>2. \A i \in 1..added : Attributes[i].key # key
      BY <1>4, <2>1, AttributeTypes DEF key
    <2>3. key \notin existing_keys
      BY DEF key, at
    <2> QED BY <1>4, <1>16, <2>2, <2>3
  <1>19. DocumentedSoFar'
    <2>1. \A k \in Key : Mentions(new, k) <=>
              k \in existing_keys \/ \E i \in 1..at : Attributes[i].key = k
      BY <1>4, <1>16, <1>17, <1>11 DEF key
    <2> QED BY <1>1, <1>2, <2>1 DEF DocumentedSoFar
  <1>20. DocumentedAtMostOnce'
    <2>1. ASSUME NEW i \in 1..Len(Attributes)
          PROVE  \/ CountOf(new, Attributes[i].key) <= CountOf(base, Attributes[i].key)
                 \/ CountOf(new, Attributes[i].key) = Attributes[i].lines
      <3>1. CASE i = at
        <4>1. Holding(file, key) = <<>>
          BY <1>3, <1>4, <1>18, FoundIn
        <4>2. CountOf(new, key) = m
          BY <1>4, <1>5, <1>6, <4>1
        <4> QED BY <3>1, <4>2 DEF key, m
      <3>2. CASE i # at
        <4>1. Attributes[i].key \in Key \ {key}
          BY <1>4, <3>2, AttributeTypes DEF key
        <4>2. CountOf(new, Attributes[i].key) = CountOf(file, Attributes[i].key)
          BY <1>5, <1>6, <4>1, SameLines
        <4> QED BY <1>2, <4>2, AttributeTypes DEF IInv, DocumentedAtMostOnce
      <3> QED BY <3>1, <3>2
    <2> QED BY <1>2, <2>1, AttributeTypes DEF DocumentedAtMostOnce
  <1> QED BY <1>7, <1>8, <1>9, <1>12, <1>14, <1>15, <1>19, <1>20 DEF IInv

LEMMA AddAttributeKeeps ==
    ASSUME IInv, AddAttribute
    PROVE  IInv'
  BY AddKnownKeeps, AddNewKeeps

\* The start is complete: nothing is left to migrate or to document.
LEMMA StartedKeeps ==
    ASSUME IInv, Started
    PROVE  IInv'
  <1>1. /\ phase = "documenting" /\ phase' = "running" /\ added = Len(Attributes)
        /\ settled' = TRUE /\ existing_keys' = {} /\ added' = 0
        /\ UNCHANGED <<disk, writable, home, settings_lines, bounds, base, whole, damaged>>
    BY DEF Started
  <1>2. /\ home' = home /\ writable' = writable
        /\ file' = file /\ ended' = ended
        /\ base' = base /\ whole' = whole /\ damaged' = damaged
        /\ Lines' = Lines
    BY <1>1 DEF disk, Lines
  <1>3. TypeOK'
    <2>1. added' \in 0..Len(Attributes)
      BY <1>1, AttributeTypes
    <2> QED BY <1>1, <2>1 DEF IInv, TypeOK, disk, bounds
  <1>4. UsersKept' /\ DocumentedAtMostOnce' /\ (AllSet(Lines) => AllSet(Lines)')
    BY <1>2, LinesSame DEF IInv
  <1>5. WritesWhatIsMissing' /\ LeftUnended' /\ NoneAddedYet' /\ DocumentedSoFar'
    BY <1>1, <1>2
       DEF IInv, WritesWhatIsMissing, LeftUnended, NoneAddedYet, DocumentedSoFar
  <1>6. AllMigrated'
    BY <1>1, <1>2, <1>4 DEF IInv, AllMigrated
  <1>7. AllDocumented'
    <2>1. ASSUME writable, NEW i \in 1..Len(Attributes) PROVE Mentions(file, Attributes[i].key)
      BY <1>1, <2>1, AttributeTypes DEF IInv, DocumentedSoFar
    <2> QED BY <1>1, <1>2, <2>1, AttributeTypes DEF AllDocumented
  <1>8. MigratedFirst'
    <2>1. to_migrate' = to_migrate
      BY <1>2, NothingToMigrate
    <2> QED BY <1>1, <1>2, <2>1 DEF IInv, MigratedFirst
  <1> QED BY <1>3, <1>4, <1>5, <1>6, <1>7, <1>8 DEF IInv

\* What is left of the file is some of what was in memory.
LEMMA CrashWritingKeeps ==
    ASSUME IInv, CrashWriting
    PROVE  IInv'
  <1>1. /\ phase = "writing" /\ phase' = "off"
        /\ settings_lines' = <<>> /\ existing_keys' = {} /\ added' = 0
        /\ crashes < MaxCrashes /\ crashes' = crashes + 1 /\ damaged' = TRUE
        /\ UNCHANGED <<writable, home, edits, base, whole, settled>>
    BY DEF CrashWriting, Stop
  <1>2. Lines = settings_lines /\ Lines' = file' /\ base \in Seq(Line) /\ Lines \in Seq(Line)
    BY <1>1, Types DEF IInv, Lines
  <1>3. writable /\ ~settled
    BY <1>1 DEF IInv, WritesWhatIsMissing
  <1>4. /\ file' \in Seq(Line) /\ ended' \in BOOLEAN
        /\ \A k \in Key : CountOf(file', k) <= CountOf(Lines, k)
    <2>1. PICK n \in 0..Len(settings_lines) :
              \/ file' = SubSeq(settings_lines, 1, n) /\ ended' = TRUE
              \/ /\ n < Len(settings_lines)
                 /\ \E l \in Partial(settings_lines[n + 1]) :
                        file' = Append(SubSeq(settings_lines, 1, n), l)
                 /\ ended' = FALSE
      BY DEF CrashWriting
    <2>2. CASE file' = SubSeq(settings_lines, 1, n) /\ ended' = TRUE
      BY <1>2, <2>2, CutShort
    <2>3. CASE /\ n < Len(settings_lines)
               /\ \E l \in Partial(settings_lines[n + 1]) :
                      file' = Append(SubSeq(settings_lines, 1, n), l)
               /\ ended' = FALSE
      BY <1>2, <2>3, CutWithin
    <2> QED BY <2>1, <2>2, <2>3
  <1>5. TypeOK'
    <2>1. crashes' \in 0..MaxCrashes
      BY <1>1, BoundAssumption DEF IInv, TypeOK
    <2>2. added' \in 0..Len(Attributes)
      BY <1>1, AttributeTypes
    <2> QED BY <1>1, <1>4, <2>1, <2>2 DEF IInv, TypeOK
  <1>6. /\ WritesWhatIsMissing' /\ LeftUnended' /\ UsersKept' /\ AllMigrated'
        /\ NoneAddedYet' /\ DocumentedSoFar' /\ AllDocumented'
    BY <1>1, <1>3 DEF WritesWhatIsMissing, LeftUnended, UsersKept, AllMigrated,
                      NoneAddedYet, DocumentedSoFar, AllDocumented
  <1>7. \A k \in Key : CountOf(file', k) <= CountOf(base, k)
    <2> TAKE k \in Key
    <2>1. CountOf(Lines, k) <= CountOf(base, k)
      BY <1>1 DEF IInv, MigratedFirst
    <2>2. CountOf(file', k) \in Nat /\ CountOf(Lines, k) \in Nat /\ CountOf(base, k) \in Nat
      BY <1>2, <1>4, FoundIn
    <2> QED BY <1>4, <2>1, <2>2
  <1>8. MigratedFirst'
    BY <1>1, <1>2, <1>7 DEF MigratedFirst
  <1>9. DocumentedAtMostOnce'
    BY <1>1, <1>2, <1>7, AttributeTypes DEF DocumentedAtMostOnce
  <1> QED BY <1>5, <1>6, <1>8, <1>9 DEF IInv

LEMMA ExitKeeps ==
    ASSUME IInv, Exit
    PROVE  IInv'
  <1>1. /\ phase \in {"migrated", "documenting", "running"} /\ phase' = "off"
        /\ settings_lines' = <<>> /\ existing_keys' = {} /\ added' = 0
        /\ UNCHANGED <<disk, writable, home, bounds, history>>
    BY DEF Exit, Stop
  <1>2. /\ home' = home /\ writable' = writable
        /\ file' = file /\ ended' = ended
        /\ base' = base /\ whole' = whole /\ damaged' = damaged /\ settled' = settled
        /\ Lines' = Lines
    BY <1>1 DEF disk, history, Lines
  <1>3. TypeOK'
    <2>1. added' \in 0..Len(Attributes)
      BY <1>1, AttributeTypes
    <2>2. {file', base', settings_lines'} \subseteq Seq(Line)
      BY <1>1, <1>2 DEF IInv, TypeOK
    <2> QED BY <1>1, <2>1, <2>2 DEF IInv, TypeOK, disk, bounds, history
  <1>4. UsersKept' /\ DocumentedAtMostOnce' /\ (AllSet(Lines) => AllSet(Lines)')
    BY <1>2, LinesSame DEF IInv
  <1>5. /\ WritesWhatIsMissing' /\ LeftUnended'
        /\ NoneAddedYet' /\ DocumentedSoFar' /\ AllDocumented'
    BY <1>1, <1>2
       DEF IInv, WritesWhatIsMissing, LeftUnended, NoneAddedYet, DocumentedSoFar, AllDocumented
  <1>6. AllMigrated'
    BY <1>1, <1>2, <1>4 DEF IInv, AllMigrated
  <1>7. MigratedFirst'
    <2>1. to_migrate' = to_migrate
      BY <1>2, NothingToMigrate
    <2> QED BY <1>1, <1>2, <2>1 DEF IInv, MigratedFirst
  <1> QED BY <1>3, <1>4, <1>5, <1>6, <1>7 DEF IInv

\* What the user leaves is what counts from there.
LEMMA UserChangesKeeps ==
    ASSUME IInv, UserChanges
    PROVE  IInv' /\ ~settled'
  <1>1. /\ phase \in {"off", "running"} /\ edits < MaxEdits /\ (Edit \/ PutConfig)
        /\ edits' = edits + 1 /\ base' = file' /\ whole' = ended'
        /\ damaged' = FALSE /\ settled' = FALSE
        /\ UNCHANGED <<writable, phase, memory, crashes>>
    BY DEF UserChanges
  <1>2. file \in Seq(Line) /\ Lines' = file'
    BY <1>1, Types DEF IInv, Lines
  <1>3. file' \in Seq(Line) /\ ended' \in BOOLEAN /\ home' \in BOOLEAN
    <2>1. CASE Edit
      <3>1. file' \in Seq(Line)
        BY <1>2, <2>1, EditWritesLines
      <3>2. ended' \in BOOLEAN /\ home' = home
        BY <2>1 DEF Edit
      <3> QED BY <3>1, <3>2 DEF IInv, TypeOK
    <2>2. CASE PutConfig
      BY <1>2, <2>2 DEF PutConfig, disk, IInv, TypeOK
    <2> QED BY <1>1, <2>1, <2>2
  <1>4. TypeOK'
    <2>1. edits' \in 0..MaxEdits
      BY <1>1, BoundAssumption DEF IInv, TypeOK
    <2> QED BY <1>1, <1>3, <2>1 DEF IInv, TypeOK, memory
  <1>5. /\ WritesWhatIsMissing' /\ LeftUnended' /\ AllMigrated'
        /\ NoneAddedYet' /\ DocumentedSoFar' /\ AllDocumented'
    BY <1>1 DEF IInv, WritesWhatIsMissing, LeftUnended, AllMigrated, NoneAddedYet,
                DocumentedSoFar, AllDocumented, memory
  <1>6. UsersKept'
    BY <1>1, <1>2 DEF UsersKept, Intended
  <1>7. \A k \in Key : CountOf(Lines', k) <= CountOf(base', k)
    <2>1. \A k \in Key : CountOf(file', k) \in Nat
      BY <1>3, FoundIn
    <2> QED BY <1>1, <1>2, <2>1
  <1>8. MigratedFirst'
    BY <1>7 DEF MigratedFirst
  <1>9. DocumentedAtMostOnce'
    BY <1>7, AttributeTypes DEF DocumentedAtMostOnce
  <1> QED BY <1>1, <1>4, <1>5, <1>6, <1>8, <1>9 DEF IInv

LEMMA NextKeeps ==
    ASSUME IInv, [Next]_vars
    PROVE  IInv'
  <1>1. CASE Migrate
    BY <1>1, MigrateKeeps
  <1>2. CASE Written
    BY <1>2, WrittenKeeps
  <1>3. CASE OpenStore
    BY <1>3, OpenStoreKeeps
  <1>4. CASE AddAttribute
    BY <1>4, AddAttributeKeeps
  <1>5. CASE Started
    BY <1>5, StartedKeeps
  <1>6. CASE CrashWriting
    BY <1>6, CrashWritingKeeps
  <1>7. CASE Exit
    BY <1>7, ExitKeeps
  <1>8. CASE UserChanges
    BY <1>8, UserChangesKeeps
  <1>9. CASE UNCHANGED vars
    <2>1. /\ file' = file /\ ended' = ended /\ writable' = writable /\ home' = home
          /\ phase' = phase /\ settings_lines' = settings_lines
          /\ existing_keys' = existing_keys /\ added' = added
          /\ edits' = edits /\ crashes' = crashes
          /\ base' = base /\ whole' = whole /\ damaged' = damaged /\ settled' = settled
      BY <1>9 DEF vars, disk, memory, bounds, history
    <2>2. Lines' = Lines
      BY <2>1 DEF Lines
    <2>3. UsersKept' /\ DocumentedAtMostOnce' /\ (AllSet(Lines) => AllSet(Lines)')
      BY <2>1, <2>2, LinesSame DEF IInv
    <2>4. to_migrate' = to_migrate
      BY <2>1, NothingToMigrate
    <2>5. TypeOK'
      BY <2>1 DEF IInv, TypeOK
    <2>6. /\ WritesWhatIsMissing' /\ LeftUnended'
          /\ NoneAddedYet' /\ DocumentedSoFar' /\ AllDocumented'
      BY <2>1
         DEF IInv, WritesWhatIsMissing, LeftUnended, NoneAddedYet, DocumentedSoFar, AllDocumented
    <2>7. AllMigrated'
      BY <2>1, <2>3 DEF IInv, AllMigrated
    <2>8. MigratedFirst'
      BY <2>1, <2>2, <2>4 DEF IInv, MigratedFirst
    <2> QED BY <2>3, <2>5, <2>6, <2>7, <2>8 DEF IInv
  <1> QED BY <1>1, <1>2, <1>3, <1>4, <1>5, <1>6, <1>7, <1>8, <1>9 DEF Next
-----------------------------------------------------------------------------
\* The invariant holds of every behaviour.
THEOREM Invariance == Spec => []IInv
  <1>1. Init => IInv
    BY InitKeeps
  <1>2. IInv /\ [Next]_vars => IInv'
    BY NextKeeps
  <1> QED BY <1>1, <1>2, PTL DEF Spec

\* What the file, the store and the migration hold is of the types the code
\* gives it, and the attributes added are never more than there are.
THEOREM TypeCorrect == Spec => []TypeOK
  <1>1. IInv => TypeOK
    BY DEF IInv
  <1> QED BY <1>1, Invariance, PTL

LEMMA FileKept == IInv => KeepsTheUsers
  <1> SUFFICES ASSUME IInv, ~damaged, phase # "writing", NEW k \in Key
               PROVE  \/ ValuesIn(file, k) \in Intended(k)
                      \/ k \notin SetIn(base) /\ ValuesIn(file, k) = ConfigValues(k)
    BY DEF KeepsTheUsers
  <1>1. Lines = file
    BY DEF Lines
  <1> QED BY <1>1 DEF IInv, UsersKept

\* A start, complete or not, leaves every key the values that the user's file
\* gives it, and gives one it leaves out those of the .config file or none
\* (migrate_config_to_settings, DocumentingStore), unless a crash has cut a
\* rewrite short.
THEOREM UsersFileKept == Spec => []KeepsTheUsers
  <1> QED BY FileKept, Invariance, PTL

\* After a start each option of the .config file is set, even when an earlier
\* rewrite was cut short (miriway.cpp, lines 295-320).
LEMMA FileComplete == IInv => Recovers
  <1> SUFFICES ASSUME IInv, settled, writable
               PROVE  AllSet(file)
    BY DEF Recovers, AllSet
  <1>1. Lines = file
    BY DEF IInv, WritesWhatIsMissing, Lines
  <1> QED BY <1>1 DEF IInv, AllMigrated

\* However many starts were cut short, a complete one leaves every setting of
\* the .config file in the settings file (migrate_config_to_settings).
THEOREM Restored == Spec => []Recovers
  <1> QED BY FileComplete, Invariance, PTL

\* A setting the user's file leaves out has none of the .config file's values,
\* or all: and after a start it has some.
LEMMA FileMigrated == IInv => Migrates
  <1> SUFFICES ASSUME IInv, settled, ~damaged, writable, NEW k \in Key \ SetIn(base)
               PROVE  ValuesIn(file, k) = ConfigValues(k)
    BY DEF Migrates
  <1>1. file \in Seq(Line) /\ base \in Seq(Line)
    BY Types DEF IInv
  <1>2. phase # "writing"
    BY DEF IInv, WritesWhatIsMissing
  <1>3. \/ ValuesIn(file, k) \in Intended(k)
        \/ ValuesIn(file, k) = ConfigValues(k)
    BY <1>2, FileKept DEF KeepsTheUsers
  <1>4. CASE ValuesIn(file, k) \in Intended(k)
    <2>1. Intended(k) = {<<>>}
      BY <1>1, IntendedNothing
    <2>2. ValuesIn(file, k) = <<>>
      BY <1>4, <2>1
    <2>3. k \notin SetIn(file)
      BY <1>1, <2>2, FoundIn
    <2>4. ConfigValues(k) = <<>>
      BY <2>3, FileComplete DEF Recovers
    <2> QED BY <2>2, <2>4
  <1> QED BY <1>3, <1>4

\* "Migrate options from .config to .settings if not already present": after a
\* start a setting that the user's file leaves out has exactly the values of
\* the .config file, each of them and in their order (lines 278-355).
THEOREM AllOrNothing == Spec => []Migrates
  <1> QED BY FileMigrated, Invariance, PTL

\* "Also track commented out keys to avoid duplicating them": after a start
\* every attribute is mentioned, and no start documents one that was mentioned
\* or has been documented before (DocumentingStore).
THEOREM NeverTwice == Spec => []DocumentedOnce
  <1>1. ASSUME IInv, NEW i \in 1..Len(Attributes), NEW k, k = Attributes[i].key
        PROVE  /\ settled /\ writable => Mentions(file, k)
               /\ CountOf(file, k) <= CountOf(base, k) \/ CountOf(file, k) = Attributes[i].lines
    <2>1. settled /\ writable => Mentions(file, k)
      BY <1>1, AttributeTypes DEF IInv, AllDocumented
    <2>2. CASE phase # "writing"
      <3>1. Lines = file
        BY <2>2 DEF Lines
      <3>2. CountOf(file, k) <= CountOf(base, k) \/ CountOf(file, k) = Attributes[i].lines
        BY <1>1, <3>1, AttributeTypes DEF IInv, DocumentedAtMostOnce
      <3> QED BY <2>1, <3>2
    <2>3. CASE phase = "writing"
      <3>1. file = <<>> /\ k \in Key /\ file \in Seq(Line) /\ base \in Seq(Line)
        BY <1>1, <2>3, Types, AttributeTypes DEF IInv, WritesWhatIsMissing
      <3>2. Holding(file, k) = <<>>
        BY <3>1, ThoseFew DEF Holding
      <3>3. CountOf(file, k) = 0 /\ CountOf(base, k) \in Nat
        BY <3>1, <3>2, FoundIn
      <3> QED BY <2>1, <3>3
    <2> QED BY <2>2, <2>3
  <1>2. IInv => DocumentedOnce
    BY <1>1, AttributeTypes DEF DocumentedOnce, Mentions
  <1> QED BY <1>2, Invariance, PTL

\* When a start has been completed there is nothing left for the next one: it
\* never opens the file for writing, until the user has changed something
\* (miriway.cpp, line 323; miriway_documenting_store.cpp, line 58).
THEOREM LeftAlone == Spec => Settled
  <1>1. IInv /\ [Next]_vars => [settled /\ settled' => UNCHANGED disk]_vars
    <2> SUFFICES ASSUME IInv, Next, settled, settled'
                 PROVE  UNCHANGED disk
      OBVIOUS
    <2>1. phase # "writing"
      BY DEF IInv, WritesWhatIsMissing
    <2>2. CASE Migrate
      <3>1. writable => to_migrate = {}
        BY <2>1, FileComplete, NothingToMigrate DEF Recovers, AllSet
      <3> QED BY <2>2, <3>1 DEF Migrate
    <2>3. CASE AddAttribute
      BY <2>3, AddKnownKeeps, AddNewKeeps
    <2>4. CASE Written \/ CrashWriting
      BY <2>1, <2>4 DEF Written, CrashWriting
    <2>5. CASE OpenStore \/ Started \/ Exit
      BY <2>5 DEF OpenStore, Started, Exit
    <2>6. CASE UserChanges
      BY <2>6, UserChangesKeeps
    <2> QED BY <2>2, <2>3, <2>4, <2>5, <2>6 DEF Next
  <1> QED BY <1>1, Invariance, PTL DEF Spec, Settled
=============================================================================
