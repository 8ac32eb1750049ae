------------------------------ MODULE Settings ------------------------------
(***************************************************************************)
(* Bu::Settings (src/unstable/settings.cpp) with its two drivers, an INI   *)
(* file (settingsdriverini.cpp) and a TAF file (settingsdrivertaf.cpp).    *)
(* The file is read when the object is made and written when it is         *)
(* destroyed; in between the program may crash.  A key is a path of names, *)
(* and a line, or a TAF node, is what the reader gets from it: names and   *)
(* values hold no '=', no newline, no bracket, and no blanks at their ends.*)
(* core is the driver; abs the file and what the program set.              *)
(***************************************************************************)
EXTENDS Integers, SequencesExt, FiniteSetsExt

CONSTANTS Keys,         \* paths of names
          Values,
          Drivers,      \* of "ini", "taf"
          MaxSets       \* bound on the calls of set

VARIABLES core, abs
vars == <<core, abs>>

Void == [x \in {} |-> <<>>]
Default == "default"
GroupOf(key) == Front(key)
-----------------------------------------------------------------------------
\* SettingsDriverIni

\* Mutant: a group that exists keeps the value it has.
IniSetOnce(hGroup, key, v) ==
  LET g == IF GroupOf(key) \in DOMAIN hGroup THEN hGroup[GroupOf(key)] ELSE Void
  IN  (GroupOf(key) :> (g @@ (Last(key) :> v))) @@ hGroup

IniSet(hGroup, key, v) ==
  LET g == IF GroupOf(key) \in DOMAIN hGroup THEN hGroup[GroupOf(key)] ELSE Void
  IN  (GroupOf(key) :> ((Last(key) :> v) @@ g)) @@ hGroup

IniGet(hGroup, key, v) ==
  IF GroupOf(key) \in DOMAIN hGroup /\ Last(key) \in DOMAIN hGroup[GroupOf(key)] THEN hGroup[GroupOf(key)][Last(key)] ELSE v

\* The lines of ~SettingsDriverIni, blank ones left out, in the hashes' order.
IniLines(hGroup) ==
  FlattenSeq([i \in 1..Cardinality(DOMAIN hGroup) |->
    LET g == SetToSeq(DOMAIN hGroup)[i]
        ids == SetToSeq(DOMAIN hGroup[g])
    IN  <<[group |-> g]>> \o [k \in 1..Len(ids) |-> [id |-> ids[k], value |-> hGroup[g][ids[k]]]]])

\* Mutant: the keys of a group stay for the next one.
IniLineKeeps(s, line) ==
  IF "group" \in DOMAIN line
  THEN [s EXCEPT !.hGroup = IF s.bStart THEN @ ELSE (s.sGroup :> s.hKeys) @@ @, !.sGroup = line.group, !.bStart = FALSE]
  ELSE [s EXCEPT !.hKeys = (line.id :> line.value) @@ @]

\* A line read: a group ends the one before.
IniLine(s, line) ==
  IF "group" \in DOMAIN line
  THEN [s EXCEPT !.hGroup = IF s.bStart THEN @ ELSE (s.sGroup :> s.hKeys) @@ @, !.sGroup = line.group,
                 !.hKeys = IF s.bStart THEN @ ELSE Void, !.bStart = FALSE]
  ELSE [s EXCEPT !.hKeys = (line.id :> line.value) @@ @]

\* The last group is the one that no line ends.
IniRead(lines) ==
  LET s == FoldLeft(IniLine, [hGroup |-> Void, sGroup |-> <<>>, hKeys |-> Void, bStart |-> TRUE], lines)
  IN  (s.sGroup :> s.hKeys) @@ s.hGroup
-----------------------------------------------------------------------------
\* SettingsDriverTaf: the values of each property, in the order they were added.
TafSet(root, key, v) == (key :> Append(IF key \in DOMAIN root THEN root[key] ELSE <<>>, v)) @@ root
TafGet(root, key, v) == IF key \in DOMAIN root THEN Head(root[key]) ELSE v
TafLines(root) == <<[root |-> root], [closed |-> TRUE]>>

\* A file that is cut, or empty, gives an empty group.
TafRead(lines) == IF Len(lines) < 2 THEN Void ELSE lines[1].root
-----------------------------------------------------------------------------
Lines(c) == IF c.driver = "ini" THEN IniLines(c.data) ELSE TafLines(c.data)
Parsed(driver, lines) == IF driver = "ini" THEN IniRead(lines) ELSE TafRead(lines)
get(c, key, v) == IF c.driver = "ini" THEN IniGet(c.data, key, v) ELSE TafGet(c.data, key, v)

\* dir: whether the directory of the file exists; nothing creates it.
Init ==
  \E driver \in Drivers, dir \in BOOLEAN :
    /\ core = [driver |-> driver, state |-> "none", data |-> Void, out |-> <<>>]
    /\ abs = [dir |-> dir, file |-> <<>>, last |-> [k \in Keys |-> Default], kept |-> [k \in Keys |-> {Default}], again |-> {}, sets |-> 0]

\* Settings::Settings: the file is read, and made if it is not there.  What was
\* kept of the values the program had set is known again.
Start ==
  /\ core.state = "none"
  /\ core' = [core EXCEPT !.state = "open", !.data = IF abs.dir THEN Parsed(core.driver, abs.file) ELSE Void]
  /\ abs' = [abs EXCEPT !.last = [k \in Keys |-> get(core', k, Default)]]

set ==
  /\ core.state = "open" /\ abs.sets < MaxSets
  /\ \E k \in Keys, v \in Values :
       /\ core' = [core EXCEPT !.data = IF core.driver = "ini" THEN IniSet(@, k, v) ELSE TafSet(@, k, v)]
       /\ abs' = [abs EXCEPT !.last[k] = v, !.sets = @ + 1, !.again = IF abs.last[k] = Default THEN @ ELSE @ \cup {k}]

\* ~Settings: the file is cut to nothing and written line by line.  The driver's
\* destructor throws when it cannot open the file, which ends the program.
Save ==
  /\ core.state = "open"
  /\ core' = [core EXCEPT !.state = IF abs.dir THEN "saving" ELSE "terminated", !.out = Lines(core)]
  /\ abs' = IF abs.dir THEN [abs EXCEPT !.file = <<>>, !.kept = [k \in Keys |-> {Default, get(core, k, Default)}]] ELSE abs

SaveLine ==
  /\ core.state = "saving" /\ core.out # <<>>
  /\ core' = [core EXCEPT !.out = Tail(@)]
  /\ abs' = [abs EXCEPT !.file = Append(@, Head(core.out))]

Saved ==
  /\ core.state = "saving" /\ core.out = <<>>
  /\ core' = [core EXCEPT !.state = "none", !.data = Void]
  /\ abs' = [abs EXCEPT !.kept = [k \in Keys |-> {get(core, k, Default)}]]

Crash ==
  /\ core.state \in {"open", "saving"}
  /\ core' = [core EXCEPT !.state = "none", !.data = Void, !.out = <<>>]
  /\ UNCHANGED abs

Next == Start \/ set \/ Save \/ SaveLine \/ Saved \/ Crash

Spec == Init /\ [][Next]_vars
-----------------------------------------------------------------------------
\* get gives what was set last, and the default for a key that was never set;
\* with the TAF driver only for keys that were not set again: addProperty adds
\* a second property, and getProperty gives the first.
GetIsLastSet ==
  core.state = "open" =>
    \A k \in Keys : (core.driver = "taf" /\ k \in abs.again) \/ get(core, k, Default) = abs.last[k]

\* What the file gives at any time, so after a crash at any time, is for each
\* key the value of the last save, or nothing when that save was cut short.
FileKeepsTheSaved ==
  abs.dir /\ core.state # "terminated" =>
    \A k \in Keys : get([core EXCEPT !.data = Parsed(core.driver, abs.file)], k, Default) \in abs.kept[k]
=============================================================================
