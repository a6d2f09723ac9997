----------------------------- MODULE LegacyConfig -----------------------------
(***************************************************************************)
(* The conversion of an older configuration file: migrateLegacyConfig of   *)
(* src/core/config/schema.ts, which the shadow migration runs at boot      *)
(* until the file has the current schema.                                  *)
(*                                                                         *)
(* A file is cut down to what the conversion treats differently: its       *)
(* version and wrapper, one boolean that older releases wrote as a string, *)
(* the retired risk fields, the two forms of the detector settings, and    *)
(* the fields the schema does not know, each at one of its Sites.          *)
(***************************************************************************)
EXTENDS Naturals, FiniteSets

CONSTANTS
    Detectors,
    Actions,       \* risk actions; "mute" and "off" are two of them
    Sites,         \* objects of a file that may hold unknown fields
    Keys,          \* names of unknown fields
    SecretKeys, UnsafeKeys,
    Legacy,        \* the files an older release may have left
    Missing, RefusedFile,
    MaxEntries     \* EXTENSION_MAX_ENTRIES

ASSUME LegacyAssumption ==
    /\ {"mute", "off"} \subseteq Actions
    /\ SecretKeys \cup UnsafeKeys \subseteq Keys
    /\ MaxEntries \in Nat
    /\ Missing \notin [Detectors -> Actions]

VARIABLES
    content,   \* config.json
    origin,    \* history: the file the first boot found
    report     \* manifests: retiredFields of all migrations, preservedFields of the last

legacyVars == <<content, origin, report>>

Retirable == {"threshold", "severeAction"}    \* RETIRED_RISK_FIELDS with no successor
Version == {"absent", "older", "current", "newer"}

(* A canonical file as the conversion would read it again. *)
Canonical(actions, extensions) ==
    [wrapped |-> TRUE, version |-> "current", flag |-> "true", retired |-> {}, action |-> Missing,
     detectors |-> Missing, detectorActions |-> actions, unknown |-> {}, extensions |-> extensions]

-----------------------------------------------------------------------------
KeysOf(paths) == {p[2] : p \in paths}

(* validateConfigExtensions *)
ExtensionsAreSafe(paths) ==
    /\ KeysOf(paths) \cap (SecretKeys \cup UnsafeKeys) = {}
    /\ Cardinality(paths) <= MaxEntries

(* captureUnknownFields of the wrapper and captureLegacyConfigExtensions:  *)
(* a file without a wrapper has none to capture from.                      *)
Captured(s) == IF s.wrapped THEN s.unknown ELSE {p \in s.unknown : p[1] # "wrapper"}

RetiredFields(s) ==
    s.retired \cup (IF s.action = Missing THEN {} ELSE {"action"})
              \cup (IF s.detectors = Missing THEN {} ELSE {"detectors"})

(* One switch per detector and one action for all became one action each.  *)
LegacyAction(s) == IF s.action = Missing THEN "mute" ELSE s.action

DetectorDefaults == [d \in Detectors |-> "mute"]

DetectorActions(s) ==
    IF s.detectorActions # Missing THEN s.detectorActions
    ELSE IF s.detectors = Missing THEN DetectorDefaults
    ELSE [d \in Detectors |-> IF s.detectors[d] = TRUE THEN LegacyAction(s) ELSE "off"]

ConvertsDetectors(s) == s.detectors # Missing /\ s.detectorActions = Missing

(* normalizeConfig: the strict schema, with legacy scalars or without. *)
NormalizeFlag(s, allowLegacyScalars) ==
    s.flag \in {"true"} \cup (IF allowLegacyScalars THEN {"'true'", "absent"} ELSE {})

IsCanonicalFile(s) ==
    /\ s.version = "current" /\ s.wrapped
    /\ s.unknown = {} /\ RetiredFields(s) = {}
    /\ s.detectorActions # Missing
    /\ NormalizeFlag(s, FALSE)
    /\ ExtensionsAreSafe(s.extensions)

Convertible(s) ==
    /\ ExtensionsAreSafe(Captured(s))
    /\ ConvertsDetectors(s) => LegacyAction(s) \in Actions
    /\ NormalizeFlag(s, TRUE)

CreateCanonicalConfigFile(s) == Canonical(DetectorActions(s), Captured(s))

(* What the migration reports: retired fields are deleted only by a conversion. *)
IsCurrent(s) == s.wrapped /\ s.version = "current"

ReportedUnconverted(s) == IF IsCurrent(s) THEN {} ELSE s.retired

Reported(s) == IF IsCurrent(s) THEN {} ELSE RetiredFields(s)

MigrateLegacyConfig(s) ==
    CASE s.wrapped /\ s.version = "newer"   -> RefusedFile
      [] s.wrapped /\ s.version = "current" -> IF IsCanonicalFile(s) THEN s ELSE RefusedFile
      [] OTHER -> IF Convertible(s) THEN CreateCanonicalConfigFile(s) ELSE RefusedFile

-----------------------------------------------------------------------------
(* A boot: a refused file stays as it is and stops the boot. *)
MigrateConfig ==
    LET file == MigrateLegacyConfig(content)
    IN  /\ file # RefusedFile
        /\ content' = file
        /\ report' = [retired |-> report.retired \cup Reported(content),
                      preserved |-> IF IsCurrent(content) THEN content.extensions
                                    ELSE Captured(content)]
        /\ UNCHANGED origin

LegacyInit ==
    /\ content \in Legacy /\ origin = content
    /\ report = [retired |-> {}, preserved |-> {}]

LegacyNext == MigrateConfig

LegacySpec == LegacyInit /\ [][LegacyNext]_legacyVars

-----------------------------------------------------------------------------
(* Nothing an older release wrote is silently dropped: once a file has     *)
(* been converted, and after every further boot, each field it had is      *)
(* still in force, kept among the extensions, or listed as retired in the  *)
(* manifest of its migration, which lists no other; a detector that was on *)
(* has the action it had, one that was off is off.                         *)
(* (MigratedConfig: "never silently dropped")                              *)
NothingSilentlyDropped ==
    content # origin =>
        /\ IsCanonicalFile(content)
        /\ content.extensions = {p \in origin.unknown : origin.wrapped \/ p[1] # "wrapper"}
        /\ report.preserved = content.extensions
        /\ report.retired = RetiredFields(origin)
        /\ origin.detectorActions # Missing => content.detectorActions = origin.detectorActions
        /\ ConvertsDetectors(origin) =>
              \A d \in Detectors :
                 content.detectorActions[d] =
                    IF origin.detectors[d] = TRUE THEN LegacyAction(origin) ELSE "off"

-----------------------------------------------------------------------------
(* Strengthening: a file that is no longer the one first found is what the *)
(* conversion made of that one, which later boots read back unchanged.     *)
LegacyInd ==
    IF content = origin THEN report.retired = {}
    ELSE
        /\ Convertible(origin) /\ content = CreateCanonicalConfigFile(origin)
        /\ IsCanonicalFile(content)
        /\ report.preserved = Captured(origin)
        /\ report.retired = RetiredFields(origin)
=============================================================================
