---------------------------- MODULE Configuration ----------------------------
(***************************************************************************)
(* The configuration manager and its writers: src/core/config/index.ts,    *)
(* the canonical schema of src/core/config/schema.ts, POST /config and     *)
(* POST /groups/:groupId of src/api/index.ts, plugin_set_config of         *)
(* src/index.ts and the group bootstrap of src/modules/groups/index.ts.    *)
(*                                                                         *)
(* A configuration is cut down to the fields that constrain one another or *)
(* have several writers.  A partial update is a function on the fields it  *)
(* names.  The awaits are the regular-expression workers and the two       *)
(* OneBot calls of the bootstrap; everything between them is one step,     *)
(* except that the process may die between writing the temporary file and  *)
(* renaming it.                                                            *)
(***************************************************************************)
EXTENDS Naturals, FiniteSets

CONSTANTS
    Groups, Feeds, Titles, Times,
    Patterns,       \* approval patterns of the groups
    Slow,           \* those the worker probe rejects
    Malformed,      \* those the structural check rejects
    Secrets,        \* AI keys typed by administrators
    EnvKey,         \* QQ_GUARDIAN_AI_API_KEY, or Unset
    Masked,         \* '[redacted]', what GET /config shows of a key
    SelfIds,        \* accounts the bot may be logged in as
    Bodies,         \* bodies of POST /config and plugin_set_config
    GroupBodies,    \* bodies of POST /groups/:groupId
    Requesters,
    Unset, Torn,
    Bad,            \* a value of the wrong type or out of its range
    Attempts,       \* RETRY_ATTEMPTS
    MaxCommits      \* bound of the model

VARIABLES
    memory,      \* ConfigManager.fileCfg; Unset while the process is down
    generation,  \* counts the objects assigned to it
    disk,        \* config.json and its temporary neighbour
    saving,      \* the update whose save() is under way
    request      \* what each handler remembers across its await

configVars == <<memory, generation, disk, saving, request>>

Group == [risk : BOOLEAN, patterns : SUBSET Patterns, name : Titles \cup {""},
          start : Times, end : Times]
Config == [self : SelfIds \cup {"0"}, risk : BOOLEAN, key : Secrets \cup {""},
           mode : {"observe", "enforce"}, feeds : SUBSET Feeds, pins : SUBSET Feeds,
           groups : [Groups -> Group \cup {Unset}]]

(* A group merged with an update, before it is checked. *)
MergedGroup ==
    [risk : BOOLEAN \cup {Bad}, patterns : SUBSET Patterns, name : Titles \cup {"", Bad},
     start : Times \cup {Bad}, end : Times \cup {Bad}]

(* What a body may hold: some of the fields, each of its type or, where     *)
(* the value replaces the old one, Bad. *)
IsPartialGroup(body, ill) ==
    /\ DOMAIN body \subseteq {"risk", "patterns", "name", "start", "end"}
    /\ "risk" \in DOMAIN body => body.risk \in BOOLEAN \cup ill
    /\ "patterns" \in DOMAIN body => body.patterns \in SUBSET Patterns
    /\ "name" \in DOMAIN body => body.name \in Titles \cup {""} \cup ill
    /\ "start" \in DOMAIN body => body.start \in Times \cup ill
    /\ "end" \in DOMAIN body => body.end \in Times \cup ill

IsUpdate(update) ==
    /\ DOMAIN update \subseteq {"self", "risk", "key", "mode", "feeds", "pins", "groups"}
    /\ "self" \in DOMAIN update => update.self \in SelfIds \cup {"0", Bad}
    /\ "risk" \in DOMAIN update => update.risk \in BOOLEAN \cup {Bad}
    /\ "key" \in DOMAIN update => update.key \in Secrets \cup {"", Bad}
    /\ "mode" \in DOMAIN update => update.mode \in {"observe", "enforce", Bad}
    /\ "feeds" \in DOMAIN update => update.feeds \in (SUBSET Feeds) \cup {Bad}
    /\ "pins" \in DOMAIN update => update.pins \in SUBSET Feeds
    /\ "groups" \in DOMAIN update =>
          /\ DOMAIN update.groups \subseteq Groups
          /\ \A g \in DOMAIN update.groups : IsPartialGroup(update.groups[g], {Bad})

(* POST /config takes the mask for no key at all. *)
Stripped(body) ==
    IF "key" \in DOMAIN body /\ body.key = Masked
    THEN [f \in DOMAIN body \ {"key"} |-> body[f]] ELSE body

ASSUME ConfigurationAssumption ==
    /\ Slow \cup Malformed \subseteq Patterns
    /\ {EnvKey, Masked, Bad} \cap Secrets = {}
    /\ {"23:00", "07:00"} \subseteq Times
    /\ Attempts \in Nat \ {0} /\ MaxCommits \in Nat
    /\ Unset \notin Config \cup MergedGroup /\ Torn \notin Config
    /\ Unset # Torn /\ Unset \notin Requesters
    /\ \A body \in Bodies : IsUpdate(Stripped(body))
    /\ \A body \in GroupBodies : IsPartialGroup(body, {})

-----------------------------------------------------------------------------
(* The schema. *)
BuildDefaults ==
    [self |-> "0", risk |-> TRUE, key |-> "", mode |-> "observe", feeds |-> {}, pins |-> {},
     groups |-> [g \in Groups |-> Unset]]

ASSUME DefaultsAssumption == \A f \in DOMAIN BuildDefaults : BuildDefaults[f] # Bad

GroupFallbacks(c) ==
    [risk |-> c.risk, patterns |-> {}, name |-> "", start |-> "23:00", end |-> "07:00"]

ResolveGroupConfig(c, g) == IF c.groups[g] = Unset THEN GroupFallbacks(c) ELSE c.groups[g]

BuildNewGroupConfig(c, name) == [GroupFallbacks(c) EXCEPT !.name = name]

(* Objects merge key by key, so a pin or a group can be added or replaced  *)
(* but not removed; a list replaces the list.                              *)
Over(new, old) ==
    [f \in DOMAIN new \cup DOMAIN old |-> IF f \in DOMAIN new THEN new[f] ELSE old[f]]

MergeGroups(old, new) ==
    [g \in Groups |-> IF g \notin DOMAIN new THEN old[g]
                      ELSE IF old[g] = Unset THEN new[g] ELSE Over(new[g], old[g])]

MergeConfigValues(base, update) ==
    [f \in DOMAIN base |->
        IF f \notin DOMAIN update THEN base[f]
        ELSE CASE f = "groups" -> MergeGroups(base.groups, update.groups)
               [] f = "pins"   -> base.pins \cup update.pins
               [] OTHER        -> update[f]]

NormalizeGroup(c, group) == IF group = Unset THEN Unset ELSE Over(group, GroupFallbacks(c))

NormalizeConfig(c) ==
    [c EXCEPT !.groups = [g \in Groups |-> NormalizeGroup(c, c.groups[g])]]

IntelIsValid(c) ==
    /\ c.pins \subseteq c.feeds
    /\ c.mode = "enforce" => c.feeds \subseteq c.pins

PatternsOf(c) == UNION {c.groups[g].patterns : g \in {x \in Groups : c.groups[x] # Unset}}

(* Every field is checked, whoever wrote it. *)
WellTyped(c) ==
    /\ \A f \in DOMAIN c : c[f] # Bad
    /\ \A g \in Groups : c.groups[g] # Unset => \A f \in DOMAIN c.groups[g] : c.groups[g][f] # Bad

IsCanonical(c) == WellTyped(c) /\ IntelIsValid(c) /\ PatternsOf(c) \cap Malformed = {}

Probed(patterns) == patterns \cap (Slow \cup Malformed) = {}

(* What the next boot demands of the file. *)
Loads(file) == file # Torn /\ (file # Unset => IsCanonical(file) /\ Probed(PatternsOf(file)))

-----------------------------------------------------------------------------
(* ConfigManager. *)
ApplySecretOverrides(c) == IF EnvKey = Unset THEN c ELSE [c EXCEPT !.key = EnvKey]

Runtime == ApplySecretOverrides(memory)

CandidateOfRuntime(base, update) ==
    NormalizeConfig(MergeConfigValues(ApplySecretOverrides(base), update))

Candidate(base, update) == NormalizeConfig(MergeConfigValues(base, update))

ConfigChanges(base, next, update) == \E f \in DOMAIN update : base[f] # next[f]

Up == memory # Unset
Running == Up /\ saving = Unset    \* between two turns of the event loop

BeginSave(c) == disk' = [disk EXCEPT !.tmp = c]

CommitUpdate(next, update, h) ==
    /\ generation < MaxCommits
    /\ generation' = generation + 1
    /\ memory' = next
    /\ BeginSave(next)
    /\ saving' = [update |-> update, for |-> h]

(* What the handler goes on with when update() returned or threw. *)
Retry(r) == IF r.attempt < Attempts THEN [r EXCEPT !.attempt = @ + 1] ELSE Unset

Continuation(r, returned) ==
    IF r.op # "bootstrap" \/ r.at = "list" THEN Unset
    ELSE IF returned THEN [r EXCEPT !.at = "list"] ELSE Retry(r)

Reply(h, returned) ==
    request' = [request EXCEPT ![h] = Continuation(request[h], returned)]

Update(h, r, update) ==
    LET next == Candidate(memory, update)
    IN  IF ~IsCanonical(next) \/ ~ConfigChanges(memory, next, update)
        THEN /\ request' = [request EXCEPT ![h] = Continuation(r, IsCanonical(next))]
             /\ UNCHANGED <<memory, generation, disk, saving>>
        ELSE CommitUpdate(next, update, h) /\ request' = [request EXCEPT ![h] = r]

SaveRenames ==
    /\ Up /\ saving # Unset
    /\ disk' = [now |-> disk.tmp, tmp |-> Unset]
    /\ saving' = Unset
    /\ IF saving.for = Unset THEN UNCHANGED request ELSE Reply(saving.for, TRUE)
    /\ UNCHANGED <<memory, generation>>

(* The write throws: the temporary file goes, the new configuration stays  *)
(* live in memory, and ConfigChanged is not emitted.  A first boot whose   *)
(* defaults cannot be saved ends there.                                    *)
SaveFails ==
    /\ Up /\ saving # Unset
    /\ disk' = [disk EXCEPT !.tmp = Unset]
    /\ saving' = Unset
    /\ IF saving.for = Unset THEN memory' = Unset /\ UNCHANGED request
                            ELSE Reply(saving.for, FALSE) /\ UNCHANGED memory
    /\ UNCHANGED generation

-----------------------------------------------------------------------------
(* POST /config: updateValidated. *)
Validate(h, update) ==
    LET next == Candidate(memory, update)
    IN  request' = [request EXCEPT ![h] =
            IF ~IsCanonical(next) \/ ~ConfigChanges(memory, next, update) THEN Unset
            ELSE [op |-> "config", update |-> update, next |-> next, seen |-> generation]]

PostConfig(h) ==
    /\ Running /\ request[h] = Unset
    /\ \E body \in Bodies : Validate(h, Stripped(body))
    /\ UNCHANGED <<memory, generation, disk, saving>>

CommitIgnoringOthers(h, r) == CommitUpdate(r.next, r.update, h) /\ UNCHANGED request

CommitIfUnchanged(h, r) ==
    IF r.seen # generation
    THEN Validate(h, r.update) /\ UNCHANGED <<memory, generation, disk, saving>>
    ELSE CommitUpdate(r.next, r.update, h) /\ UNCHANGED request

ConfigUnprobed(h) ==
    /\ Running /\ request[h] # Unset /\ request[h].op = "config"
    /\ CommitIfUnchanged(h, request[h])

ConfigProbed(h) ==
    /\ Running /\ request[h] # Unset /\ request[h].op = "config"
    /\ IF Probed(PatternsOf(request[h].next)) THEN CommitIfUnchanged(h, request[h])
       ELSE /\ request' = [request EXCEPT ![h] = Unset]
            /\ UNCHANGED <<memory, generation, disk, saving>>

(* plugin_set_config: no await. *)
PluginSetConfig(h) ==
    /\ Running /\ request[h] = Unset
    /\ \E body \in Bodies :
          /\ DOMAIN body \subseteq {"self", "risk"}
          /\ Update(h, [op |-> "plugin"], body)

(* POST /groups/:groupId reads the group, awaits the workers when there    *)
(* are patterns, and writes every field of the group.                      *)
GroupRequest(g, body) ==
    [op |-> "group", group |-> g, existing |-> ResolveGroupConfig(Runtime, g),
     full |-> [Over(body, ResolveGroupConfig(Runtime, g)) EXCEPT !.name = ResolveGroupConfig(Runtime, g).name],
     named |-> DOMAIN body]

ZeroLengthWindow(r) ==
    /\ r.full.start = r.full.end
    /\ <<r.full.start, r.full.end>> # <<r.existing.start, r.existing.end>>

WriteGroup(h, r) == Update(h, r, [groups |-> [g \in {r.group} |-> r.full]])

FinishGroup(h, r) ==
    IF ~Probed(r.full.patterns) \/ ZeroLengthWindow(r)
    THEN /\ request' = [request EXCEPT ![h] = Unset]
         /\ UNCHANGED <<memory, generation, disk, saving>>
    ELSE WriteGroup(h, r)

PostGroup(h) ==
    /\ Running /\ request[h] = Unset
    /\ \E g \in Groups, body \in GroupBodies :
          LET r == GroupRequest(g, body)
          IN  IF r.full.patterns = {} THEN FinishGroup(h, r)
              ELSE /\ request' = [request EXCEPT ![h] = r]
                   /\ UNCHANGED <<memory, generation, disk, saving>>

GroupProbed(h) ==
    /\ Running /\ request[h] # Unset /\ request[h].op = "group"
    /\ FinishGroup(h, request[h])

(* bootstrapGroups: at boot, and from POST /groups/refresh. *)
Bootstrap(h) ==
    /\ Running /\ request[h] = Unset
    /\ request' = [request EXCEPT ![h] = [op |-> "bootstrap", at |-> "info", attempt |-> 1]]
    /\ UNCHANGED <<memory, generation, disk, saving>>

AtBootstrap(h, at) == Running /\ request[h] # Unset /\ request[h].op = "bootstrap" /\ request[h].at = at

BotInfoArrives(h) ==
    /\ AtBootstrap(h, "info")
    /\ \E id \in SelfIds : Update(h, request[h], [self |-> id])

BotInfoFails(h) ==
    /\ AtBootstrap(h, "info")
    /\ request' = [request EXCEPT ![h] = Retry(request[h])]
    /\ UNCHANGED <<memory, generation, disk, saving>>

MergeGroupList(names) ==
    [g \in DOMAIN names |->
        IF memory.groups[g] # Unset THEN [name |-> names[g]]
        ELSE BuildNewGroupConfig(Runtime, names[g])]

GroupListArrives(h) ==
    /\ AtBootstrap(h, "list")
    /\ \E G \in SUBSET Groups : \E names \in [G -> Titles] :
          Update(h, request[h], [groups |-> MergeGroupList(names)])

GroupListFails(h) ==
    /\ AtBootstrap(h, "list")
    /\ request' = [request EXCEPT ![h] = Unset]
    /\ UNCHANGED <<memory, generation, disk, saving>>

-----------------------------------------------------------------------------
(* The shadow migration refuses a file the schema or the probe rejects;    *)
(* init() loads what it accepts or writes the defaults.                    *)
BootConfig ==
    /\ ~Up /\ Loads(disk.now)
    /\ generation < MaxCommits
    /\ generation' = generation + 1
    /\ memory' = IF disk.now = Unset THEN BuildDefaults ELSE disk.now
    /\ IF disk.now = Unset
       THEN BeginSave(BuildDefaults) /\ saving' = [update |-> << >>, for |-> Unset]
       ELSE UNCHANGED <<disk, saving>>
    /\ UNCHANGED request

ProcessDies ==
    /\ Up
    /\ memory' = Unset /\ saving' = Unset
    /\ request' = [h \in Requesters |-> Unset]
    /\ UNCHANGED <<generation, disk>>

ConfigNext ==
    \/ SaveRenames \/ SaveFails \/ BootConfig \/ ProcessDies
    \/ \E h \in Requesters :
          \/ PostConfig(h) \/ ConfigProbed(h)
          \/ PostGroup(h) \/ GroupProbed(h)
          \/ PluginSetConfig(h)
          \/ Bootstrap(h) \/ BotInfoArrives(h) \/ BotInfoFails(h)
          \/ GroupListArrives(h) \/ GroupListFails(h)

ConfigInit ==
    /\ memory = Unset /\ generation = 0 /\ saving = Unset
    /\ disk = [now |-> Unset, tmp |-> Unset]
    /\ request = [h \in Requesters |-> Unset]

ConfigSpec == ConfigInit /\ [][ConfigNext]_configVars

-----------------------------------------------------------------------------
(* Types: whatever is live or stored is a complete configuration. *)
ConfigTypeOK ==
    /\ memory \in Config \cup {Unset}
    /\ generation \in 0..MaxCommits
    /\ disk.now \in Config \cup {Unset, Torn} /\ disk.tmp \in Config \cup {Unset}
    /\ saving # Unset => saving.for \in Requesters \cup {Unset}

(* Whatever the writers did and wherever the process died, the file is one *)
(* the next boot accepts: complete, canonical, and with no approval        *)
(* pattern that the worker probe would reject.                             *)
(* (updateValidated, save; the boot refuses anything else)                 *)
NextBootAccepts == Loads(disk.now)

(* The file and the configuration it is written from hold a key that an    *)
(* administrator typed: never the one injected by the environment, never   *)
(* the mask that GET /config shows in its place.                           *)
SecretsStayApart ==
    /\ memory # Unset => memory.key \in Secrets \cup {""}
    /\ disk.now \notin {Unset, Torn} => disk.now.key \in Secrets \cup {""}

(* An update leaves alone every field it does not name, as that field is   *)
(* when the update is applied: a configuration validated against an older  *)
(* generation is not written over a newer one, and the group bootstrap     *)
(* keeps every setting of a configured group but its name.                 *)
LeavesTheRest(u) ==
    /\ \A f \in DOMAIN memory \ DOMAIN u : memory'[f] = memory[f]
    /\ "groups" \in DOMAIN u =>
          \A g \in Groups :
             IF g \notin DOMAIN u.groups THEN memory'.groups[g] = memory.groups[g]
             ELSE memory.groups[g] # Unset =>
                     \A f \in DOMAIN memory.groups[g] \ DOMAIN u.groups[g] :
                        memory'.groups[g][f] = memory.groups[g][f]

SavesTheRest == Up /\ saving = Unset /\ saving' # Unset => LeavesTheRest(saving'.update)

UpdateIsLocal == [][SavesTheRest]_configVars

-----------------------------------------------------------------------------
(* Strengthening.  What is live could be loaded again; the temporary file  *)
(* of a save under way is what is live; and what a request remembers of a  *)
(* generation is what that generation would become.                        *)
LiveLoads == Up => IsCanonical(memory) /\ Probed(PatternsOf(memory))

ConfigRequestOK(r) ==
    /\ r.op = "config" /\ IsUpdate(r.update) /\ IsCanonical(r.next)
    /\ r.seen \in Nat /\ r.seen <= generation
    /\ r.seen = generation => r.next = Candidate(memory, r.update)

RequestOK(r) ==
    \/ ConfigRequestOK(r)
    \/ r.op = "group" /\ r.group \in Groups /\ r.full \in Group
    \/ r \in [op : {"bootstrap"}, at : {"info", "list"}, attempt : Nat]
    \/ r = [op |-> "plugin"]

SaveIsLive ==
    saving # Unset =>
        /\ Up /\ disk.tmp = memory
        /\ saving.for # Unset => RequestOK(request[saving.for])

RequestsSound ==
    \A h \in Requesters : request[h] # Unset =>
        /\ Up /\ (saving # Unset => saving.for # Unset)
        /\ RequestOK(request[h])

ConfigInd ==
    /\ ConfigTypeOK /\ NextBootAccepts
    /\ disk \in [now : Config \cup {Unset, Torn}, tmp : Config \cup {Unset}]
    /\ request = [h \in Requesters |-> request[h]]
    /\ LiveLoads /\ SaveIsLive /\ RequestsSound
=============================================================================
