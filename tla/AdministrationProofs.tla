------------------------- MODULE AdministrationProofs -------------------------
(***************************************************************************)
(* Proofs about what boots and administrators do to an installation, for   *)
(* every set of files, groups, keys and requests.                          *)
(***************************************************************************)
EXTENDS Configuration, LegacyConfig, SelfUpdate, TLAPS

(***************************************************************************)
(* The schema: what merging and normalising do to one group.               *)
(***************************************************************************)
LEMMA FallbacksTyped ==
    ASSUME NEW c, c.risk \in BOOLEAN
    PROVE  GroupFallbacks(c) \in Group
BY ConfigurationAssumption DEF GroupFallbacks, Group

LEMMA OverGroupTyped ==
    ASSUME NEW old \in Group, NEW new, IsPartialGroup(new, {Bad}),
           \A f \in DOMAIN new : new[f] # Bad
    PROVE  Over(new, old) \in Group
<1> DEFINE r == Over(new, old)
<1>1. r = [f \in {"risk", "patterns", "name", "start", "end"} |->
              IF f \in DOMAIN new THEN new[f] ELSE old[f]]
    BY DEF Over, IsPartialGroup, Group
<1>2. r.risk \in BOOLEAN
    BY <1>1 DEF IsPartialGroup, Group
<1>3. r.patterns \in SUBSET Patterns
    BY <1>1 DEF IsPartialGroup, Group
<1>4. r.name \in Titles \cup {""}
    BY <1>1 DEF IsPartialGroup, Group
<1>5. r.start \in Times
    BY <1>1 DEF IsPartialGroup, Group
<1>6. r.end \in Times
    BY <1>1 DEF IsPartialGroup, Group
<1> QED
    BY <1>1, <1>2, <1>3, <1>4, <1>5, <1>6 DEF Group

LEMMA CompleteGroupStays ==
    ASSUME NEW group \in Group, NEW fallbacks \in Group
    PROVE  Over(group, fallbacks) = group
BY DEF Over, Group

(* A merged group is again a group with some of its fields. *)
LEMMA OverIsPartial ==
    ASSUME NEW old \in Group, NEW new, IsPartialGroup(new, {Bad})
    PROVE  IsPartialGroup(Over(new, old), {Bad}) /\ Over(new, old) # Unset
<1> DEFINE r == Over(new, old)
<1>1. r = [f \in {"risk", "patterns", "name", "start", "end"} |->
              IF f \in DOMAIN new THEN new[f] ELSE old[f]]
    BY DEF Over, IsPartialGroup, Group
<1>2. IsPartialGroup(r, {Bad})
    BY <1>1 DEF IsPartialGroup, Group
<1>3. r \in MergedGroup
    BY <1>1, <1>2 DEF IsPartialGroup, MergedGroup
<1> QED
    BY <1>2, <1>3, ConfigurationAssumption

(***************************************************************************)
(* The candidate of a configuration and a partial update, field by field.  *)
(***************************************************************************)
ConfigFields == {"self", "risk", "key", "mode", "feeds", "pins", "groups"}

LEMMA MergedFields ==
    ASSUME NEW m \in Config, NEW u, IsUpdate(u)
    PROVE  LET M == MergeConfigValues(m, u) IN
           /\ M = [f \in ConfigFields |-> M[f]]
           /\ \A f \in ConfigFields \ DOMAIN u : M[f] = m[f]
           /\ \A f \in DOMAIN u : f \notin {"groups", "pins"} => M[f] = u[f]
           /\ "pins" \in DOMAIN u => M.pins = m.pins \cup u.pins
           /\ "groups" \in DOMAIN u => M.groups = MergeGroups(m.groups, u.groups)
<1> DEFINE M == MergeConfigValues(m, u)
<1>1. DOMAIN m = ConfigFields /\ DOMAIN u \subseteq ConfigFields
    BY DEF Config, ConfigFields, IsUpdate
<1> DEFINE e(f) == IF f \notin DOMAIN u THEN m[f]
                   ELSE CASE f = "groups" -> MergeGroups(m.groups, u.groups)
                          [] f = "pins"   -> m.pins \cup u.pins
                          [] OTHER        -> u[f]
<1>2. M = [f \in ConfigFields |-> e(f)]
    BY <1>1 DEF MergeConfigValues
<1>3. \A f \in ConfigFields : M[f] = e(f)
    BY <1>2
<1>4. M = [f \in ConfigFields |-> M[f]]
  <2> HIDE DEF e, M
  <2> QED
    BY <1>2
<1> HIDE DEF M
<1>5. \A f \in ConfigFields \ DOMAIN u : M[f] = m[f]
    BY <1>3
<1>6. ASSUME NEW f \in DOMAIN u, f \notin {"groups", "pins"} PROVE M[f] = u[f]
    BY <1>1, <1>3, <1>6
<1>7. "pins" \in DOMAIN u => M["pins"] = m.pins \cup u.pins
    BY <1>1, <1>3
<1>8. "groups" \in DOMAIN u => M["groups"] = MergeGroups(m.groups, u.groups)
    BY <1>1, <1>3
<1> QED
    BY <1>4, <1>5, <1>6, <1>7, <1>8 DEF M

LEMMA CandidateFields ==
    ASSUME NEW m \in Config, NEW u, IsUpdate(u)
    PROVE  LET M == MergeConfigValues(m, u)
               C == Candidate(m, u)
           IN  /\ C = [f \in ConfigFields |-> C[f]]
               /\ \A f \in ConfigFields \ {"groups"} : C[f] = M[f]
               /\ C.groups = [g \in Groups |-> NormalizeGroup(M, M.groups[g])]
<1> DEFINE M == MergeConfigValues(m, u)
<1>1. M = [f \in ConfigFields |-> M[f]]
    BY MergedFields
<1> HIDE DEF M
<1>2. Candidate(m, u) = [M EXCEPT !.groups = [g \in Groups |-> NormalizeGroup(M, M.groups[g])]]
    BY DEF Candidate, NormalizeConfig, M
<1> QED
    BY <1>1, <1>2 DEF ConfigFields, M

(* The groups of a merge are Unset, complete, or have some of the fields.  *)
LEMMA MergedGroups ==
    ASSUME NEW m \in Config, NEW u, IsUpdate(u), NEW g \in Groups
    PROVE  LET x == MergeConfigValues(m, u).groups[g] IN
           /\ "groups" \notin DOMAIN u \/ g \notin DOMAIN u.groups => x = m.groups[g]
           /\ "groups" \in DOMAIN u /\ g \in DOMAIN u.groups =>
                 x = IF m.groups[g] = Unset THEN u.groups[g] ELSE Over(u.groups[g], m.groups[g])
           /\ x # Unset => IsPartialGroup(x, {Bad})
<1> DEFINE x == MergeConfigValues(m, u).groups[g]
<1>1. m.groups[g] \in Group \cup {Unset}
    BY DEF Config
<1>2. "groups" \notin DOMAIN u => x = m.groups[g]
    BY MergedFields DEF ConfigFields
<1>3. "groups" \in DOMAIN u => x = MergeGroups(m.groups, u.groups)[g]
    BY MergedFields
<1> HIDE DEF x
<1>4. "groups" \in DOMAIN u /\ g \notin DOMAIN u.groups => x = m.groups[g]
    BY <1>3 DEF MergeGroups
<1>5. "groups" \in DOMAIN u /\ g \in DOMAIN u.groups =>
         x = IF m.groups[g] = Unset THEN u.groups[g] ELSE Over(u.groups[g], m.groups[g])
    BY <1>3 DEF MergeGroups
<1>6. ASSUME NEW y \in Group PROVE IsPartialGroup(y, {Bad})
    BY DEF Group, IsPartialGroup
<1>7. "groups" \in DOMAIN u /\ g \in DOMAIN u.groups => IsPartialGroup(u.groups[g], {Bad})
    BY DEF IsUpdate
<1>8. x # Unset => IsPartialGroup(x, {Bad})
    BY <1>1, <1>2, <1>4, <1>5, <1>6, <1>7, OverIsPartial
<1> QED
    BY <1>2, <1>4, <1>5, <1>8 DEF x

LEMMA CandidateGroups ==
    ASSUME NEW m \in Config, NEW u, IsUpdate(u), NEW g \in Groups
    PROVE  LET M == MergeConfigValues(m, u) IN
           Candidate(m, u).groups[g] =
              IF M.groups[g] = Unset THEN Unset ELSE Over(M.groups[g], GroupFallbacks(M))
<1> DEFINE M == MergeConfigValues(m, u)
<1>1. Candidate(m, u).groups = [h \in Groups |-> NormalizeGroup(M, M.groups[h])]
    BY CandidateFields
<1>2. Candidate(m, u).groups[g] = NormalizeGroup(M, M.groups[g])
    BY <1>1
<1> QED
    BY <1>2 DEF NormalizeGroup

LEMMA CandidateTyped ==
    ASSUME NEW m \in Config, NEW u, IsUpdate(u), IsCanonical(Candidate(m, u))
    PROVE  Candidate(m, u) \in Config
<1> DEFINE M == MergeConfigValues(m, u)
           C == Candidate(m, u)
<1>0. C = [f \in ConfigFields |-> C[f]]
    BY CandidateFields
<1>1. /\ \A f \in ConfigFields \ {"groups"} : C[f] = M[f]
      /\ C.groups = [g \in Groups |-> NormalizeGroup(M, M.groups[g])]
    BY CandidateFields
<1>2. /\ \A f \in ConfigFields \ DOMAIN u : M[f] = m[f]
      /\ \A f \in DOMAIN u : f \notin {"groups", "pins"} => M[f] = u[f]
      /\ "pins" \in DOMAIN u => M.pins = m.pins \cup u.pins
    BY MergedFields
<1>3. \A f \in ConfigFields : C[f] # Bad
    BY <1>0 DEF IsCanonical, WellTyped
<1>4. \A g \in Groups : C.groups[g] # Unset => \A f \in DOMAIN C.groups[g] : C.groups[g][f] # Bad
    BY DEF IsCanonical, WellTyped
<1>5. \A g \in Groups : C.groups[g] = IF M.groups[g] = Unset THEN Unset
                                      ELSE Over(M.groups[g], GroupFallbacks(M))
    BY CandidateGroups
<1>6. \A g \in Groups : M.groups[g] # Unset => IsPartialGroup(M.groups[g], {Bad})
    BY MergedGroups
<1> HIDE DEF M, C
<1>7. C.self \in SelfIds \cup {"0"}
  <2>1. C.self = M.self /\ C.self # Bad
    BY <1>1, <1>3 DEF ConfigFields
  <2>2. M.self = IF "self" \in DOMAIN u THEN u.self ELSE m.self
    BY <1>2 DEF ConfigFields
  <2> QED
    BY <2>1, <2>2 DEF Config, IsUpdate
<1>8. C.risk \in BOOLEAN
  <2>1. C.risk = M.risk /\ C.risk # Bad
    BY <1>1, <1>3 DEF ConfigFields
  <2>2. M.risk = IF "risk" \in DOMAIN u THEN u.risk ELSE m.risk
    BY <1>2 DEF ConfigFields
  <2> QED
    BY <2>1, <2>2 DEF Config, IsUpdate
<1>9. C.key \in Secrets \cup {""}
  <2>1. C.key = M.key /\ C.key # Bad
    BY <1>1, <1>3 DEF ConfigFields
  <2>2. M.key = IF "key" \in DOMAIN u THEN u.key ELSE m.key
    BY <1>2 DEF ConfigFields
  <2> QED
    BY <2>1, <2>2 DEF Config, IsUpdate
<1>10. C.mode \in {"observe", "enforce"}
  <2>1. C.mode = M.mode /\ C.mode # Bad
    BY <1>1, <1>3 DEF ConfigFields
  <2>2. M.mode = IF "mode" \in DOMAIN u THEN u.mode ELSE m.mode
    BY <1>2 DEF ConfigFields
  <2> QED
    BY <2>1, <2>2 DEF Config, IsUpdate
<1>11. C.feeds \in SUBSET Feeds
  <2>1. C.feeds = M.feeds /\ C.feeds # Bad
    BY <1>1, <1>3 DEF ConfigFields
  <2>2. M.feeds = IF "feeds" \in DOMAIN u THEN u.feeds ELSE m.feeds
    BY <1>2 DEF ConfigFields
  <2> QED
    BY <2>1, <2>2 DEF Config, IsUpdate
<1>12. C.pins \in SUBSET Feeds
  <2>1. C.pins = M.pins
    BY <1>1 DEF ConfigFields
  <2>2. M.pins = IF "pins" \in DOMAIN u THEN m.pins \cup u.pins ELSE m.pins
    BY <1>2 DEF ConfigFields
  <2> QED
    BY <2>1, <2>2 DEF Config, IsUpdate
<1>13. ASSUME NEW g \in Groups, C.groups[g] # Unset
       PROVE  C.groups[g] \in Group
  <2> DEFINE x == M.groups[g]
             base == GroupFallbacks(M)
  <2>1. x # Unset /\ IsPartialGroup(x, {Bad}) /\ C.groups[g] = Over(x, base)
    BY <1>5, <1>6, <1>13
  <2>2. base \in Group
    BY <1>1, <1>8, FallbacksTyped DEF ConfigFields
  <2> HIDE DEF x, base
  <2>3. \A f \in DOMAIN x : f \in DOMAIN Over(x, base) /\ Over(x, base)[f] = x[f]
    BY DEF Over
  <2>4. \A f \in DOMAIN x : x[f] # Bad
    BY <1>4, <1>13, <2>1, <2>3
  <2> QED
    BY <2>1, <2>2, <2>4, OverGroupTyped
<1>14. C.groups \in [Groups -> Group \cup {Unset}]
    BY <1>1, <1>13
<1> QED
    BY <1>0, <1>7, <1>8, <1>9, <1>10, <1>11, <1>12, <1>14 DEF Config, ConfigFields, C

(***************************************************************************)
(* A partial update leaves alone what it does not name.                    *)
(***************************************************************************)
LEMMA CandidateLocal ==
    ASSUME NEW m \in Config, NEW u, IsUpdate(u), IsCanonical(Candidate(m, u))
    PROVE  LET C == Candidate(m, u) IN
           /\ \A f \in DOMAIN m \ DOMAIN u : C[f] = m[f]
           /\ \A g \in Groups :
                 "groups" \notin DOMAIN u \/ g \notin DOMAIN u.groups => C.groups[g] = m.groups[g]
           /\ "groups" \in DOMAIN u =>
                 \A g \in Groups :
                    g \in DOMAIN u.groups /\ m.groups[g] # Unset =>
                       \A f \in DOMAIN m.groups[g] \ DOMAIN u.groups[g] : C.groups[g][f] = m.groups[g][f]
<1> DEFINE M == MergeConfigValues(m, u)
           C == Candidate(m, u)
<1>1. /\ \A f \in ConfigFields \ {"groups"} : C[f] = M[f]
      /\ C.groups = [g \in Groups |-> NormalizeGroup(M, M.groups[g])]
    BY CandidateFields
<1>2. \A f \in ConfigFields \ DOMAIN u : M[f] = m[f]
    BY MergedFields
<1>3. \A g \in Groups : C.groups[g] = IF M.groups[g] = Unset THEN Unset
                                      ELSE Over(M.groups[g], GroupFallbacks(M))
    BY CandidateGroups
<1>4. \A g \in Groups :
        /\ "groups" \notin DOMAIN u \/ g \notin DOMAIN u.groups => M.groups[g] = m.groups[g]
        /\ "groups" \in DOMAIN u /\ g \in DOMAIN u.groups =>
              M.groups[g] = IF m.groups[g] = Unset THEN u.groups[g] ELSE Over(u.groups[g], m.groups[g])
    BY MergedGroups
<1>5. C \in Config
    BY CandidateTyped
<1> HIDE DEF M, C
<1>6. GroupFallbacks(M) \in Group
  <2>1. M.risk = C.risk /\ C.risk \in BOOLEAN
    BY <1>1, <1>5 DEF Config, ConfigFields
  <2> QED
    BY <2>1, FallbacksTyped
<1>7. \A g \in Groups : m.groups[g] \in Group \cup {Unset}
    BY DEF Config
<1>8. ASSUME NEW g \in Groups, M.groups[g] = m.groups[g]
      PROVE  C.groups[g] = m.groups[g]
    BY <1>3, <1>6, <1>7, <1>8, CompleteGroupStays
<1>9. C.groups \in [Groups -> Group \cup {Unset}] /\ m.groups \in [Groups -> Group \cup {Unset}]
    BY <1>5 DEF Config
<1>10. ASSUME "groups" \notin DOMAIN u
       PROVE  C.groups = m.groups
    BY <1>4, <1>8, <1>9, <1>10
<1>11. ASSUME NEW f \in DOMAIN m \ DOMAIN u PROVE C[f] = m[f]
  <2>1. f \in ConfigFields
    BY DEF Config, ConfigFields
  <2> QED
    BY <1>1, <1>2, <1>10, <1>11, <2>1
<1>12. ASSUME "groups" \in DOMAIN u, NEW g \in Groups, g \in DOMAIN u.groups, m.groups[g] # Unset,
              NEW f \in DOMAIN m.groups[g] \ DOMAIN u.groups[g]
       PROVE  C.groups[g][f] = m.groups[g][f]
  <2> DEFINE x == Over(u.groups[g], m.groups[g])
  <2>1. M.groups[g] = x /\ IsPartialGroup(u.groups[g], {Bad}) /\ m.groups[g] \in Group
    BY <1>4, <1>7, <1>12 DEF IsUpdate
  <2>2. f \in DOMAIN x /\ x[f] = m.groups[g][f]
    BY DEF Over
  <2>3. x # Unset
    BY <2>1, OverIsPartial
  <2> QED
    BY <1>3, <2>1, <2>2, <2>3 DEF Over
<1> QED
    BY <1>4, <1>8, <1>11, <1>12 DEF C

(***************************************************************************)
(* A configuration loads after an update that adds probed patterns only.   *)
(***************************************************************************)
LEMMA ProbedByGroup ==
    ASSUME NEW c
    PROVE  Probed(PatternsOf(c)) <=>
              \A g \in Groups : c.groups[g] # Unset => Probed(c.groups[g].patterns)
BY DEF Probed, PatternsOf

AddsProbed(u) ==
    "groups" \in DOMAIN u =>
        \A g \in DOMAIN u.groups :
            "patterns" \in DOMAIN u.groups[g] => Probed(u.groups[g].patterns)

LEMMA CandidateProbed ==
    ASSUME NEW m \in Config, NEW u, IsUpdate(u), Probed(PatternsOf(m)), AddsProbed(u)
    PROVE  Probed(PatternsOf(Candidate(m, u)))
<1> DEFINE M == MergeConfigValues(m, u)
           C == Candidate(m, u)
<1>1. \A g \in Groups : C.groups[g] = IF M.groups[g] = Unset THEN Unset
                                      ELSE Over(M.groups[g], GroupFallbacks(M))
    BY CandidateGroups
<1>2. \A g \in Groups :
        /\ "groups" \notin DOMAIN u \/ g \notin DOMAIN u.groups => M.groups[g] = m.groups[g]
        /\ "groups" \in DOMAIN u /\ g \in DOMAIN u.groups =>
              M.groups[g] = IF m.groups[g] = Unset THEN u.groups[g] ELSE Over(u.groups[g], m.groups[g])
    BY MergedGroups
<1>3. \A g \in Groups : m.groups[g] # Unset => m.groups[g] \in Group /\ Probed(m.groups[g].patterns)
    BY ProbedByGroup DEF Config
<1> HIDE DEF M, C
<1>4. ASSUME NEW g \in Groups, M.groups[g] # Unset
      PROVE  "patterns" \in DOMAIN M.groups[g] => Probed(M.groups[g].patterns)
  <2>1. CASE "groups" \notin DOMAIN u \/ g \notin DOMAIN u.groups
    BY <1>2, <1>3, <1>4, <2>1
  <2>2. CASE "groups" \in DOMAIN u /\ g \in DOMAIN u.groups /\ m.groups[g] = Unset
    BY <1>2, <1>4, <2>2 DEF AddsProbed
  <2>3. CASE "groups" \in DOMAIN u /\ g \in DOMAIN u.groups /\ m.groups[g] # Unset
    <3>1. M.groups[g] = Over(u.groups[g], m.groups[g])
      BY <1>2, <2>3
    <3>2. M.groups[g].patterns = IF "patterns" \in DOMAIN u.groups[g] THEN u.groups[g].patterns
                                 ELSE m.groups[g].patterns
      BY <1>3, <2>3, <3>1 DEF Over, Group
    <3> QED
      BY <1>3, <2>3, <3>2 DEF AddsProbed
  <2> QED
    BY <2>1, <2>2, <2>3
<1>5. ASSUME NEW g \in Groups, C.groups[g] # Unset
      PROVE  Probed(C.groups[g].patterns)
  <2> DEFINE x == M.groups[g]
             base == GroupFallbacks(M)
  <2>1. x # Unset /\ C.groups[g] = Over(x, base)
    BY <1>1, <1>5
  <2>2. "patterns" \in DOMAIN base /\ base.patterns = {}
    BY DEF GroupFallbacks
  <2>3. "patterns" \in DOMAIN x => Probed(x.patterns)
    BY <1>4, <2>1
  <2> HIDE DEF x, base
  <2>4. C.groups[g].patterns = IF "patterns" \in DOMAIN x THEN x.patterns ELSE {}
    BY <2>1, <2>2 DEF Over
  <2> QED
    BY <2>3, <2>4 DEF Probed
<1> QED
  <2>1. Probed(PatternsOf(C))
    BY <1>5, ProbedByGroup
  <2> QED
    BY <2>1 DEF C

(***************************************************************************)
(* Requests.  What a request remembers stays true of the configuration it  *)
(* was read from, and a later generation makes no claim about it.          *)
(***************************************************************************)
LEMMA RequestStays ==
    ASSUME NEW r, RequestOK(r), generation \in Nat,
           generation' = generation + 1 \/ UNCHANGED <<generation, memory>>
    PROVE  RequestOK(r)'
<1>1. CASE ConfigRequestOK(r)
  <2>1. CASE generation' = generation + 1
    <3>1. r.seen # generation' /\ r.seen <= generation'
      BY <1>1, <2>1 DEF ConfigRequestOK
    <3> QED
      BY <1>1, <3>1 DEF ConfigRequestOK, RequestOK
  <2>2. CASE UNCHANGED <<generation, memory>>
    BY <1>1, <2>2 DEF ConfigRequestOK, RequestOK
  <2> QED
    BY <2>1, <2>2
<1>2. CASE ~ConfigRequestOK(r)
    BY <1>2 DEF RequestOK
<1> QED
    BY <1>1, <1>2

LEMMA ContinuationSound ==
    ASSUME NEW r, RequestOK(r), NEW returned \in BOOLEAN
    PROVE  Continuation(r, returned) = Unset \/ RequestOK(Continuation(r, returned))
<1>1. CASE r.op # "bootstrap"
    BY <1>1 DEF Continuation
<1>2. CASE r \in [op : {"bootstrap"}, at : {"info", "list"}, attempt : Nat]
  <2>1. Continuation(r, returned) = Unset \/
        Continuation(r, returned) \in [op : {"bootstrap"}, at : {"info", "list"}, attempt : Nat]
    BY <1>2 DEF Continuation, Retry
  <2> QED
    BY <2>1 DEF RequestOK
<1>3. CASE ConfigRequestOK(r) \/ r.op = "group" \/ r = [op |-> "plugin"]
    BY <1>1, <1>3 DEF ConfigRequestOK
<1> QED
    BY <1>2, <1>3 DEF RequestOK

LEMMA RequestsStay ==
    ASSUME ConfigInd, Running, memory' # Unset,
           generation' = generation + 1 \/ UNCHANGED <<generation, memory>>,
           saving' # Unset => saving'.for # Unset,
           NEW h \in Requesters, NEW r, r = Unset \/ RequestOK(r),
           request' = [request EXCEPT ![h] = r]
    PROVE  RequestsSound' /\ request' = [k \in Requesters |-> request'[k]]
<1>1. request' = [k \in Requesters |-> IF k = h THEN r ELSE request[k]]
    BY DEF ConfigInd
<1>2. request'[h] = r /\ \A k \in Requesters \ {h} : request'[k] = request[k]
    BY <1>1
<1>3. ASSUME NEW k \in Requesters, request'[k] # Unset
      PROVE  Up' /\ (saving' # Unset => saving'.for # Unset) /\ RequestOK(request[k])'
  <2> DEFINE x == request'[k]
  <2>1. RequestOK(x)
    BY <1>2, <1>3 DEF ConfigInd, RequestsSound
  <2>2. generation \in Nat
    BY ConfigurationAssumption DEF ConfigInd, ConfigTypeOK
  <2>3. PICK y : y = x
    OBVIOUS
  <2>4. RequestOK(y)'
    BY <2>1, <2>2, <2>3, RequestStays
  <2>5. RequestOK(request[k])'
    BY <2>3, <2>4 DEF RequestOK, ConfigRequestOK
  <2> QED
    BY <2>5 DEF Up
<1> QED
    BY <1>1, <1>3 DEF RequestsSound

(* A request that changes nothing but itself.                              *)
LEMMA AsideSound ==
    ASSUME ConfigInd, Running, NEW h \in Requesters, NEW r, r = Unset \/ RequestOK(r),
           request' = [request EXCEPT ![h] = r], UNCHANGED <<memory, generation, disk, saving>>
    PROVE  ConfigInd' /\ SavesTheRest
<1>1. RequestsSound' /\ request' = [k \in Requesters |-> request'[k]]
    BY RequestsStay DEF Running, Up
<1>2. ConfigTypeOK' /\ NextBootAccepts' /\ LiveLoads'
      /\ disk' \in [now : Config \cup {Unset, Torn}, tmp : Config \cup {Unset}]
    BY DEF ConfigInd, ConfigTypeOK, NextBootAccepts, LiveLoads, Up
<1>3. SaveIsLive'
    BY DEF Running, SaveIsLive
<1> QED
    BY <1>1, <1>2, <1>3 DEF ConfigInd, Running, SavesTheRest

(***************************************************************************)
(* commitUpdate: the candidate goes live and into the temporary file.      *)
(***************************************************************************)
LEMMA CommitSound ==
    ASSUME ConfigInd, Running, NEW h \in Requesters, NEW update, NEW next,
           IsUpdate(update), next = Candidate(memory, update), IsCanonical(next),
           Probed(PatternsOf(next)), CommitUpdate(next, update, h),
           NEW r, RequestOK(r), request' = [request EXCEPT ![h] = r]
    PROVE  ConfigInd' /\ SavesTheRest
<1>1. memory \in Config
    BY DEF ConfigInd, ConfigTypeOK, Running, Up
<1>2. next \in Config /\ memory' = next /\ next # Unset
    BY <1>1, CandidateTyped, ConfigurationAssumption DEF CommitUpdate
<1>3. generation \in Nat /\ generation' = generation + 1 /\ generation' \in 0..MaxCommits
    BY ConfigurationAssumption DEF CommitUpdate, ConfigInd, ConfigTypeOK
<1>4. saving' = [update |-> update, for |-> h] /\ saving'.for = h /\ h # Unset
    BY ConfigurationAssumption DEF CommitUpdate
<1>5. disk' \in [now : Config \cup {Unset, Torn}, tmp : Config \cup {Unset}]
      /\ disk'.now = disk.now /\ disk'.tmp = next
    BY <1>2 DEF ConfigInd, CommitUpdate, BeginSave
<1>6. RequestsSound' /\ request' = [k \in Requesters |-> request'[k]]
    BY <1>2, <1>3, <1>4, RequestsStay
<1>7. ConfigTypeOK'
    BY <1>2, <1>3, <1>4, <1>5 DEF ConfigTypeOK
<1>8. NextBootAccepts'
    BY <1>5 DEF ConfigInd, NextBootAccepts
<1>9. LiveLoads'
    BY <1>2 DEF LiveLoads
<1>10. SaveIsLive'
  <2>1. RequestOK(r)'
    BY <1>3, RequestStays
  <2>2. request'[h] = r
    BY DEF ConfigInd
  <2>3. RequestOK(request[saving.for])'
    BY <1>4, <2>1, <2>2 DEF RequestOK, ConfigRequestOK
  <2> QED
    BY <1>2, <1>5, <2>3 DEF SaveIsLive, Up
<1>11. LeavesTheRest(update)
    BY <1>1, <1>2, CandidateLocal DEF LeavesTheRest
<1> QED
    BY <1>4, <1>5, <1>6, <1>7, <1>8, <1>9, <1>10, <1>11 DEF ConfigInd, SavesTheRest

(* ConfigManager.update: refused, or without effect, or committed.         *)
LEMMA UpdateSound ==
    ASSUME ConfigInd, Running, NEW h \in Requesters, NEW r, RequestOK(r),
           NEW update, IsUpdate(update), AddsProbed(update), Update(h, r, update)
    PROVE  ConfigInd' /\ SavesTheRest
<1> DEFINE next == Candidate(memory, update)
<1>1. memory \in Config /\ Probed(PatternsOf(memory))
    BY DEF ConfigInd, ConfigTypeOK, LiveLoads, Running, Up
<1>2. CASE ~IsCanonical(next) \/ ~ConfigChanges(memory, next, update)
  <2> DEFINE s == Continuation(r, IsCanonical(next))
  <2>1. request' = [request EXCEPT ![h] = s] /\ UNCHANGED <<memory, generation, disk, saving>>
    BY <1>2 DEF Update
  <2>2. IsCanonical(next) \in BOOLEAN
    BY DEF IsCanonical
  <2>3. s = Unset \/ RequestOK(s)
    BY <2>2, ContinuationSound
  <2> HIDE DEF s, next
  <2> QED
    BY <2>1, <2>3, AsideSound
<1>3. CASE IsCanonical(next) /\ ConfigChanges(memory, next, update)
  <2>1. CommitUpdate(next, update, h) /\ request' = [request EXCEPT ![h] = r]
    BY <1>3 DEF Update
  <2>2. Probed(PatternsOf(next))
    BY <1>1, CandidateProbed
  <2> QED
    BY <1>3, <2>1, <2>2, CommitSound
<1> QED
    BY <1>2, <1>3

(* The first half of updateValidated.                                      *)
LEMMA ValidateSound ==
    ASSUME ConfigInd, Running, NEW h \in Requesters, NEW update, IsUpdate(update),
           Validate(h, update), UNCHANGED <<memory, generation, disk, saving>>
    PROVE  ConfigInd' /\ SavesTheRest
<1> DEFINE next == Candidate(memory, update)
           s == IF ~IsCanonical(next) \/ ~ConfigChanges(memory, next, update) THEN Unset
                ELSE [op |-> "config", update |-> update, next |-> next, seen |-> generation]
<1>1. request' = [request EXCEPT ![h] = s]
    BY DEF Validate
<1>2. generation \in Nat
    BY ConfigurationAssumption DEF ConfigInd, ConfigTypeOK
<1>3. s = Unset \/ ConfigRequestOK(s)
    BY <1>2 DEF ConfigRequestOK
<1> HIDE DEF s
<1> QED
    BY <1>1, <1>3, AsideSound DEF RequestOK

LEMMA PostConfigSound ==
    ASSUME ConfigInd, NEW h \in Requesters, PostConfig(h)
    PROVE  ConfigInd' /\ SavesTheRest
<1>1. PICK body \in Bodies : Validate(h, Stripped(body))
    BY DEF PostConfig
<1>2. IsUpdate(Stripped(body))
    BY ConfigurationAssumption
<1> QED
    BY <1>1, <1>2, ValidateSound DEF PostConfig

LEMMA ConfigProbedSound ==
    ASSUME ConfigInd, NEW h \in Requesters, ConfigProbed(h)
    PROVE  ConfigInd' /\ SavesTheRest
<1> DEFINE r == request[h]
<1>1. Running /\ r # Unset /\ r.op = "config"
    BY DEF ConfigProbed
<1>2. RequestOK(r)
    BY <1>1 DEF ConfigInd, RequestsSound
<1>3. ConfigRequestOK(r)
    BY <1>1, <1>2 DEF RequestOK
<1>4. CASE ~Probed(PatternsOf(r.next))
    BY <1>1, <1>4, AsideSound DEF ConfigProbed
<1>5. CASE Probed(PatternsOf(r.next)) /\ r.seen # generation
  <2>1. Validate(h, r.update) /\ UNCHANGED <<memory, generation, disk, saving>>
    BY <1>5 DEF ConfigProbed, CommitIfUnchanged
  <2> QED
    BY <1>1, <1>3, <2>1, ValidateSound DEF ConfigRequestOK
<1>6. CASE Probed(PatternsOf(r.next)) /\ r.seen = generation
  <2>1. CommitUpdate(r.next, r.update, h) /\ UNCHANGED request
    BY <1>6 DEF ConfigProbed, CommitIfUnchanged
  <2>2. request' = [request EXCEPT ![h] = r]
    <3>1. request = [k \in Requesters |-> request[k]]
      BY DEF ConfigInd
    <3> QED
      BY <2>1, <3>1
  <2>3. IsUpdate(r.update) /\ r.next = Candidate(memory, r.update) /\ IsCanonical(r.next)
    BY <1>3, <1>6 DEF ConfigRequestOK
  <2> QED
    BY <1>1, <1>2, <1>6, <2>1, <2>2, <2>3, CommitSound
<1> QED
    BY <1>4, <1>5, <1>6

LEMMA PluginSetConfigSound ==
    ASSUME ConfigInd, NEW h \in Requesters, PluginSetConfig(h)
    PROVE  ConfigInd' /\ SavesTheRest
<1>1. PICK body \in Bodies : DOMAIN body \subseteq {"self", "risk"} /\ Update(h, [op |-> "plugin"], body)
    BY DEF PluginSetConfig
<1>2. "key" \notin DOMAIN body /\ "groups" \notin DOMAIN body
    BY <1>1
<1>3. IsUpdate(body)
    BY <1>2, ConfigurationAssumption DEF Stripped
<1>4. AddsProbed(body) /\ RequestOK([op |-> "plugin"])
    BY <1>2 DEF AddsProbed, RequestOK
<1> QED
    BY <1>1, <1>3, <1>4, UpdateSound DEF PluginSetConfig

(***************************************************************************)
(* POST /groups/:groupId.                                                  *)
(***************************************************************************)
LEMMA FinishGroupSound ==
    ASSUME ConfigInd, Running, NEW h \in Requesters, NEW r, RequestOK(r), r.op = "group",
           FinishGroup(h, r)
    PROVE  ConfigInd' /\ SavesTheRest
<1>1. r.group \in Groups /\ r.full \in Group
    BY DEF RequestOK, ConfigRequestOK
<1>2. CASE ~Probed(r.full.patterns) \/ ZeroLengthWindow(r)
    BY <1>2, AsideSound DEF FinishGroup
<1>3. CASE Probed(r.full.patterns) /\ ~ZeroLengthWindow(r)
  <2> DEFINE u == [groups |-> [g \in {r.group} |-> r.full]]
  <2>1. Update(h, r, u)
    BY <1>3 DEF FinishGroup, WriteGroup
  <2>2. IsPartialGroup(r.full, {Bad})
    BY <1>1 DEF Group, IsPartialGroup
  <2>3. IsUpdate(u)
    BY <1>1, <2>2 DEF IsUpdate
  <2>4. AddsProbed(u)
    BY <1>3 DEF AddsProbed
  <2> QED
    BY <2>1, <2>3, <2>4, UpdateSound
<1> QED
    BY <1>2, <1>3

LEMMA GroupRequestTyped ==
    ASSUME ConfigInd, Up, NEW g \in Groups, NEW body \in GroupBodies
    PROVE  LET r == GroupRequest(g, body) IN r.op = "group" /\ r.group = g /\ r.full \in Group
<1> DEFINE existing == ResolveGroupConfig(Runtime, g)
<1>1. memory \in Config
    BY DEF ConfigInd, ConfigTypeOK, Up
<1>2. Runtime.risk \in BOOLEAN /\ Runtime.groups = memory.groups
    BY <1>1 DEF Runtime, ApplySecretOverrides, Config
<1>3. existing \in Group
  <2>1. GroupFallbacks(Runtime) \in Group
    BY <1>2, FallbacksTyped
  <2>2. memory.groups[g] \in Group \cup {Unset}
    BY <1>1 DEF Config
  <2> QED
    BY <1>2, <2>1, <2>2 DEF ResolveGroupConfig
<1>4. IsPartialGroup(body, {})
    BY ConfigurationAssumption
<1> HIDE DEF existing
<1>5. Over(body, existing) = [f \in {"risk", "patterns", "name", "start", "end"} |->
                                IF f \in DOMAIN body THEN body[f] ELSE existing[f]]
    BY <1>3, <1>4 DEF Over, IsPartialGroup, Group
<1>6. Over(body, existing) \in Group
    BY <1>3, <1>4, <1>5 DEF IsPartialGroup, Group
<1>7. [Over(body, existing) EXCEPT !.name = existing.name] \in Group
    BY <1>3, <1>6 DEF Group
<1> QED
    BY <1>7 DEF GroupRequest, existing

LEMMA PostGroupSound ==
    ASSUME ConfigInd, NEW h \in Requesters, PostGroup(h)
    PROVE  ConfigInd' /\ SavesTheRest
<1>1. PICK g \in Groups, body \in GroupBodies :
          LET r == GroupRequest(g, body)
          IN  IF r.full.patterns = {} THEN FinishGroup(h, r)
              ELSE /\ request' = [request EXCEPT ![h] = r]
                   /\ UNCHANGED <<memory, generation, disk, saving>>
    BY DEF PostGroup
<1> DEFINE r == GroupRequest(g, body)
<1>2. Running /\ Up
    BY DEF PostGroup, Running
<1>3. r.op = "group" /\ r.group \in Groups /\ r.full \in Group
    BY <1>2, GroupRequestTyped
<1>4. RequestOK(r)
    BY <1>3 DEF RequestOK
<1> HIDE DEF r
<1>5. CASE r.full.patterns = {}
    BY <1>1, <1>2, <1>3, <1>4, <1>5, FinishGroupSound DEF r
<1>6. CASE r.full.patterns # {}
    BY <1>1, <1>2, <1>4, <1>6, AsideSound DEF r
<1> QED
    BY <1>5, <1>6

LEMMA GroupProbedSound ==
    ASSUME ConfigInd, NEW h \in Requesters, GroupProbed(h)
    PROVE  ConfigInd' /\ SavesTheRest
<1>1. RequestOK(request[h])
    BY DEF GroupProbed, ConfigInd, RequestsSound
<1> QED
    BY <1>1, FinishGroupSound DEF GroupProbed

(***************************************************************************)
(* The group bootstrap.                                                    *)
(***************************************************************************)
LEMMA BootstrapSound ==
    ASSUME ConfigInd, NEW h \in Requesters, Bootstrap(h) \/ BotInfoFails(h) \/ GroupListFails(h)
    PROVE  ConfigInd' /\ SavesTheRest
<1>1. CASE Bootstrap(h)
  <2>1. RequestOK([op |-> "bootstrap", at |-> "info", attempt |-> 1])
    BY DEF RequestOK
  <2> QED
    BY <1>1, <2>1, AsideSound DEF Bootstrap
<1>2. CASE BotInfoFails(h)
  <2>1. RequestOK(request[h]) /\ request[h].op = "bootstrap"
    BY <1>2 DEF BotInfoFails, AtBootstrap, ConfigInd, RequestsSound
  <2>2. request[h] \in [op : {"bootstrap"}, at : {"info", "list"}, attempt : Nat]
    BY <2>1 DEF RequestOK, ConfigRequestOK
  <2>3. Retry(request[h]) = Unset \/ RequestOK(Retry(request[h]))
    BY <2>2 DEF Retry, RequestOK
  <2> QED
    BY <1>2, <2>3, AsideSound DEF BotInfoFails, AtBootstrap
<1>3. CASE GroupListFails(h)
    BY <1>3, AsideSound DEF GroupListFails, AtBootstrap
<1> QED
    BY <1>1, <1>2, <1>3

LEMMA BotInfoArrivesSound ==
    ASSUME ConfigInd, NEW h \in Requesters, BotInfoArrives(h)
    PROVE  ConfigInd' /\ SavesTheRest
<1>1. PICK id \in SelfIds : Update(h, request[h], [self |-> id])
    BY DEF BotInfoArrives
<1>2. Running /\ RequestOK(request[h])
    BY DEF BotInfoArrives, AtBootstrap, ConfigInd, RequestsSound
<1>3. IsUpdate([self |-> id]) /\ AddsProbed([self |-> id])
    BY DEF IsUpdate, AddsProbed
<1> QED
    BY <1>1, <1>2, <1>3, UpdateSound

LEMMA GroupListArrivesSound ==
    ASSUME ConfigInd, NEW h \in Requesters, GroupListArrives(h)
    PROVE  ConfigInd' /\ SavesTheRest
<1>1. PICK G \in SUBSET Groups :
          \E names \in [G -> Titles] : Update(h, request[h], [groups |-> MergeGroupList(names)])
    BY DEF GroupListArrives
<1> PICK names \in [G -> Titles] : Update(h, request[h], [groups |-> MergeGroupList(names)])
    BY <1>1
<1>2. Running /\ Up /\ RequestOK(request[h]) /\ memory \in Config
    BY DEF GroupListArrives, AtBootstrap, Running, Up, ConfigInd, ConfigTypeOK, RequestsSound
<1> DEFINE u == [groups |-> MergeGroupList(names)]
<1>3. DOMAIN u.groups = G
    BY DEF MergeGroupList
<1>4. Runtime.risk \in BOOLEAN
    BY <1>2 DEF Runtime, ApplySecretOverrides, Config
<1>5. ASSUME NEW g \in G
      PROVE  /\ IsPartialGroup(u.groups[g], {Bad})
             /\ "patterns" \in DOMAIN u.groups[g] => Probed(u.groups[g].patterns)
  <2> DEFINE title == names[g]
  <2>1. title \in Titles
    OBVIOUS
  <2>2. CASE memory.groups[g] # Unset
    <3> DEFINE new == [name |-> title]
    <3>1. u.groups[g] = new
      BY <2>2 DEF MergeGroupList
    <3>2. IsPartialGroup(new, {Bad}) /\ "patterns" \notin DOMAIN new
      BY <2>1 DEF IsPartialGroup
    <3> QED
      BY <3>1, <3>2
  <2>3. CASE memory.groups[g] = Unset
    <3> DEFINE new == [GroupFallbacks(Runtime) EXCEPT !.name = title]
    <3>1. u.groups[g] = new
      BY <2>3 DEF MergeGroupList, BuildNewGroupConfig
    <3>2. GroupFallbacks(Runtime) \in Group
      BY <1>4, FallbacksTyped
    <3>3. GroupFallbacks(Runtime).patterns = {}
      BY DEF GroupFallbacks
    <3> HIDE DEF title
    <3>4. new \in Group /\ new.patterns = {}
      BY <2>1, <3>2, <3>3 DEF Group
    <3> HIDE DEF new
    <3>5. IsPartialGroup(new, {Bad}) /\ Probed(new.patterns)
      BY <3>4 DEF IsPartialGroup, Group, Probed
    <3> QED
      BY <3>1, <3>5
  <2> QED
    BY <2>2, <2>3
<1>6. IsUpdate(u)
    BY <1>3, <1>5 DEF IsUpdate
<1>7. AddsProbed(u)
    BY <1>3, <1>5 DEF AddsProbed
<1> QED
    BY <1>2, <1>6, <1>7, UpdateSound

(***************************************************************************)
(* The end of a save, boot and the end of the process.                     *)
(***************************************************************************)
LEMMA SaveEndsSound ==
    ASSUME ConfigInd, Up, saving # Unset, saving' = Unset, UNCHANGED generation,
           disk'.now \in {disk.now, disk.tmp}, disk'.tmp = Unset,
           disk' \in [now : Config \cup {Unset, Torn}, tmp : Config \cup {Unset}],
           NEW returned \in BOOLEAN, NEW r,
           IF saving.for = Unset
           THEN UNCHANGED request /\ memory' \in {memory, Unset}
           ELSE Reply(saving.for, returned) /\ UNCHANGED memory
    PROVE  ConfigInd' /\ SavesTheRest
<1>1. /\ disk.tmp = memory /\ memory \in Config /\ Loads(memory)
      /\ saving.for # Unset => RequestOK(request[saving.for]) /\ saving.for \in Requesters
    BY ConfigurationAssumption
    DEF ConfigInd, SaveIsLive, ConfigTypeOK, Up, LiveLoads, Loads
<1>2. ConfigTypeOK'
    BY <1>1 DEF ConfigInd, ConfigTypeOK
<1>3. NextBootAccepts'
    BY <1>1 DEF ConfigInd, NextBootAccepts
<1>4. LiveLoads' /\ SaveIsLive'
    BY <1>1 DEF ConfigInd, LiveLoads, SaveIsLive, Up
<1>5. CASE saving.for = Unset
  <2>1. \A k \in Requesters : request[k] = Unset
    BY <1>5 DEF ConfigInd, RequestsSound
  <2> QED
    BY <1>2, <1>3, <1>4, <1>5, <2>1 DEF ConfigInd, RequestsSound, SavesTheRest
<1>6. CASE saving.for # Unset
  <2> DEFINE s == Continuation(request[saving.for], returned)
  <2>1. request' = [request EXCEPT ![saving.for] = s] /\ UNCHANGED <<generation, memory>>
    BY <1>6 DEF Reply
  <2>2. s = Unset \/ RequestOK(s)
    BY <1>1, <1>6, ContinuationSound
  <2> HIDE DEF s
  <2>3. request = [k \in Requesters |-> request[k]]
    BY DEF ConfigInd
  <2>4. request' = [k \in Requesters |-> IF k = saving.for THEN s ELSE request[k]]
    BY <2>1, <2>3
  <2>5. \A k \in Requesters : request[k] # Unset => RequestOK(request[k])
    BY DEF ConfigInd, RequestsSound
  <2>6. ASSUME NEW k \in Requesters, request'[k] # Unset
        PROVE  RequestOK(request[k])'
    <3>1. RequestOK(request'[k])
      BY <2>2, <2>4, <2>5, <2>6
    <3> QED
      BY <2>1, <3>1 DEF RequestOK, ConfigRequestOK
  <2>7. RequestsSound'
    BY <2>1, <2>6 DEF RequestsSound, Up
  <2> QED
    BY <1>2, <1>3, <1>4, <2>4, <2>7 DEF ConfigInd, SavesTheRest
<1> QED
    BY <1>5, <1>6

LEMMA SaveRenamesSound ==
    ASSUME ConfigInd, SaveRenames
    PROVE  ConfigInd' /\ SavesTheRest
<1>1. disk' = [now |-> disk.tmp, tmp |-> Unset] /\ disk.tmp \in Config \cup {Unset}
    BY DEF SaveRenames, ConfigInd
<1>2. /\ disk' \in [now : Config \cup {Unset, Torn}, tmp : Config \cup {Unset}]
      /\ disk'.now = disk.tmp /\ disk'.tmp = Unset
    BY <1>1
<1>3. IF saving.for = Unset THEN UNCHANGED request /\ memory' \in {memory, Unset}
                            ELSE Reply(saving.for, TRUE) /\ UNCHANGED memory
    BY DEF SaveRenames
<1> QED
    BY <1>2, <1>3, SaveEndsSound DEF SaveRenames

LEMMA SaveFailsSound ==
    ASSUME ConfigInd, SaveFails
    PROVE  ConfigInd' /\ SavesTheRest
<1>1. /\ disk' = [disk EXCEPT !.tmp = Unset]
      /\ disk \in [now : Config \cup {Unset, Torn}, tmp : Config \cup {Unset}]
    BY DEF SaveFails, ConfigInd
<1>2. /\ disk' \in [now : Config \cup {Unset, Torn}, tmp : Config \cup {Unset}]
      /\ disk'.now = disk.now /\ disk'.tmp = Unset
    BY <1>1
<1>3. IF saving.for = Unset THEN UNCHANGED request /\ memory' \in {memory, Unset}
                            ELSE Reply(saving.for, FALSE) /\ UNCHANGED memory
    BY DEF SaveFails
<1> QED
    BY <1>2, <1>3, SaveEndsSound DEF SaveFails

LEMMA DefaultsLoad == BuildDefaults \in Config /\ Loads(BuildDefaults)
<1>1. BuildDefaults \in Config
    BY DEF BuildDefaults, Config
<1>2. IntelIsValid(BuildDefaults)
    BY DEF BuildDefaults, IntelIsValid
<1>3. PatternsOf(BuildDefaults) = {}
    BY DEF BuildDefaults, PatternsOf
<1>4. WellTyped(BuildDefaults)
  <2>1. \A g \in Groups : BuildDefaults.groups[g] = Unset
    BY DEF BuildDefaults
  <2> QED
    BY <2>1, DefaultsAssumption DEF WellTyped
<1> QED
    BY <1>1, <1>2, <1>3, <1>4, ConfigurationAssumption DEF Loads, IsCanonical, Probed

LEMMA BootConfigSound ==
    ASSUME ConfigInd, BootConfig
    PROVE  ConfigInd' /\ SavesTheRest
<1>1. \A k \in Requesters : request[k] = Unset
    BY DEF BootConfig, ConfigInd, RequestsSound
<1>2. memory = Unset /\ saving = Unset
    BY DEF BootConfig, Up, ConfigInd, SaveIsLive
<1>3. memory' \in Config /\ Loads(memory')
  <2>1. CASE disk.now = Unset
    BY <2>1, DefaultsLoad DEF BootConfig
  <2>2. CASE disk.now # Unset
    BY <2>2 DEF BootConfig, ConfigInd, ConfigTypeOK, Loads
  <2> QED
    BY <2>1, <2>2
<1>4. disk' \in [now : Config \cup {Unset, Torn}, tmp : Config \cup {Unset}] /\ disk'.now = disk.now
  <2>1. disk' = disk \/ disk' = [disk EXCEPT !.tmp = BuildDefaults]
    BY DEF BootConfig, BeginSave
  <2>2. disk \in [now : Config \cup {Unset, Torn}, tmp : Config \cup {Unset}]
    BY DEF ConfigInd
  <2>3. BuildDefaults \in Config
    BY DefaultsLoad
  <2> QED
    BY <2>1, <2>2, <2>3
<1>5. generation' \in 0..MaxCommits
    BY ConfigurationAssumption DEF BootConfig, ConfigInd, ConfigTypeOK
<1>6. saving' # Unset => saving'.for = Unset /\ disk'.tmp = memory'
    BY <1>2 DEF BootConfig, BeginSave, ConfigInd
<1>7. ConfigTypeOK' /\ NextBootAccepts'
    BY <1>3, <1>4, <1>5, <1>6 DEF ConfigTypeOK, NextBootAccepts, ConfigInd
<1>8. LiveLoads' /\ SaveIsLive' /\ Up'
    BY <1>3, <1>6, ConfigurationAssumption DEF LiveLoads, SaveIsLive, Up, Loads
<1> QED
    BY <1>1, <1>2, <1>4, <1>7, <1>8 DEF BootConfig, ConfigInd, RequestsSound, SavesTheRest, Up

LEMMA ProcessDiesSound ==
    ASSUME ConfigInd, ProcessDies
    PROVE  ConfigInd' /\ SavesTheRest
<1> QED
    BY DEF ProcessDies, ConfigInd, ConfigTypeOK, NextBootAccepts, LiveLoads, SaveIsLive, Up,
           RequestsSound, SavesTheRest

(***************************************************************************)
(* The theorems of the configuration manager.                              *)
(***************************************************************************)
LEMMA ConfigInitSound == ConfigInit => ConfigInd
BY ConfigurationAssumption
DEF ConfigInit, ConfigInd, ConfigTypeOK, NextBootAccepts, Loads, LiveLoads, SaveIsLive, Up,
    RequestsSound

LEMMA ConfigStepSound ==
    ConfigInd /\ [ConfigNext]_configVars => ConfigInd' /\ SavesTheRest
<1> SUFFICES ASSUME ConfigInd, [ConfigNext]_configVars
             PROVE  ConfigInd' /\ SavesTheRest
    OBVIOUS
<1>1. CASE SaveRenames
    BY <1>1, SaveRenamesSound
<1>2. CASE SaveFails
    BY <1>2, SaveFailsSound
<1>3. CASE BootConfig
    BY <1>3, BootConfigSound
<1>4. CASE ProcessDies
    BY <1>4, ProcessDiesSound
<1>5. ASSUME NEW h \in Requesters, PostConfig(h) \/ ConfigProbed(h) \/ PluginSetConfig(h)
      PROVE  ConfigInd' /\ SavesTheRest
    BY <1>5, PostConfigSound, ConfigProbedSound, PluginSetConfigSound
<1>6. ASSUME NEW h \in Requesters, PostGroup(h) \/ GroupProbed(h)
      PROVE  ConfigInd' /\ SavesTheRest
    BY <1>6, PostGroupSound, GroupProbedSound
<1>7. ASSUME NEW h \in Requesters,
             Bootstrap(h) \/ BotInfoFails(h) \/ GroupListFails(h) \/ BotInfoArrives(h)
               \/ GroupListArrives(h)
      PROVE  ConfigInd' /\ SavesTheRest
    BY <1>7, BootstrapSound, BotInfoArrivesSound, GroupListArrivesSound
<1>8. CASE UNCHANGED configVars
    BY <1>8 DEF configVars, ConfigInd, ConfigTypeOK, NextBootAccepts, LiveLoads, SaveIsLive, Up,
                RequestsSound, RequestOK, ConfigRequestOK, SavesTheRest
<1> QED
    BY <1>1, <1>2, <1>3, <1>4, <1>5, <1>6, <1>7, <1>8 DEF ConfigNext

(* The strengthening holds in every reachable state. *)
LEMMA ConfigInductive == ConfigSpec => []ConfigInd
<1> QED
    BY ConfigInitSound, ConfigStepSound, PTL DEF ConfigSpec

(* Whatever is live or stored is a complete configuration, for any groups, *)
(* feeds and patterns, and any number of requests under way.               *)
THEOREM ConfigTypeCorrect == ConfigSpec => []ConfigTypeOK
<1>1. ConfigInd => ConfigTypeOK
    BY DEF ConfigInd
<1> QED
    BY <1>1, ConfigInductive, PTL

(* Whatever the writers do, in whatever order their probes answer, and     *)
(* wherever the process dies or a write fails, the file is one that the    *)
(* next boot accepts (updateValidated, save, init).                        *)
THEOREM FileAlwaysLoads == ConfigSpec => []NextBootAccepts
<1>1. ConfigInd => NextBootAccepts
    BY DEF ConfigInd
<1> QED
    BY <1>1, ConfigInductive, PTL

(* Neither the key of the environment nor the mask of GET /config is ever  *)
(* live in the configuration or written to the file.                       *)
THEOREM KeysStayApart == ConfigSpec => []SecretsStayApart
<1>1. ConfigInd => SecretsStayApart
    BY DEF ConfigInd, ConfigTypeOK, SecretsStayApart, Config
<1> QED
    BY <1>1, ConfigInductive, PTL

(* No update, from whichever of the four writers and however stale what it *)
(* was validated against, changes a field that it does not name.           *)
THEOREM UpdatesAreLocal == ConfigSpec => UpdateIsLocal
<1>1. ConfigInd /\ [ConfigNext]_configVars => [SavesTheRest]_configVars
    BY ConfigStepSound
<1> QED
    BY <1>1, ConfigInductive, PTL DEF ConfigSpec, UpdateIsLocal

-----------------------------------------------------------------------------
(***************************************************************************)
(* The conversion of an older file.                                        *)
(***************************************************************************)
LEMMA DetectorActionsPresent ==
    ASSUME NEW s, Convertible(s)
    PROVE  DetectorActions(s) # Missing
<1>1. CASE s.detectorActions # Missing
    BY <1>1 DEF DetectorActions
<1>2. CASE s.detectorActions = Missing /\ s.detectors = Missing
    BY <1>2, LegacyAssumption DEF DetectorActions, DetectorDefaults
<1>3. CASE s.detectorActions = Missing /\ s.detectors # Missing
  <2>1. LegacyAction(s) \in Actions
    BY <1>3 DEF Convertible, ConvertsDetectors
  <2>2. DetectorActions(s) = [d \in Detectors |-> IF s.detectors[d] = TRUE THEN LegacyAction(s) ELSE "off"]
    BY <1>3 DEF DetectorActions
  <2>3. DetectorActions(s) \in [Detectors -> Actions]
    BY <2>1, <2>2, LegacyAssumption
  <2> QED
    BY <2>3, LegacyAssumption
<1> QED
    BY <1>1, <1>2, <1>3

(* What the conversion writes satisfies the schema that the next boot      *)
(* applies to it.                                                          *)
LEMMA ConversionIsCanonical ==
    ASSUME NEW s, Convertible(s)
    PROVE  IsCanonicalFile(CreateCanonicalConfigFile(s))
<1> DEFINE file == CreateCanonicalConfigFile(s)
<1>1. /\ file.version = "current" /\ file.wrapped = TRUE /\ file.unknown = {} /\ file.flag = "true"
      /\ file.retired = {} /\ file.action = Missing /\ file.detectors = Missing
      /\ file.detectorActions = DetectorActions(s) /\ file.extensions = Captured(s)
    BY DEF CreateCanonicalConfigFile, Canonical
<1> HIDE DEF file
<1>2. RetiredFields(file) = {}
    BY <1>1 DEF RetiredFields
<1>3. NormalizeFlag(file, FALSE)
    BY <1>1 DEF NormalizeFlag
<1>4. ExtensionsAreSafe(file.extensions)
    BY <1>1 DEF Convertible
<1> QED
    BY <1>1, <1>2, <1>3, <1>4, DetectorActionsPresent DEF IsCanonicalFile, file

LEMMA LegacyStepSound ==
    LegacyInd /\ [LegacyNext]_legacyVars => LegacyInd'
<1> SUFFICES ASSUME LegacyInd, LegacyNext
             PROVE  LegacyInd'
  <2>1. UNCHANGED legacyVars => (LegacyInd => LegacyInd')
    BY DEF legacyVars, LegacyInd, CreateCanonicalConfigFile, Canonical, DetectorActions, DetectorDefaults,
           LegacyAction, Captured, RetiredFields, Convertible, ConvertsDetectors, NormalizeFlag,
           ExtensionsAreSafe, KeysOf, IsCanonicalFile
  <2> QED
    BY <2>1
<1>1. MigrateConfig
    BY DEF LegacyNext
<1>2. CASE content.wrapped /\ content.version = "current"
  <2>1. IsCanonicalFile(content) /\ content' = content /\ origin' = origin
    BY <1>1, <1>2 DEF MigrateConfig, MigrateLegacyConfig
  <2>2. report'.retired = report.retired /\ report'.preserved = content.extensions
    <3>1. IsCurrent(content) /\ Reported(content) = {}
      BY <1>2 DEF Reported, IsCurrent
    <3>2. report' = [retired |-> report.retired \cup Reported(content), preserved |-> content.extensions]
      BY <1>1, <3>1 DEF MigrateConfig
    <3> QED
      BY <3>1, <3>2
  <2>3. CASE content = origin
    BY <2>1, <2>2, <2>3 DEF LegacyInd
  <2>4. CASE content # origin
    <3>1. content = CreateCanonicalConfigFile(origin) /\ Convertible(origin)
      BY <2>4 DEF LegacyInd
    <3>2. content.extensions = Captured(origin)
      BY <3>1 DEF CreateCanonicalConfigFile, Canonical
    <3> QED
      BY <2>1, <2>2, <3>1, <3>2 DEF LegacyInd
  <2> QED
    BY <2>3, <2>4
<1>3. CASE ~(content.wrapped /\ content.version = "current")
  <2>1. content = origin
    BY <1>3 DEF LegacyInd, IsCanonicalFile
  <2>2. Convertible(origin) /\ content' = CreateCanonicalConfigFile(origin) /\ origin' = origin
    BY <1>1, <1>3, <2>1 DEF MigrateConfig, MigrateLegacyConfig
  <2>3. report'.retired = RetiredFields(origin) /\ report'.preserved = Captured(origin)
    BY <1>1, <1>3, <2>1 DEF MigrateConfig, Reported, IsCurrent, LegacyInd
  <2>4. IsCanonicalFile(content')
    BY <2>2, ConversionIsCanonical
  <2>5. content' # origin
    BY <1>3, <2>1, <2>4 DEF IsCanonicalFile
  <2> QED
    BY <2>2, <2>3, <2>4, <2>5 DEF LegacyInd
<1> QED
    BY <1>2, <1>3

(* Nothing an older release wrote is silently dropped, whatever the file   *)
(* held and however often the process boots (migrateLegacyConfig,          *)
(* captureLegacyConfigExtensions).                                         *)
THEOREM LegacyFieldsSurvive == LegacySpec => []NothingSilentlyDropped
<1>1. LegacyInit => LegacyInd
    BY DEF LegacyInit, LegacyInd
<1>2. LegacyInd => NothingSilentlyDropped
  <2> SUFFICES ASSUME LegacyInd, content # origin
               PROVE  NothingSilentlyDropped
    BY DEF NothingSilentlyDropped
  <2>1. content = CreateCanonicalConfigFile(origin)
    BY DEF LegacyInd
  <2>2. content.extensions = Captured(origin) /\ content.detectorActions = DetectorActions(origin)
    BY <2>1 DEF CreateCanonicalConfigFile, Canonical
  <2>3. IsCanonicalFile(content) /\ report.preserved = Captured(origin)
        /\ report.retired = RetiredFields(origin)
    BY DEF LegacyInd
  <2>4. content.extensions = {p \in origin.unknown : origin.wrapped \/ p[1] # "wrapper"}
    BY <2>2 DEF Captured
  <2>5. origin.detectorActions # Missing => content.detectorActions = origin.detectorActions
    BY <2>2 DEF DetectorActions
  <2>6. ConvertsDetectors(origin) =>
          \A d \in Detectors :
             content.detectorActions[d] =
                IF origin.detectors[d] = TRUE THEN LegacyAction(origin) ELSE "off"
    BY <2>2 DEF DetectorActions, ConvertsDetectors
  <2> QED
    BY <2>2, <2>3, <2>4, <2>5, <2>6 DEF NothingSilentlyDropped
<1> QED
    BY <1>1, <1>2, LegacyStepSound, PTL DEF LegacySpec

-----------------------------------------------------------------------------
(***************************************************************************)
(* The self-update.  First what leaves the runtime files and their backups *)
(* alone.                                                                  *)
(***************************************************************************)
Artifacts == [Versions -> [final : Asset, unverified : Asset]]
UpdateRequests == [Requests -> UpdateRequest \cup {Nil}]

LEMMA RequestStepSound ==
    ASSUME UpdateInd, UNCHANGED <<plugin, applying, backups>>,
           published' \in [Versions -> [archive : Asset, checksum : Asset]],
           stored' \in Artifacts, updateRequest' \in UpdateRequests,
           updateLock' \in Requests \cup {Nil}
    PROVE  UpdateInd'
<1>1. \A v \in Versions : {stored'[v].final, stored'[v].unverified} \subseteq Asset
    BY DEF Artifacts
<1>2. UpdateTypeOK'
    BY <1>1 DEF UpdateInd, UpdateTypeOK, Asset
<1>3. MixIsRecoverable' /\ (~Idle => ApplyingSound)'
    BY DEF UpdateInd, MixIsRecoverable, ApplyingSound, Idle, Uniform
<1> QED
    BY <1>2, <1>3 DEF UpdateInd, Artifacts, UpdateRequests

LEMMA GoTyped ==
    ASSUME updateRequest \in UpdateRequests, NEW h \in Requests, updateRequest[h] # Nil,
           NEW stage \in {"queued", "archive", "checksum", "hash", "attestation", "install"},
           Go(h, stage)
    PROVE  updateRequest' \in UpdateRequests
<1>1. updateRequest[h] \in UpdateRequest
    BY DEF UpdateRequests
<1>2. [updateRequest[h] EXCEPT !.at = stage] \in UpdateRequest
    BY <1>1 DEF UpdateRequest
<1>3. updateRequest' = [updateRequest EXCEPT ![h] = [updateRequest[h] EXCEPT !.at = stage]]
    BY DEF Go
<1> QED
    BY <1>2, <1>3 DEF UpdateRequests

LEMMA FinishTyped ==
    ASSUME updateRequest \in UpdateRequests, NEW h \in Requests, Finish(h)
    PROVE  updateRequest' \in UpdateRequests
BY DEF Finish, UpdateRequests

LEMMA StoreTyped ==
    ASSUME stored \in Artifacts, updateRequest \in UpdateRequests,
           NEW h \in Requests, updateRequest[h] # Nil,
           NEW slot \in {"final", "unverified"}, NEW a \in Asset, Store(h, slot, a)
    PROVE  stored' \in Artifacts
<1>1. updateRequest[h].version \in Versions
    BY DEF UpdateRequests, UpdateRequest
<1> DEFINE v == updateRequest[h].version
<1>2. stored[v] \in [final : Asset, unverified : Asset]
    BY <1>1 DEF Artifacts
<1>3. [stored[v] EXCEPT ![slot] = a] \in [final : Asset, unverified : Asset]
    BY <1>2
<1>4. stored' = [stored EXCEPT ![v] = [stored[v] EXCEPT ![slot] = a]]
    BY DEF Store
<1> QED
    BY <1>1, <1>3, <1>4 DEF Artifacts

LEMMA DownloadSound ==
    ASSUME UpdateInd, NEW h \in Requests,
           \/ Resolve(h) \/ BeginDownload(h) \/ ArchiveArrives(h) \/ Abandon(h)
           \/ ChecksumArrives(h) \/ Hashed(h) \/ Attested(h) \/ InstallRefused(h)
    PROVE  UpdateInd'
<1>1. stored \in Artifacts /\ updateRequest \in UpdateRequests /\ Nil \in Asset
    BY DEF UpdateInd, Artifacts, UpdateRequests, Asset
<1>2. published \in [Versions -> [archive : Asset, checksum : Asset]]
      /\ updateLock \in Requests \cup {Nil}
    BY DEF UpdateInd, UpdateTypeOK
<1>3. updateRequest[h] # Nil => updateRequest[h] \in UpdateRequest
    BY <1>1 DEF UpdateRequests
<1>4. CASE Resolve(h)
  <2>1. PICK v \in Versions, op \in {"download", "install"} :
            updateRequest' = [updateRequest EXCEPT ![h] =
                [op |-> op, version |-> v, at |-> "queued", expected |-> Nil, digest |-> Nil]]
    BY <1>4 DEF Resolve
  <2>2. [op |-> op, version |-> v, at |-> "queued", expected |-> Nil, digest |-> Nil] \in UpdateRequest
    BY <1>1 DEF UpdateRequest
  <2>3. updateRequest' \in UpdateRequests
    BY <1>1, <2>1, <2>2 DEF UpdateRequests
  <2> QED
    BY <1>1, <1>2, <1>4, <2>3, RequestStepSound DEF Resolve
<1>5. CASE BeginDownload(h)
  <2>1. updateRequest' \in UpdateRequests
    BY <1>1, <1>5, GoTyped, FinishTyped DEF BeginDownload, At
  <2> QED
    BY <1>1, <1>2, <1>5, <2>1, RequestStepSound DEF BeginDownload
<1>6. CASE ArchiveArrives(h)
  <2>1. published[updateRequest[h].version].archive \in Asset
    BY <1>2, <1>3, <1>6 DEF ArchiveArrives, At, UpdateRequest
  <2>2. updateRequest' \in UpdateRequests
    BY <1>1, <1>6, GoTyped DEF ArchiveArrives, At
  <2>3. stored' \in Artifacts
    BY <1>1, <1>6, <2>1, StoreTyped DEF ArchiveArrives, At
  <2> QED
    BY <1>2, <1>6, <2>2, <2>3, RequestStepSound DEF ArchiveArrives
<1>7. CASE Abandon(h)
  <2>1. updateRequest' \in UpdateRequests /\ updateLock' = Nil
    BY <1>1, <1>7, FinishTyped DEF Abandon, GiveUp
  <2>2. stored' \in Artifacts
    BY <1>1, <1>7, StoreTyped DEF Abandon, At
  <2> QED
    BY <1>2, <1>7, <2>1, <2>2, RequestStepSound DEF Abandon
<1>8. CASE ChecksumArrives(h)
  <2> DEFINE c == published[updateRequest[h].version].checksum
             r == [updateRequest[h] EXCEPT !.at = "hash", !.expected = c]
  <2>1. c \in Asset
    BY <1>2, <1>3, <1>8 DEF ChecksumArrives, At, UpdateRequest
  <2>2. r \in UpdateRequest
    BY <1>3, <1>8, <2>1 DEF ChecksumArrives, At, UpdateRequest
  <2>3. updateRequest' = [updateRequest EXCEPT ![h] = r]
    BY <1>8 DEF ChecksumArrives
  <2>4. updateRequest' \in UpdateRequests
    BY <1>1, <2>2, <2>3 DEF UpdateRequests
  <2> QED
    BY <1>1, <1>2, <1>8, <2>4, RequestStepSound DEF ChecksumArrives
<1>9. CASE Hashed(h)
  <2>1. CASE ChecksumMatches(h)
    <3> DEFINE r == [updateRequest[h] EXCEPT !.at = "attestation", !.digest = updateRequest[h].expected]
    <3>1. updateRequest' = [updateRequest EXCEPT ![h] = r]
      BY <1>9, <2>1 DEF Hashed
    <3>2. r \in UpdateRequest
      BY <1>3, <1>9 DEF Hashed, At, UpdateRequest
    <3>3. updateRequest' \in UpdateRequests
      BY <1>1, <3>1, <3>2 DEF UpdateRequests
    <3> QED
      BY <1>1, <1>2, <1>9, <2>1, <3>3, RequestStepSound DEF Hashed
  <2>2. CASE ~ChecksumMatches(h)
    <3>1. updateRequest' \in UpdateRequests /\ updateLock' = Nil
      BY <1>1, <1>9, <2>2, FinishTyped DEF Hashed, GiveUp
    <3>2. stored' \in Artifacts
      BY <1>1, <1>9, <2>2, StoreTyped DEF Hashed, At
    <3> QED
      BY <1>2, <1>9, <3>1, <3>2, RequestStepSound DEF Hashed
  <2> QED
    BY <2>1, <2>2
<1>10. CASE Attested(h)
  <2> DEFINE v == updateRequest[h].version
  <2>1. /\ \/ /\ stored' = [stored EXCEPT ![v] = [final |-> stored[v].unverified, unverified |-> Nil]]
              /\ updateLock' = Nil
              /\ Go(h, "install") \/ Finish(h)
           \/ GiveUp(h) /\ Store(h, "unverified", Nil)
        /\ UNCHANGED <<published, plugin, applying, backups>>
        /\ updateRequest[h] # Nil
    BY <1>10 DEF Attested, At
  <2>2. updateRequest' \in UpdateRequests /\ updateLock' = Nil
    BY <1>1, <2>1, GoTyped, FinishTyped DEF GiveUp
  <2>3. v \in Versions
    BY <1>3, <2>1 DEF UpdateRequest
  <2>4. [final |-> stored[v].unverified, unverified |-> Nil] \in [final : Asset, unverified : Asset]
    BY <1>1, <2>3 DEF Artifacts
  <2>5. stored' \in Artifacts
    <3>1. CASE stored' = [stored EXCEPT ![v] = [final |-> stored[v].unverified, unverified |-> Nil]]
      BY <1>1, <2>3, <2>4, <3>1 DEF Artifacts
    <3>2. CASE Store(h, "unverified", Nil)
      BY <1>1, <2>1, <3>2, StoreTyped
    <3> QED
      BY <2>1, <3>1, <3>2
  <2> QED
    BY <1>2, <2>1, <2>2, <2>5, RequestStepSound
<1>11. CASE InstallRefused(h)
  <2>1. updateRequest' \in UpdateRequests
    BY <1>1, <1>11, FinishTyped DEF InstallRefused
  <2> QED
    BY <1>1, <1>2, <1>11, <2>1, RequestStepSound DEF InstallRefused
<1> QED
    BY <1>4, <1>5, <1>6, <1>7, <1>8, <1>9, <1>10, <1>11

LEMMA OutsideSound ==
    ASSUME UpdateInd, Republish \/ RepublishChecksum \/ ArtifactChanges \/ UpdateCrash
    PROVE  UpdateInd'
<1> DEFINE Releases == [Versions -> [archive : Asset, checksum : Asset]]
<1>1. stored \in Artifacts /\ updateRequest \in UpdateRequests /\ published \in Releases
      /\ updateLock \in Requests \cup {Nil}
    BY DEF UpdateInd, UpdateTypeOK, Artifacts, UpdateRequests
<1>2. CASE Republish
  <2>1. PICK v \in Versions, a \in Archives :
            published' = [published EXCEPT ![v] = [archive |-> a, checksum |-> a]]
    BY <1>2 DEF Republish
  <2>2. published' \in Releases
    BY <1>1, <2>1 DEF Asset
  <2> QED
    BY <1>1, <1>2, <2>2, RequestStepSound DEF Republish
<1>3. CASE RepublishChecksum
  <2>1. PICK v \in Versions, a \in Asset : published' = [published EXCEPT ![v].checksum = a]
    BY <1>3 DEF RepublishChecksum, Asset
  <2>2. [published[v] EXCEPT !.checksum = a] \in [archive : Asset, checksum : Asset]
    BY <1>1
  <2>3. published' \in Releases
    BY <1>1, <2>1, <2>2
  <2> QED
    BY <1>1, <1>3, <2>3, RequestStepSound DEF RepublishChecksum
<1>4. CASE ArtifactChanges
  <2>1. PICK v \in Versions, a \in Asset : stored' = [stored EXCEPT ![v].final = a]
    BY <1>4 DEF ArtifactChanges, Asset
  <2>2. [stored[v] EXCEPT !.final = a] \in [final : Asset, unverified : Asset]
    BY <1>1 DEF Artifacts
  <2>3. stored' \in Artifacts
    BY <1>1, <2>1, <2>2 DEF Artifacts
  <2> QED
    BY <1>1, <1>4, <2>3, RequestStepSound DEF ArtifactChanges
<1>5. CASE UpdateCrash
  <2>1. updateRequest' \in UpdateRequests
    BY <1>5 DEF UpdateCrash, UpdateRequests
  <2> QED
    BY <1>5, <2>1
    DEF UpdateCrash, UpdateInd, UpdateTypeOK, MixIsRecoverable, Idle, Uniform, UpdateRequests
<1> QED
    BY <1>2, <1>3, <1>4, <1>5

(***************************************************************************)
(* The application of an archive: a complete copy first, then one file     *)
(* after the other, and back again when one cannot be replaced.            *)
(***************************************************************************)
LEMMA BeginInstallSound ==
    ASSUME UpdateInd, NEW h \in Requests, BeginInstall(h)
    PROVE  UpdateInd'
<1> DEFINE r == updateRequest[h]
           a == stored[r.version].final
<1>1. r \in UpdateRequest
    BY DEF BeginInstall, At, UpdateInd
<1>2. r.version \in Versions
    BY <1>1 DEF UpdateRequest
<1>3. a \in Archives /\ a.release \in Versions
    BY <1>2 DEF BeginInstall, UnchangedSinceVerified, ManifestsMatch, UpdateInd, Asset
<1>4. plugin \in [Files -> Versions \cup {0}] /\ backups \subseteq [Files -> Versions \cup {0}]
      /\ updateLock \in Requests \cup {Nil}
    BY DEF UpdateInd, UpdateTypeOK
<1>5. /\ backups' = backups \cup {plugin} /\ plugin' = plugin /\ Finish(h)
      /\ applying' = [archive |-> a, left |-> Files, replaced |-> {}, old |-> plugin,
                      phase |-> "replacing", damaged |-> FALSE]
      /\ UNCHANGED <<published, updateLock, stored>>
    BY DEF BeginInstall, Backup
<1>6. applying' \in Applying
    BY <1>3, <1>4, <1>5 DEF Applying
<1>7. \E b \in backups' : Uniform(b)
    BY <1>5 DEF UpdateInd, MixIsRecoverable
<1>8. ApplyingSound'
    BY <1>3, <1>5, <1>6, <1>7 DEF ApplyingSound, Uniform
<1>9. updateRequest' \in [Requests -> UpdateRequest \cup {Nil}]
    BY <1>5, FinishTyped DEF UpdateInd, UpdateRequests
<1>10. MixIsRecoverable'
    BY <1>7 DEF MixIsRecoverable, Uniform
<1> QED
    BY <1>4, <1>5, <1>8, <1>9, <1>10 DEF UpdateInd, UpdateTypeOK

LEMMA ReplaceFileSound ==
    ASSUME UpdateInd, ReplaceFile
    PROVE  UpdateInd'
<1>1. PICK f \in applying.left :
          /\ plugin' = [plugin EXCEPT ![f] = applying.archive.release]
          /\ applying' = [applying EXCEPT !.left = @ \ {f}, !.replaced = @ \cup {f}]
    BY DEF ReplaceFile
<1>2. ~Idle /\ applying.phase = "replacing" /\ ApplyingSound
      /\ UNCHANGED <<published, updateRequest, updateLock, stored, backups>>
    BY DEF ReplaceFile, UpdateInd
<1>3. applying \in Applying
    BY <1>2 DEF ApplyingSound
<1>4. f \in Files /\ f \notin applying.replaced
    BY <1>1, <1>2, <1>3 DEF ApplyingSound, Applying
<1>5. plugin \in [Files -> Versions \cup {0}] /\ plugin' \in [Files -> Versions \cup {0}]
    BY <1>1, <1>2, <1>4 DEF UpdateInd, UpdateTypeOK, ApplyingSound
<1>6. /\ applying' \in Applying
      /\ applying'.archive = applying.archive /\ applying'.old = applying.old
      /\ applying'.left = applying.left \ {f} /\ applying'.replaced = applying.replaced \cup {f}
      /\ applying'.phase = applying.phase /\ applying'.damaged = applying.damaged
    BY <1>1, <1>3, <1>4 DEF Applying
<1>7. \A g \in Files : plugin'[g] = IF g = f THEN applying.archive.release ELSE plugin[g]
    BY <1>1, <1>4, <1>5
<1>8. applying.replaced \subseteq Files
    BY <1>3 DEF Applying
<1>9. ApplyingSound'
    BY <1>2, <1>4, <1>6, <1>7, <1>8 DEF ApplyingSound, Uniform
<1>10. MixIsRecoverable'
    BY <1>2 DEF ApplyingSound, MixIsRecoverable, Uniform
<1> QED
    BY <1>2, <1>5, <1>9, <1>10 DEF UpdateInd, UpdateTypeOK

LEMMA ReplaceFailsSound ==
    ASSUME UpdateInd, ReplaceFails
    PROVE  UpdateInd'
<1>1. /\ applying' = [applying EXCEPT !.phase = "restoring"]
      /\ UNCHANGED <<published, updateRequest, updateLock, stored, plugin, backups>>
      /\ ApplyingSound
    BY DEF ReplaceFails, UpdateInd
<1>2. /\ applying' \in Applying
      /\ applying'.archive = applying.archive /\ applying'.old = applying.old
      /\ applying'.replaced = applying.replaced /\ applying'.phase = "restoring"
      /\ applying'.damaged = applying.damaged
    BY <1>1 DEF ApplyingSound, Applying
<1>3. ApplyingSound' /\ MixIsRecoverable'
    BY <1>1, <1>2 DEF ApplyingSound, MixIsRecoverable, Uniform
<1> QED
    BY <1>1, <1>3 DEF UpdateInd, UpdateTypeOK

LEMMA RestoreFileSound ==
    ASSUME UpdateInd, RestoreFile
    PROVE  UpdateInd'
<1>1. PICK f \in applying.replaced, written \in BOOLEAN :
          /\ plugin' = IF written THEN [plugin EXCEPT ![f] = applying.old[f]] ELSE plugin
          /\ applying' = [applying EXCEPT !.replaced = @ \ {f}, !.damaged = @ \/ ~written]
    BY DEF RestoreFile
<1>2. applying.phase = "restoring" /\ ApplyingSound
      /\ UNCHANGED <<published, updateRequest, updateLock, stored, backups>>
    BY DEF RestoreFile, UpdateInd
<1>3. applying \in Applying
    BY <1>2 DEF ApplyingSound
<1>4. f \in Files /\ applying.old \in [Files -> Versions \cup {0}] /\ applying.damaged \in BOOLEAN
    BY <1>3 DEF Applying
<1>5. plugin \in [Files -> Versions \cup {0}] /\ plugin' \in [Files -> Versions \cup {0}]
    BY <1>1, <1>4 DEF UpdateInd, UpdateTypeOK
<1>6. /\ applying' \in Applying
      /\ applying'.archive = applying.archive /\ applying'.old = applying.old
      /\ applying'.replaced = applying.replaced \ {f} /\ applying'.phase = applying.phase
      /\ applying'.damaged = (applying.damaged \/ ~written)
  <2> DEFINE damaged == applying.damaged \/ ~written
             replaced == applying.replaced \ {f}
  <2>1. damaged \in BOOLEAN /\ replaced \in SUBSET Files
    BY <1>3 DEF Applying
  <2>2. applying' = [applying EXCEPT !.replaced = replaced, !.damaged = damaged]
    BY <1>1
  <2> HIDE DEF damaged, replaced
  <2>3. /\ applying' \in Applying
        /\ applying'.archive = applying.archive /\ applying'.old = applying.old
        /\ applying'.replaced = replaced /\ applying'.phase = applying.phase
        /\ applying'.damaged = damaged
    BY <1>3, <2>1, <2>2 DEF Applying
  <2> QED
    BY <2>3 DEF damaged, replaced
<1>7. \A g \in Files : g # f => plugin'[g] = plugin[g]
    BY <1>1, <1>4, <1>5
<1>8. written => plugin'[f] = applying.old[f]
    BY <1>1, <1>4, <1>5
<1>9. ~applying'.damaged => \A g \in Files \ applying'.replaced : plugin'[g] = applying'.old[g]
    BY <1>2, <1>6, <1>7, <1>8 DEF ApplyingSound
<1>10. ApplyingSound' /\ MixIsRecoverable'
    BY <1>2, <1>6, <1>9 DEF ApplyingSound, MixIsRecoverable, Uniform
<1> QED
    BY <1>2, <1>5, <1>10 DEF UpdateInd, UpdateTypeOK

LEMMA ApplyEndsSound ==
    ASSUME UpdateInd, ApplyEnds
    PROVE  UpdateInd' /\ ReportsTruly
<1>1. /\ applying' = Nil /\ ApplyingSound
      /\ UNCHANGED <<published, updateRequest, updateLock, stored, plugin, backups>>
    BY DEF ApplyEnds, UpdateInd
<1>2. MixIsRecoverable'
    BY <1>1 DEF UpdateInd, MixIsRecoverable, Uniform
<1>3. UpdateInd'
    BY <1>1, <1>2 DEF UpdateInd, UpdateTypeOK, Idle
<1>4. plugin \in [Files -> Versions \cup {0}] /\ applying.old \in [Files -> Versions \cup {0}]
    BY <1>1 DEF ApplyingSound, Applying, UpdateInd, UpdateTypeOK
<1>5. CASE applying.phase = "replacing" /\ applying.left = {} /\ outcome' = "installed"
  <2>1. \A f \in Files : plugin[f] = applying.archive.release
    BY <1>1, <1>5 DEF ApplyingSound
  <2>2. plugin = [f \in Files |-> applying.archive.release]
    BY <1>4, <2>1
  <2> QED
    BY <1>3, <1>5, <2>2 DEF ReportsTruly
<1>6. CASE applying.phase = "restoring" /\ applying.replaced = {} /\ outcome' = Report
  <2>1. outcome' = "restored" => ~applying.damaged
    BY <1>6 DEF Report
  <2>2. ~applying.damaged => \A f \in Files : plugin[f] = applying.old[f]
    BY <1>1, <1>6 DEF ApplyingSound
  <2>3. outcome' = "restored" => plugin = applying.old
    BY <1>4, <2>1, <2>2
  <2>4. outcome' # "installed"
    BY <1>6 DEF Report
  <2> QED
    BY <1>3, <2>3, <2>4 DEF ReportsTruly
<1> QED
    BY <1>5, <1>6 DEF ApplyEnds

LEMMA UpdateInitSound == UpdateInit => UpdateInd
<1> SUFFICES ASSUME UpdateInit
             PROVE  UpdateInd
    OBVIOUS
<1>1. PICK v \in Versions, a \in Archives :
          published = [w \in Versions |-> IF w = v THEN [archive |-> a, checksum |-> a]
                                          ELSE [archive |-> Nil, checksum |-> Nil]]
    BY DEF UpdateInit
<1>2. published \in [Versions -> [archive : Asset, checksum : Asset]]
    BY <1>1 DEF Asset
<1>3. stored \in [Versions -> [final : Asset, unverified : Asset]]
    BY DEF UpdateInit, NotStored, Asset
<1>4. \A w \in Versions : {stored[w].final, stored[w].unverified} \subseteq Asset
    BY <1>3
<1>5. UpdateTypeOK
    BY <1>4 DEF UpdateInit, UpdateTypeOK, Asset
<1>6. Uniform(plugin)
    BY DEF UpdateInit, Uniform
<1> QED
    BY <1>2, <1>3, <1>5, <1>6 DEF UpdateInit, UpdateInd, MixIsRecoverable, Idle

(* The two facts about a step that the theorems on actions need. *)
LEMMA UpdateStepSound ==
    ASSUME UpdateInd, [UpdateNext]_updateVars
    PROVE  UpdateInd' /\ ReportsTruly
<1>1. CASE ReplaceFile
  <2>1. applying' # Nil
    <3>1. applying \in Applying
      BY <1>1 DEF ReplaceFile, UpdateInd, ApplyingSound
    <3>2. PICK f : applying' = [applying EXCEPT !.left = @ \ {f}, !.replaced = @ \cup {f}]
                  /\ f \in applying.left
      BY <1>1 DEF ReplaceFile
    <3>3. applying' \in Applying
      BY <3>1, <3>2 DEF Applying
    <3> QED
      BY <3>3, NilAssumption
  <2> QED
    BY <1>1, <2>1, ReplaceFileSound DEF ReportsTruly
<1>2. CASE ReplaceFails
  <2>1. applying \in Applying /\ applying' = [applying EXCEPT !.phase = "restoring"]
    BY <1>2 DEF ReplaceFails, UpdateInd, ApplyingSound
  <2>2. applying' \in Applying
    BY <2>1 DEF Applying
  <2> QED
    BY <1>2, <2>2, ReplaceFailsSound, NilAssumption DEF ReportsTruly
<1>3. CASE RestoreFile
  <2>1. applying.damaged \in BOOLEAN /\ applying \in Applying
    BY <1>3 DEF RestoreFile, UpdateInd, ApplyingSound, Applying
  <2>2. PICK f \in applying.replaced, written \in BOOLEAN :
            applying' = [applying EXCEPT !.replaced = @ \ {f}, !.damaged = @ \/ ~written]
    BY <1>3 DEF RestoreFile
  <2> DEFINE damaged == applying.damaged \/ ~written
             replaced == applying.replaced \ {f}
  <2>3. damaged \in BOOLEAN /\ replaced \in SUBSET Files
    BY <2>1 DEF Applying
  <2>4. applying' = [applying EXCEPT !.replaced = replaced, !.damaged = damaged]
    BY <2>2
  <2> HIDE DEF damaged, replaced
  <2>5. applying' \in Applying
    BY <2>1, <2>3, <2>4 DEF Applying
  <2> QED
    BY <1>3, <2>5, RestoreFileSound, NilAssumption DEF ReportsTruly
<1>4. CASE ApplyEnds
    BY <1>4, ApplyEndsSound
<1>5. CASE Republish \/ RepublishChecksum \/ ArtifactChanges
    BY <1>5, OutsideSound DEF Republish, RepublishChecksum, ArtifactChanges, ReportsTruly
<1>6. CASE UpdateCrash
    BY <1>6, OutsideSound DEF UpdateCrash, ReportsTruly
<1>7. ASSUME NEW h \in Requests,
             \/ Resolve(h) \/ BeginDownload(h) \/ ArchiveArrives(h) \/ Abandon(h)
             \/ ChecksumArrives(h) \/ Hashed(h) \/ Attested(h) \/ InstallRefused(h)
      PROVE  UpdateInd' /\ ReportsTruly
  <2>1. applying' = applying
    BY <1>7 DEF Resolve, BeginDownload, ArchiveArrives, Abandon, ChecksumArrives, Hashed, Attested,
                InstallRefused
  <2> QED
    BY <1>7, <2>1, DownloadSound DEF ReportsTruly, Idle
<1>8. ASSUME NEW h \in Requests, BeginInstall(h)
      PROVE  UpdateInd' /\ ReportsTruly
    BY <1>8, BeginInstallSound DEF BeginInstall, At, ReportsTruly
<1>9. CASE UNCHANGED updateVars
  <2>1. UpdateInd'
    BY <1>9, RequestStepSound
    DEF updateVars, UpdateInd, UpdateTypeOK, Artifacts, UpdateRequests
  <2> QED
    BY <1>9, <2>1 DEF updateVars, ReportsTruly, Idle
<1> QED
    BY <1>1, <1>2, <1>3, <1>4, <1>5, <1>6, <1>7, <1>8, <1>9 DEF UpdateNext

(* The strengthening holds in every reachable state. *)
LEMMA UpdateInductive == UpdateSpec => []UpdateInd
<1> QED
    BY UpdateInitSound, UpdateStepSound, PTL DEF UpdateSpec

(* The types of the self-update: an artifact, a runtime file and a backup  *)
(* are always of a known release.                                          *)
THEOREM UpdateTypeCorrect == UpdateSpec => []UpdateTypeOK
<1>1. UpdateInd => UpdateTypeOK
    BY DEF UpdateInd
<1> QED
    BY <1>1, UpdateInductive, PTL

(* Wherever a crash or a write error leaves the runtime files, they are of *)
(* one version or a complete backup of one version exists.                 *)
THEOREM AnyMixCanBeRestored == UpdateSpec => []MixIsRecoverable
<1>1. UpdateInd => MixIsRecoverable
    BY DEF UpdateInd
<1> QED
    BY <1>1, UpdateInductive, PTL

(* What an update reports at its end is what became of the files.          *)
THEOREM UpdateReportIsTrue == UpdateSpec => ResultIsTrue
<1>1. UpdateInd /\ [UpdateNext]_updateVars => [ReportsTruly]_updateVars
    BY UpdateStepSound
<1> QED
    BY <1>1, UpdateInductive, PTL DEF UpdateSpec, ResultIsTrue

(* An install applies the archive that it verified itself, whatever        *)
(* happened to the release and to the stored file in between.              *)
THEOREM InstallAppliesVerified == UpdateSpec => AppliesWhatItVerified
<1> DEFINE A == \A h \in Requests :
                    (Idle /\ applying' # Nil /\ updateRequest'[h] # updateRequest[h]) =>
                       applying'.archive = updateRequest[h].digest
<1>1. UpdateInd /\ [UpdateNext]_updateVars => [A]_updateVars
  <2> SUFFICES ASSUME UpdateInd, UpdateNext, NEW h \in Requests, Idle, applying' # Nil,
                      updateRequest'[h] # updateRequest[h]
               PROVE  applying'.archive = updateRequest[h].digest
    OBVIOUS
  <2>1. PICK k \in Requests : BeginInstall(k)
    BY DEF UpdateNext, Idle, ReplaceFile, ReplaceFails, RestoreFile, ApplyEnds, Republish,
           RepublishChecksum, ArtifactChanges, UpdateCrash, Resolve, BeginDownload, ArchiveArrives,
           Abandon, ChecksumArrives, Hashed, Attested, InstallRefused
  <2>2. updateRequest' = [updateRequest EXCEPT ![k] = Nil]
    BY <2>1 DEF BeginInstall, Finish
  <2>3. k = h
    BY <2>2 DEF UpdateInd
  <2> QED
    BY <2>1, <2>3 DEF BeginInstall, UnchangedSinceVerified
<1> QED
    BY <1>1, UpdateInductive, PTL DEF UpdateSpec, AppliesWhatItVerified
===============================================================================
