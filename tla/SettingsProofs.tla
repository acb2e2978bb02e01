--------------------------- MODULE SettingsProofs ---------------------------
(***************************************************************************)
(* Theorems about Settings, for any servers and any number of updates,     *)
(* faults and restarts.                                                    *)
(***************************************************************************)
EXTENDS Settings, TLAPS

-----------------------------------------------------------------------------
(* Values and files *)

\* What a directory may be set to: for IMAP there is no password.
Allowed(d, v) == v \in Value /\ (d = "imap" => ~v.password)

\* A section or file that is whole holds such a value.
Holds(d, f) == f = Absent \/ f = Torn \/ \E v \in Value : f = Whole(v) /\ Allowed(d, v)

Section(d, f) == Holds(d, f) /\ f # Torn

Document(f) ==
    \/ f \in {Absent, Torn, Empty}
    \/ \E l, i : /\ f = [kind |-> "map", ldap |-> l, imap |-> i]
                 /\ Section("ldap", l) /\ Section("imap", i)

LEMMA HoldsAnOverride ==
  ASSUME NEW d \in Dirs, NEW f, Holds(d, f)
  PROVE  f \in Override
  BY DEF Holds, Override

LEMMA WholeSection ==
  ASSUME NEW d \in Dirs, NEW v, Allowed(d, v)
  PROVE  Section(d, Whole(v))
  BY DEF Allowed, Section, Holds, Whole, Torn

LEMMA AbsentSection ==
  ASSUME NEW d \in Dirs
  PROVE  Section(d, Absent)
  BY DEF Section, Holds, Absent, Torn

LEMMA DocumentOf ==
  ASSUME NEW s, \A d \in Dirs : Section(d, s[d])
  PROVE  Document(Sections(s))
  BY DEF Document, Sections, Dirs

LEMMA DocumentType ==
  ASSUME NEW f, Document(f)
  PROVE  f \in ConfigFile
  <1>1. CASE f \in {Absent, Torn, Empty}
    BY <1>1 DEF ConfigFile
  <1>2. ASSUME NEW l, NEW i, f = [kind |-> "map", ldap |-> l, imap |-> i],
               Section("ldap", l), Section("imap", i)
        PROVE  f \in ConfigFile
    <2> DEFINE s == [d \in Dirs |-> IF d = "ldap" THEN l ELSE i]
    <2>1. s \in [Dirs -> Override \ {Torn}]
      BY <1>2, HoldsAnOverride DEF Section, Dirs
    <2>2. f = Sections(s)
      BY <1>2 DEF Sections, Dirs
    <2> QED BY <2>1, <2>2 DEF ConfigFile
  <1> QED BY <1>1, <1>2 DEF Document

LEMMA BuiltinValues ==
  ASSUME NEW d \in Dirs
  PROVE  Allowed(d, Default) /\ Allowed(d, Written)
  BY DEF Allowed, Default, Written, Value

LEMMA OriginalDocument ==
  ASSUME NEW f \in Original
  PROVE  Document(f)
  <1>1. \A d \in Dirs : Section(d, Whole(Written)) /\ Section(d, Absent)
    BY BuiltinValues, WholeSection, AbsentSection
  <1>2. Document(Sections([d \in Dirs |-> Whole(Written)]))
    BY <1>1, DocumentOf
  <1>3. Document(Sections([d \in Dirs |-> Absent]))
    BY <1>1, DocumentOf
  <1>4. CASE f \in {Absent, Empty}
    BY <1>4 DEF Document
  <1> QED BY <1>2, <1>3, <1>4 DEF Original

LEMMA CutDocument ==
  ASSUME NEW s, \A d \in Dirs : Allowed(d, s[d]),
         NEW f \in Cut(Sections([d \in Dirs |-> Whole(s[d])]))
  PROVE  Document(f)
  <1> DEFINE w == [d \in Dirs |-> Whole(s[d])]
             short == [s["ldap"] EXCEPT !.password = FALSE]
  <1>1. Section("ldap", Whole(s["ldap"])) /\ Section("imap", Whole(s["imap"]))
    BY WholeSection DEF Dirs
  <1>2. Allowed("ldap", short)
    BY DEF Allowed, Dirs, Value
  <1>3. Section("ldap", Whole(short)) /\ Section("ldap", Absent) /\ Section("imap", Absent)
    BY <1>2, WholeSection, AbsentSection DEF Dirs
  <1>4. Sections(w) = [kind |-> "map", ldap |-> Whole(s["ldap"]), imap |-> Whole(s["imap"])]
    BY DEF Sections, Dirs
  <1>5. Sections(w).imap = Whole(s["imap"]) /\ Sections(w).ldap.value = s["ldap"]
    BY <1>4 DEF Whole
  <1>6. CutSections(Sections(w)) =
           {[kind |-> "map", ldap |-> Whole(s["ldap"]), imap |-> Whole(s["imap"])],
            [kind |-> "map", ldap |-> Absent, imap |-> Absent],
            [kind |-> "map", ldap |-> Absent, imap |-> Whole(s["imap"])],
            [kind |-> "map", ldap |-> Whole(short), imap |-> Whole(s["imap"])]}
    <2> HIDE DEF w
    <2> QED BY <1>4, <1>5 DEF CutSections, Sections
  <1>7. f \in {Empty, Torn} \/ f \in CutSections(Sections(w))
    BY DEF Cut
  <1> HIDE DEF w, short
  <1> QED BY <1>1, <1>3, <1>6, <1>7 DEF Document

-----------------------------------------------------------------------------
(* Type correctness *)

\* Inductive: nothing that may be read back holds a password for IMAP.
Typed ==
    /\ delivered \in Original /\ pc \in PCs /\ dir \in Dirs
    /\ DOMAIN mem = Dirs /\ mem \in [Dirs -> Value]
    /\ \A d \in Dirs : Allowed(d, mem[d])
    /\ unread \subseteq Dirs
    /\ override \in [Dirs -> Override] /\ \A d \in Dirs : Holds(d, override[d])
    /\ Document(yaml)
    /\ updates \in 0 .. MaxUpdates /\ faults \in 0 .. MaxFaults
    /\ starts \in 0 .. MaxStarts
    /\ acked \in [Dirs -> Override \ {Torn}] /\ tried \in [Dirs -> SUBSET Value]

LEMMA TypedTypes == Typed => TypeOK
  BY DocumentType DEF Typed, TypeOK, Allowed, Dirs

LEMMA TypedInit == Init => Typed
  <1> SUFFICES ASSUME Init PROVE Typed
    OBVIOUS
  <1>1. \A d \in Dirs : Allowed(d, mem[d]) /\ mem[d] \in Value
    BY BuiltinValues DEF Init, Allowed
  <1>2. \A d \in Dirs : Holds(d, override[d]) /\ override[d] \in Override
    BY AbsentSection, HoldsAnOverride DEF Init, Section
  <1>3. Document(yaml)
    BY OriginalDocument DEF Init
  <1>4. Absent \in Override \ {Torn}
    BY DEF Override, Absent, Torn
  <1> QED BY <1>1, <1>2, <1>3, <1>4, SettingsAssumption DEF Init, Typed, PCs, Dirs

LEMMA LoadedAllowed ==
  ASSUME Typed, NEW d \in Dirs
  PROVE  Allowed(d, Loaded(d))
  <1>1. CASE yaml.kind = "map" /\ yaml[d].kind = "whole"
    <2>1. yaml \notin {Absent, Torn, Empty}
      BY <1>1 DEF Absent, Torn, Empty
    <2>2. Section(d, yaml[d])
      BY <2>1 DEF Typed, Document, Dirs
    <2>3. yaml[d] # Absent
      BY <1>1 DEF Absent
    <2>4. PICK v \in Value : yaml[d] = Whole(v) /\ Allowed(d, v)
      BY <2>2, <2>3 DEF Section, Holds
    <2> QED BY <1>1, <2>4 DEF Loaded, Whole
  <1>2. CASE ~(yaml.kind = "map" /\ yaml[d].kind = "whole")
    BY <1>2, BuiltinValues DEF Loaded
  <1> QED BY <1>1, <1>2

LEMMA EffectiveAllowed ==
  ASSUME Typed, NEW d \in Dirs
  PROVE  Allowed(d, Effective(d))
  <1>1. CASE override[d].kind = "whole"
    <2>1. override[d] # Absent /\ override[d] # Torn
      BY <1>1 DEF Absent, Torn
    <2>2. PICK v \in Value : override[d] = Whole(v) /\ Allowed(d, v)
      BY <2>1 DEF Typed, Holds
    <2> QED BY <1>1, <2>2 DEF Effective, Whole
  <1>2. CASE override[d].kind # "whole"
    BY <1>2, LoadedAllowed DEF Effective
  <1> QED BY <1>1, <1>2

LEMMA FaultType ==
  ASSUME Typed, Fault
  PROVE  faults' \in 0 .. MaxFaults
  BY SettingsAssumption DEF Typed, Fault

LEMMA TypedStart == Typed /\ (Start \/ StartUnread) => Typed'
  <1> SUFFICES ASSUME Typed, Start \/ StartUnread PROVE Typed'
    OBVIOUS
  <1>1. PICK passed \in SUBSET Dirs : StartWithout(passed)
    BY DEF Start, StartUnread
  <1>2. \A d \in Dirs : Allowed(d, mem'[d]) /\ mem'[d] \in Value
    BY <1>1, EffectiveAllowed, LoadedAllowed DEF StartWithout, Allowed
  <1>3. mem' \in [Dirs -> Value] /\ unread' \subseteq Dirs
    BY <1>1, <1>2 DEF StartWithout
  <1>4. starts' \in 0 .. MaxStarts
    BY <1>1, SettingsAssumption DEF Typed, StartWithout
  <1>5. faults' \in 0 .. MaxFaults
    BY FaultType DEF Typed, Start, StartUnread
  <1>6. UNCHANGED <<delivered, dir, override, yaml, updates, acked, tried>> /\ pc' = "idle"
    BY <1>1 DEF StartWithout, files
  <1> QED BY <1>2, <1>3, <1>4, <1>5, <1>6 DEF Typed, PCs

LEMMA EnteredAllowed ==
  ASSUME NEW d \in Dirs, NEW s \in Servers, NEW q \in BOOLEAN, d = "imap" => ~q
  PROVE  Allowed(d, [server |-> s, password |-> q])
  BY DEF Allowed, Value

LEMMA TypedUpdate ==
  ASSUME Typed, NEW d \in Dirs, NEW s \in Servers, NEW p \in BOOLEAN,
         Update(d, [server |-> s, password |-> p])
  PROVE  Typed'
  <1> DEFINE v == [server |-> s, password |-> p]
  <1>1. Allowed(d, Kept(d, v))
    <2>1. mem[d].password \in BOOLEAN /\ (d = "imap" => ~mem[d].password)
      BY DEF Typed, Allowed, Value
    <2>2. Kept(d, v) = [server |-> s, password |-> p \/ mem[d].password]
      BY DEF Kept
    <2>3. (p \/ mem[d].password) \in BOOLEAN /\ (d = "imap" => ~(p \/ mem[d].password))
      BY <2>1 DEF Update
    <2>4. Allowed(d, [server |-> s, password |-> p \/ mem[d].password])
      BY <2>3, EnteredAllowed
    <2> QED BY <2>2, <2>4, Zenon
  <1>2. mem' = [mem EXCEPT ![d] = Kept(d, v)]
    BY DEF Update
  <1> HIDE DEF v
  <1>3. mem' \in [Dirs -> Value] /\ \A e \in Dirs : Allowed(e, mem'[e])
    BY <1>1, <1>2 DEF Typed, Allowed
  <1>4. tried' \in [Dirs -> SUBSET Value]
    BY <1>3 DEF Typed, Update
  <1>5. updates' \in 0 .. MaxUpdates
    BY SettingsAssumption DEF Typed, Update
  <1>6. /\ UNCHANGED <<delivered, override, yaml, faults, starts, acked>>
        /\ pc' = "saving" /\ dir' = d /\ unread' \subseteq Dirs
    BY DEF Update, files, Typed
  <1> QED BY <1>3, <1>4, <1>5, <1>6 DEF Typed, PCs

LEMMA AcknowledgeType ==
  ASSUME Typed, Acknowledge
  PROVE  /\ acked' \in [Dirs -> Override \ {Torn}] /\ tried' \in [Dirs -> SUBSET Value]
         /\ pc' \in PCs
  <1>1. Whole(mem[dir]) \in Override \ {Torn}
    BY DEF Typed, Override, Whole, Torn
  <1> QED BY <1>1 DEF Typed, Acknowledge, PCs

\* What an update, a kill and a repair leave alone.
LEMMA TypedUnmoved ==
  ASSUME Typed, Unmoved,
         pc' \in PCs, faults' \in 0 .. MaxFaults,
         override' \in [Dirs -> Override], \A d \in Dirs : Holds(d, override'[d]),
         Document(yaml'),
         acked' \in [Dirs -> Override \ {Torn}], tried' \in [Dirs -> SUBSET Value]
  PROVE  Typed'
  BY DEF Typed, Unmoved

LEMMA TypedOverride == Typed /\ SaveOverride => Typed'
  <1> SUFFICES ASSUME Typed, SaveOverride PROVE Typed'
    OBVIOUS
  <1>1. CASE OpenOverride
    <2>1. Holds(dir, Torn) /\ Torn \in Override
      BY DEF Holds, Override
    <2>2. override' = [override EXCEPT ![dir] = Torn]
      BY <1>1 DEF OpenOverride
    <2>3. override' \in [Dirs -> Override] /\ \A d \in Dirs : Holds(d, override'[d])
      BY <2>1, <2>2 DEF Typed
    <2> QED BY <1>1, <2>3, TypedUnmoved DEF Typed, OpenOverride, PCs
  <1>2. CASE WriteOverride
    <2>1. Holds(dir, Whole(mem[dir])) /\ Whole(mem[dir]) \in Override
      BY WholeSection, HoldsAnOverride DEF Typed, Section
    <2>2. override' = [override EXCEPT ![dir] = Whole(mem[dir])]
      BY <1>2 DEF WriteOverride
    <2>3. override' \in [Dirs -> Override] /\ \A d \in Dirs : Holds(d, override'[d])
      BY <2>1, <2>2 DEF Typed
    <2> QED BY <1>2, <2>3, TypedUnmoved DEF Typed, WriteOverride, PCs
  <1>3. CASE OpenOverrideFails \/ WriteOverrideFails
    BY <1>3, FaultType, TypedUnmoved DEF Typed, OpenOverrideFails, WriteOverrideFails, Refuse,
       files, PCs
  <1> QED BY <1>1, <1>2, <1>3 DEF SaveOverride

LEMMA CutOfMemory ==
  ASSUME Typed, NEW f \in Cut(Sections([d \in Dirs |-> Whole(mem[d])]))
  PROVE  Document(f)
  BY CutDocument DEF Typed

LEMMA TypedSync == Typed /\ SyncConfigYAML => Typed'
  <1> SUFFICES ASSUME Typed, SyncConfigYAML PROVE Typed'
    OBVIOUS
  <1>1. CASE NoYAML
    BY <1>1, AcknowledgeType, TypedUnmoved DEF Typed, NoYAML, files
  <1>2. CASE BadYAML \/ AssignToNilMap
    BY <1>2, TypedUnmoved DEF Typed, BadYAML, AssignToNilMap, Refuse, files, PCs
  <1>3. CASE OpenYAML
    <2>1. Document(yaml')
      BY <1>3 DEF OpenYAML, Document
    <2> QED BY <1>3, <2>1, TypedUnmoved DEF Typed, OpenYAML, PCs
  <1>4. CASE OpenYAMLFails
    BY <1>4, FaultType, TypedUnmoved DEF Typed, OpenYAMLFails, Refuse, files, PCs
  <1>5. CASE WriteYAML
    <2>1. \A d \in Dirs : Section(d, Whole(mem[d]))
      BY WholeSection DEF Typed
    <2>2. Document(Sections([d \in Dirs |-> Whole(mem[d])]))
      BY <2>1, DocumentOf
    <2> QED BY <1>5, <2>2, AcknowledgeType, TypedUnmoved DEF Typed, WriteYAML
  <1>6. CASE WriteYAMLFails
    <2>1. Document(yaml')
      BY <1>6, CutOfMemory DEF WriteYAMLFails
    <2> QED BY <1>6, <2>1, FaultType, TypedUnmoved DEF Typed, WriteYAMLFails, Refuse, PCs
  <1> QED BY <1>1, <1>2, <1>3, <1>4, <1>5, <1>6 DEF SyncConfigYAML

LEMMA TypedKill == Typed /\ Kill => Typed'
  <1> SUFFICES ASSUME Typed, Kill PROVE Typed'
    OBVIOUS
  <1>1. Document(yaml')
    <2>1. CASE pc = "yaml"
      BY <2>1, CutOfMemory DEF Kill
    <2>2. CASE pc # "yaml"
      BY <2>2 DEF Kill, Typed
    <2> QED BY <2>1, <2>2
  <1> QED BY <1>1, FaultType, TypedUnmoved DEF Typed, Kill, PCs

LEMMA TypedRepair == Typed /\ (Repair \/ Stop) => Typed'
  <1> SUFFICES ASSUME Typed, Repair \/ Stop PROVE Typed'
    OBVIOUS
  <1>1. Document(yaml')
    BY OriginalDocument DEF Repair, Stop, files, Typed
  <1> QED BY <1>1, TypedUnmoved DEF Typed, Repair, Stop, files, Unmoved, PCs

LEMMA TypedNext == Typed /\ [Next]_vars => Typed'
  <1>1. ASSUME Typed, UNCHANGED vars PROVE Typed'
    BY <1>1 DEF Typed, vars, files
  <1> QED BY <1>1, TypedStart, TypedUpdate, TypedOverride, TypedSync, TypedKill, TypedRepair
     DEF Next

\* The variables of Settings have their types, and no password is ever kept for
\* IMAP, for any servers and any number of updates, faults and restarts.
THEOREM TypeCorrect == Spec => []TypeOK
  BY TypedInit, TypedNext, TypedTypes, PTL DEF Spec

-----------------------------------------------------------------------------
(* Acknowledged settings *)

Saving == {"saving", "override", "sync", "yaml"}

\* The settings of the update under way are on record as an attempt.
AttemptRecorded == pc \in Saving => mem[dir] \in tried[dir]

\* From when its override file is written on, it says what is in memory.
OverrideCurrent == pc \in {"sync", "yaml"} => override[dir] = Whole(mem[dir])

Surviving == Typed /\ AttemptRecorded /\ OverrideCurrent /\ AcknowledgedSurvives

LEMMA AttemptNext == Typed /\ AttemptRecorded /\ [Next]_vars => AttemptRecorded'
  <1> SUFFICES ASSUME Typed, AttemptRecorded, [Next]_vars PROVE AttemptRecorded'
    OBVIOUS
  <1> USE DEF AttemptRecorded, Saving
  <1>1. ASSUME NEW d \in Dirs, NEW s \in Servers, NEW p \in BOOLEAN,
               Update(d, [server |-> s, password |-> p])
        PROVE  AttemptRecorded'
    BY <1>1 DEF Update, Typed
  <1>2. CASE Start \/ StartUnread \/ Stop \/ Kill \/ Repair
    BY <1>2 DEF Start, StartUnread, StartWithout, Stop, Kill, Repair
  <1>3. CASE SaveOverride
    BY <1>3 DEF SaveOverride, OpenOverride, OpenOverrideFails, WriteOverride,
       WriteOverrideFails, Unmoved, Refuse
  <1>4. CASE SyncConfigYAML
    BY <1>4 DEF SyncConfigYAML, NoYAML, BadYAML, AssignToNilMap, OpenYAML, OpenYAMLFails,
       WriteYAML, WriteYAMLFails, Unmoved, Refuse, Acknowledge
  <1>5. CASE UNCHANGED vars
    BY <1>5 DEF vars
  <1> QED BY <1>1, <1>2, <1>3, <1>4, <1>5 DEF Next

LEMMA OverrideNext == Typed /\ OverrideCurrent /\ [Next]_vars => OverrideCurrent'
  <1> SUFFICES ASSUME Typed, OverrideCurrent, [Next]_vars PROVE OverrideCurrent'
    OBVIOUS
  <1> USE DEF OverrideCurrent
  <1>1. ASSUME NEW d \in Dirs, NEW s \in Servers, NEW p \in BOOLEAN,
               Update(d, [server |-> s, password |-> p])
        PROVE  OverrideCurrent'
    BY <1>1 DEF Update
  <1>2. CASE Start \/ StartUnread \/ Stop \/ Kill \/ Repair
    BY <1>2 DEF Start, StartUnread, StartWithout, Stop, Kill, Repair
  <1>3. CASE SaveOverride
    BY <1>3 DEF SaveOverride, OpenOverride, OpenOverrideFails, WriteOverride,
       WriteOverrideFails, Unmoved, Refuse, Typed
  <1>4. CASE SyncConfigYAML
    BY <1>4 DEF SyncConfigYAML, NoYAML, BadYAML, AssignToNilMap, OpenYAML, OpenYAMLFails,
       WriteYAML, WriteYAMLFails, Unmoved, Refuse, Acknowledge, files
  <1>5. CASE UNCHANGED vars
    BY <1>5 DEF vars, files
  <1> QED BY <1>1, <1>2, <1>3, <1>4, <1>5 DEF Next

\* Settings acknowledged are in a file, and read back from there.
LEMMA AcknowledgedReadBack ==
  ASSUME Typed, NEW d \in Dirs, acked[d] # Absent, override[d] = acked[d]
  PROVE  Effective(d) = acked[d].value
  <1>1. \E v \in Value : acked[d] = Whole(v)
    BY DEF Typed, Override
  <1> QED BY <1>1 DEF Effective, Whole

LEMMA SurvivesAcknowledge ==
  ASSUME Typed, AcknowledgedSurvives, override[dir] = Whole(mem[dir]),
         Acknowledge, Unmoved, UNCHANGED override, pc # "down"
  PROVE  AcknowledgedSurvives'
  <1> SUFFICES ASSUME NEW d \in Dirs, acked'[d] # Absent, tried'[d] = {}
               PROVE  /\ override'[d] = acked'[d]
                      /\ d \notin unread' => mem'[d] = acked'[d].value
    BY DEF AcknowledgedSurvives
  <1>1. CASE d = dir
    BY <1>1 DEF Acknowledge, Unmoved, Typed, Whole
  <1>2. CASE d # dir
    BY <1>2 DEF Acknowledge, Unmoved, Typed, AcknowledgedSurvives, Running
  <1> QED BY <1>1, <1>2

LEMMA SurvivesNext == Surviving /\ [Next]_vars => AcknowledgedSurvives'
  <1> SUFFICES ASSUME Surviving, [Next]_vars PROVE AcknowledgedSurvives'
    OBVIOUS
  <1> USE DEF Surviving
  <1>1. CASE Start \/ StartUnread
    <2> SUFFICES ASSUME NEW d \in Dirs, acked'[d] # Absent, tried'[d] = {}
                 PROVE  /\ override'[d] = acked'[d]
                        /\ d \notin unread' => mem'[d] = acked'[d].value
      BY DEF AcknowledgedSurvives
    <2>1. override[d] = acked[d] /\ acked[d] # Absent
      BY <1>1 DEF Start, StartUnread, StartWithout, files, AcknowledgedSurvives
    <2>2. Effective(d) = acked[d].value
      BY <2>1, AcknowledgedReadBack
    <2> QED BY <1>1, <2>1, <2>2 DEF Start, StartUnread, StartWithout, files
  <1>2. ASSUME NEW e \in Dirs, NEW s \in Servers, NEW p \in BOOLEAN,
               Update(e, [server |-> s, password |-> p])
        PROVE  AcknowledgedSurvives'
    <2> SUFFICES ASSUME NEW d \in Dirs, acked'[d] # Absent, tried'[d] = {}
                 PROVE  /\ override'[d] = acked'[d]
                        /\ d \notin unread' => mem'[d] = acked'[d].value
      BY DEF AcknowledgedSurvives
    <2>1. d # e
      BY <1>2 DEF Update, Typed
    <2> QED BY <1>2, <2>1 DEF Update, Typed, files, AcknowledgedSurvives, Running
  <1>3. CASE OpenOverride \/ WriteOverride
    <2> SUFFICES ASSUME NEW d \in Dirs, acked'[d] # Absent, tried'[d] = {}
                 PROVE  /\ override'[d] = acked'[d]
                        /\ d \notin unread' => mem'[d] = acked'[d].value
      BY DEF AcknowledgedSurvives
    <2>1. d # dir
      BY <1>3 DEF OpenOverride, WriteOverride, AttemptRecorded, Saving
    <2> QED BY <1>3, <2>1
       DEF OpenOverride, WriteOverride, Unmoved, Typed, AcknowledgedSurvives, Running
  <1>4. CASE NoYAML
    BY <1>4, SurvivesAcknowledge DEF NoYAML, OverrideCurrent, files
  <1>5. CASE WriteYAML
    BY <1>5, SurvivesAcknowledge DEF WriteYAML, OverrideCurrent
  <1>6. CASE OpenOverrideFails \/ WriteOverrideFails \/ OpenYAMLFails \/ WriteYAMLFails
             \/ BadYAML \/ AssignToNilMap \/ OpenYAML
    BY <1>6 DEF OpenOverrideFails, WriteOverrideFails, OpenYAMLFails, WriteYAMLFails, BadYAML,
       AssignToNilMap, OpenYAML, Unmoved, Refuse, files, AcknowledgedSurvives, Running
  <1>7. CASE Stop \/ Kill \/ Repair
    BY <1>7 DEF Stop, Kill, Repair, Unmoved, files, AcknowledgedSurvives, Running
  <1>8. CASE UNCHANGED vars
    BY <1>8 DEF vars, files, AcknowledgedSurvives, Running
  <1> QED BY <1>1, <1>2, <1>3, <1>4, <1>5, <1>6, <1>7, <1>8
     DEF Next, SaveOverride, SyncConfigYAML

LEMMA SurvivingInit == Init => Surviving
  <1> SUFFICES ASSUME Init PROVE Surviving
    OBVIOUS
  <1>1. \A d \in Dirs : acked[d] = Absent
    BY DEF Init
  <1>2. pc = "down"
    BY DEF Init
  <1> QED BY <1>1, <1>2, TypedInit
     DEF Surviving, AttemptRecorded, Saving, OverrideCurrent, AcknowledgedSurvives

\* Settings that were acknowledged, and not tried to change since, are in the
\* directory's override file, whatever access fails, whenever the process dies
\* and however often it starts again, for both directories, and whatever happens
\* to config.yaml; and they are in memory whenever the last start could read that
\* file.
THEOREM AcknowledgedSettingsSurvive == Spec => []AcknowledgedSurvives
  <1>1. Surviving /\ [Next]_vars => Surviving'
    BY TypedNext, AttemptNext, OverrideNext, SurvivesNext DEF Surviving
  <1>2. Surviving => AcknowledgedSurvives
    BY DEF Surviving
  <1> QED BY SurvivingInit, <1>1, <1>2, PTL DEF Spec

-----------------------------------------------------------------------------
(* Without faults *)

Busy(d) == pc \in Saving /\ dir = d

\* config.yaml is a map, or not there, except while it is being rewritten.
FilesSane == pc # "stuck" /\ yaml # Torn /\ (yaml = Empty <=> pc = "yaml")

\* A directory that is not being updated is in memory as its files have it.
QuietOverrides == \A d \in Dirs : ~Busy(d) => override[d] \in {Absent, Whole(mem[d])}
QuietSections ==
    (yaml.kind = "map" /\ \E d \in Dirs : acked[d] # Absent) =>
        \A d \in Dirs : ~Busy(d) => yaml[d] = Whole(mem[d])

Faultless == (faults = 0 /\ delivered # Empty) =>
    FilesSane /\ QuietOverrides /\ QuietSections

Agreeing == Typed /\ OverrideCurrent /\ Faultless

LEMMA KindsDiffer ==
  /\ Torn.kind # "map" /\ Empty.kind # "map" /\ Absent.kind # "map"
  /\ Torn.kind # "whole" /\ Absent.kind # "whole"
  /\ Torn # Absent /\ Torn # Empty /\ Empty # Absent
  /\ \A v : Whole(v).kind = "whole" /\ Whole(v).value = v /\ Whole(v) # Torn /\ Whole(v) # Absent
  /\ \A s : Sections(s).kind = "map" /\ Sections(s) \notin {Torn, Empty, Absent}
  /\ \A s : \A d \in Dirs : Sections(s)[d] = s[d]
  BY DEF Torn, Empty, Absent, Whole, Sections, Dirs

LEMMA DocumentKinds ==
  ASSUME Document(yaml)
  PROVE  yaml \in {Absent, Torn, Empty} \/ yaml.kind = "map"
  BY DEF Document

LEMMA FaultCounts ==
  ASSUME Typed, Fault
  PROVE  faults \in Nat /\ faults' = faults + 1 /\ faults' # 0
  BY SettingsAssumption DEF Typed, Fault

LEMMA FaultlessInit == Init => Faultless
  <1> SUFFICES ASSUME Init, delivered # Empty PROVE FilesSane /\ QuietOverrides /\ QuietSections
    BY DEF Faultless
  <1>1. yaml # Torn /\ yaml # Empty
    <2>1. yaml \in Original /\ yaml # Empty
      BY DEF Init
    <2> QED BY <2>1, KindsDiffer DEF Original
  <1> QED BY <1>1 DEF Init, FilesSane, QuietOverrides, QuietSections

LEMMA FaultlessNext == Agreeing /\ [Next]_vars => Faultless'
  <1> SUFFICES ASSUME Agreeing, [Next]_vars, faults' = 0, delivered' # Empty
               PROVE  FilesSane' /\ QuietOverrides' /\ QuietSections'
    BY DEF Faultless
  <1>1. CASE OpenOverrideFails \/ WriteOverrideFails \/ OpenYAMLFails \/ WriteYAMLFails \/ Kill
             \/ StartUnread
    BY <1>1, FaultCounts DEF Agreeing, StartUnread, OpenOverrideFails, WriteOverrideFails, OpenYAMLFails,
       WriteYAMLFails, Kill
  <1>2. CASE UNCHANGED vars
    BY <1>2 DEF Agreeing, Faultless, FilesSane, QuietOverrides, QuietSections, Busy, vars, files
  <1>3. ASSUME ~(OpenOverrideFails \/ WriteOverrideFails \/ OpenYAMLFails \/ WriteYAMLFails \/ Kill
                   \/ StartUnread),
               Next
        PROVE  /\ UNCHANGED <<faults, delivered>>
               /\ FilesSane /\ QuietOverrides /\ QuietSections
    <2>1. UNCHANGED <<faults, delivered>>
      BY <1>3 DEF Next, Start, StartWithout, Stop, Repair, Update, SaveOverride, OpenOverride, WriteOverride,
         SyncConfigYAML, NoYAML, BadYAML, AssignToNilMap, OpenYAML, WriteYAML, Unmoved
    <2> QED BY <2>1 DEF Agreeing, Faultless
  <1>4. CASE Start
    <2>0. FilesSane /\ QuietOverrides /\ QuietSections /\ Typed
      BY <1>3, <1>4 DEF Agreeing, Next, Start, StartWithout, files, Faultless
    <2>1. pc = "down" /\ pc' = "idle" /\ UNCHANGED <<override, yaml, acked>>
          /\ mem' = [d \in Dirs |-> Effective(d)]
      BY <1>4 DEF Start, StartWithout, files
    <2>2. \A d \in Dirs : ~Busy(d) /\ ~Busy(d)'
      BY <2>1 DEF Busy, Saving
    <2>3. ASSUME NEW d \in Dirs PROVE override'[d] \in {Absent, Whole(mem'[d])}
      <3>1. CASE override[d] = Absent
        BY <3>1, <2>1
      <3>2. CASE override[d] = Whole(mem[d])
        BY <3>2, <2>1, KindsDiffer DEF Effective
      <3> QED BY <2>0, <2>2, <3>1, <3>2 DEF QuietOverrides
    <2>4. ASSUME yaml.kind = "map", NEW e \in Dirs, acked[e] # Absent, NEW d \in Dirs
          PROVE  yaml[d] = Whole(mem'[d])
      <3>1. yaml[d] = Whole(mem[d]) /\ override[d] \in {Absent, Whole(mem[d])}
        BY <2>0, <2>2, <2>4 DEF QuietSections, QuietOverrides
      <3>2. Effective(d) = mem[d]
        BY <2>4, <3>1, KindsDiffer DEF Effective, Loaded
      <3> QED BY <2>1, <3>1, <3>2
    <2> QED BY <2>0, <2>1, <2>3, <2>4 DEF FilesSane, QuietOverrides, QuietSections
  <1>5. ASSUME NEW d \in Dirs, NEW s \in Servers, NEW p \in BOOLEAN,
               Update(d, [server |-> s, password |-> p])
        PROVE  FilesSane' /\ QuietOverrides' /\ QuietSections'
    <2> DEFINE v == Kept(d, [server |-> s, password |-> p])
    <2>0. FilesSane /\ QuietOverrides /\ QuietSections /\ Typed
      BY <1>5 DEF Agreeing, Update, Faultless, files
    <2>1. pc = "idle" /\ pc' = "saving" /\ dir' = d /\ UNCHANGED <<override, yaml, acked>>
          /\ mem' = [mem EXCEPT ![d] = v]
      BY <1>5 DEF Update, files
    <2> HIDE DEF v
    <2>2. \A e \in Dirs : ~Busy(e) /\ (~Busy(e)' => mem'[e] = mem[e])
      BY <2>0, <2>1 DEF Busy, Saving, Typed
    <2> QED BY <2>0, <2>1, <2>2 DEF FilesSane, QuietOverrides, QuietSections
  <1>6. CASE OpenOverride \/ WriteOverride
    <2>0. FilesSane /\ QuietOverrides /\ QuietSections /\ Typed
      BY <1>6 DEF Agreeing, OpenOverride, WriteOverride, Unmoved, Faultless
    <2>1. /\ pc \in Saving \ {"yaml"} /\ pc' \in Saving \ {"yaml"}
          /\ UNCHANGED <<dir, mem, yaml, acked>>
          /\ \A d \in Dirs : d # dir => override'[d] = override[d]
      BY <1>6, <2>0 DEF OpenOverride, WriteOverride, Unmoved, Saving, Typed
    <2> QED BY <2>0, <2>1 DEF FilesSane, QuietOverrides, QuietSections, Busy, Saving
  <1>7. CASE NoYAML
    <2>0. FilesSane /\ QuietOverrides /\ Typed /\ OverrideCurrent
      BY <1>7 DEF Agreeing, NoYAML, Unmoved, Faultless
    <2>1. pc = "sync" /\ pc' = "idle" /\ yaml = Absent /\ UNCHANGED <<dir, mem, override, yaml>>
      BY <1>7 DEF NoYAML, Unmoved, Acknowledge, files
    <2> QED BY <2>0, <2>1, KindsDiffer
        DEF FilesSane, QuietOverrides, QuietSections, Busy, Saving, OverrideCurrent
  <1>8. CASE WriteYAML
    <2>0. QuietOverrides /\ Typed /\ OverrideCurrent
      BY <1>8 DEF Agreeing, WriteYAML, Unmoved, Faultless
    <2>1. /\ pc = "yaml" /\ pc' = "idle" /\ UNCHANGED <<dir, mem, override>>
          /\ yaml' = Sections([d \in Dirs |-> Whole(mem[d])])
      BY <1>8 DEF WriteYAML, Unmoved, Acknowledge
    <2>2. \A d \in Dirs : yaml'[d] = Whole(mem'[d])
      BY <2>1, KindsDiffer
    <2>3. yaml' \notin {Torn, Empty}
      BY <2>1, KindsDiffer
    <2> QED BY <2>0, <2>1, <2>2, <2>3
        DEF FilesSane, QuietOverrides, QuietSections, Busy, Saving, OverrideCurrent
  <1>9. CASE OpenYAML
    <2>0. QuietOverrides /\ Typed
      BY <1>9 DEF Agreeing, OpenYAML, Unmoved, Faultless
    <2>1. pc = "sync" /\ pc' = "yaml" /\ yaml' = Empty /\ UNCHANGED <<dir, mem, override>>
      BY <1>9 DEF OpenYAML, Unmoved
    <2> QED BY <2>0, <2>1, KindsDiffer DEF FilesSane, QuietOverrides, QuietSections, Busy, Saving
  <1>10. CASE BadYAML \/ AssignToNilMap
    <2>0. FilesSane
      BY <1>10 DEF Agreeing, BadYAML, AssignToNilMap, Unmoved, files, Faultless
    <2> QED BY <1>10, <2>0 DEF FilesSane, BadYAML, AssignToNilMap
  <1>11. CASE Repair
    <2>0. FilesSane
      BY <1>11 DEF Agreeing, Repair, Faultless
    <2> QED BY <1>11, <2>0 DEF FilesSane, Repair
  <1>12. CASE Stop
    <2>0. FilesSane /\ QuietOverrides /\ QuietSections /\ Typed
      BY <1>12 DEF Agreeing, Stop, files, Faultless
    <2>1. pc = "idle" /\ pc' = "down" /\ UNCHANGED <<mem, override, yaml, acked>>
      BY <1>12, <2>0 DEF Stop, files, FilesSane
    <2> QED BY <2>0, <2>1 DEF FilesSane, QuietOverrides, QuietSections, Busy, Saving
  <1> QED BY <1>1, <1>2, <1>4, <1>5, <1>6, <1>7, <1>8, <1>9, <1>10, <1>11, <1>12
      DEF Next, SaveOverride, SyncConfigYAML

\* As long as no access to a file has failed and no update was killed, and unless
\* config.yaml was delivered empty, no update gets stuck, and once one is
\* acknowledged config.yaml and each override file say what is in memory
\* (admin.go:317-375, auth.go:90-101).
THEOREM SavesAgree == Spec => []FaultFreeSavesAgree
  <1>1. Init => Agreeing
    BY TypedInit, FaultlessInit DEF Agreeing, Init, OverrideCurrent
  <1>2. Agreeing /\ [Next]_vars => Agreeing'
    BY TypedNext, OverrideNext, FaultlessNext DEF Agreeing
  <1>3. Agreeing => FaultFreeSavesAgree
    <2> SUFFICES ASSUME Agreeing, faults = 0, delivered # Empty
                 PROVE  /\ pc # "stuck"
                        /\ (pc = "idle" /\ yaml # Absent /\ (\E d \in Dirs : acked[d] # Absent)) =>
                             (\A d \in Dirs : /\ yaml[d] = Whole(mem[d])
                                              /\ override[d] \in {Absent, Whole(mem[d])})
      BY DEF FaultFreeSavesAgree
    <2>1. FilesSane /\ QuietOverrides /\ QuietSections /\ Document(yaml)
      BY DEF Agreeing, Faultless, Typed
    <2>2. ASSUME pc = "idle", yaml # Absent PROVE yaml.kind = "map"
      BY <2>1, <2>2, DocumentKinds DEF FilesSane
    <2> QED BY <2>1, <2>2 DEF FilesSane, QuietOverrides, QuietSections, Busy, Saving
  <1> QED BY <1>1, <1>2, <1>3, PTL DEF Spec

-----------------------------------------------------------------------------
(* One fault *)

\* The settings last acknowledged, and those tried since.
Current(d) == {acked[d].value} \cup tried[d]

\* config.yaml can stand in for a torn override.
Backed(d) == yaml.kind = "map" /\ \E v \in Current(d) : yaml[d] = Whole(v)

\* The override is being rewritten; config.yaml is.
Rewriting(d) == pc = "override" /\ dir = d

\* No override file is from before the last acknowledged settings, and
\* config.yaml does not go away.
OverridesCurrent == \A d \in Dirs : acked[d] # Absent =>
    override[d] = Torn \/ \E v \in Current(d) : override[d] = Whole(v)
YAMLStays == delivered # Absent => yaml # Absent

\* Before the first fault config.yaml backs every directory; after it, the one
\* whose override it tore.
BackedByYAML == delivered # Absent => \A d \in Dirs : acked[d] # Absent =>
    /\ faults = 0 => pc = "yaml" \/ Backed(d)
    /\ (faults = 0 /\ override[d] = Torn) => Rewriting(d)
    /\ (faults <= 1 /\ override[d] = Torn) => Rewriting(d) \/ pc = "yaml" \/ Backed(d)

OneFault ==
    /\ Typed /\ AttemptRecorded /\ OverrideCurrent
    /\ OverridesCurrent /\ YAMLStays /\ BackedByYAML /\ OneFaultLosesNothing

\* A step leaves the delivered file as it was and adds at most one fault.
LEMMA NextCounts ==
  ASSUME [Next]_vars
  PROVE  delivered' = delivered /\ (faults' = faults \/ faults' = faults + 1)
  BY DEF Next, Start, StartUnread, StartWithout, Stop, Kill, Repair, Update, SaveOverride, OpenOverride, WriteOverride,
     SyncConfigYAML, NoYAML, BadYAML, AssignToNilMap, OpenYAML, WriteYAML, Unmoved, vars,
     OpenOverrideFails, WriteOverrideFails, OpenYAMLFails, WriteYAMLFails, Fault

LEMMA OverridesCurrentNext ==
  Typed /\ AttemptRecorded /\ OverrideCurrent /\ OverridesCurrent /\ [Next]_vars
    => OverridesCurrent'
  <1> SUFFICES ASSUME Typed, AttemptRecorded, OverrideCurrent, OverridesCurrent, [Next]_vars,
                      NEW d \in Dirs, acked'[d] # Absent
               PROVE  override'[d] = Torn \/ \E v \in Current(d)' : override'[d] = Whole(v)
    BY DEF OverridesCurrent
  <1> DEFINE Goal == override'[d] = Torn \/ \E v \in Current(d)' : override'[d] = Whole(v)
  <1>1. ASSUME acked'[d] = acked[d], override'[d] = override[d], tried[d] \subseteq tried'[d]
        PROVE  Goal
    BY <1>1 DEF OverridesCurrent, Current
  <1>2. CASE Start \/ StartUnread \/ Stop \/ Kill \/ Repair \/ UNCHANGED vars
    BY <1>1, <1>2 DEF Start, StartUnread, StartWithout, Stop, Kill, Repair, vars, files
  <1>3. ASSUME NEW e \in Dirs, NEW s \in Servers, NEW p \in BOOLEAN,
               Update(e, [server |-> s, password |-> p])
        PROVE  Goal
    <2>1. tried[d] \subseteq tried'[d]
      BY <1>3 DEF Update, Typed
    <2> QED BY <1>1, <1>3, <2>1 DEF Update, files
  <1>4. CASE OpenOverride
    BY <1>1, <1>4 DEF OpenOverride, Typed
  <1>5. CASE WriteOverride
    <2>1. CASE d = dir
      <3>1. override'[d] = Whole(mem[d]) /\ mem[d] \in tried'[d]
        BY <1>5, <2>1 DEF WriteOverride, Typed, AttemptRecorded, Saving
      <3> QED BY <3>1 DEF Current
    <2>2. CASE d # dir
      BY <1>1, <1>5, <2>2 DEF WriteOverride, Typed
    <2> QED BY <2>1, <2>2
  <1>6. CASE NoYAML \/ WriteYAML
    <2>1. Acknowledge /\ UNCHANGED override /\ override[dir] = Whole(mem[dir])
      BY <1>6 DEF NoYAML, WriteYAML, files, OverrideCurrent
    <2>2. CASE d = dir
      BY <2>1, <2>2 DEF Acknowledge, Typed, Current, Whole
    <2>3. CASE d # dir
      BY <1>1, <2>1, <2>3 DEF Acknowledge, Typed
    <2> QED BY <2>2, <2>3
  <1>7. CASE OpenOverrideFails \/ WriteOverrideFails \/ OpenYAMLFails \/ WriteYAMLFails
             \/ BadYAML \/ AssignToNilMap \/ OpenYAML
    BY <1>1, <1>7 DEF OpenOverrideFails, WriteOverrideFails, OpenYAMLFails, WriteYAMLFails,
       BadYAML, AssignToNilMap, OpenYAML, Refuse, files
  <1> QED BY <1>2, <1>3, <1>4, <1>5, <1>6, <1>7 DEF Next, SaveOverride, SyncConfigYAML

LEMMA NeverAbsent ==
  ASSUME NEW s, NEW f \in Cut(Sections(s))
  PROVE  f # Absent
  BY DEF Cut, CutSections, Sections, Empty, Torn, Absent

LEMMA YAMLStaysNext == YAMLStays /\ [Next]_vars => YAMLStays'
  <1> SUFFICES ASSUME YAMLStays, [Next]_vars, delivered' # Absent PROVE yaml' # Absent
    BY DEF YAMLStays
  <1>1. delivered' = delivered
    BY NextCounts
  <1>2. yaml # Absent
    BY <1>1 DEF YAMLStays
  <1>3. CASE WriteYAMLFails \/ Kill
    BY <1>2, <1>3, NeverAbsent DEF WriteYAMLFails, Kill
  <1>4. CASE WriteYAML \/ OpenYAML
    BY <1>4, KindsDiffer DEF WriteYAML, OpenYAML
  <1>5. CASE Repair
    BY <1>1, <1>5 DEF Repair
  <1>6. CASE Start \/ StartUnread \/ Stop \/ SaveOverride \/ NoYAML \/ BadYAML \/ AssignToNilMap \/ OpenYAMLFails
             \/ UNCHANGED vars
    BY <1>2, <1>6 DEF Start, StartUnread, StartWithout, Stop, SaveOverride, OpenOverride, WriteOverride, OpenOverrideFails,
       WriteOverrideFails, NoYAML, BadYAML, AssignToNilMap, OpenYAMLFails, vars, files
  <1>7. ASSUME NEW e \in Dirs, NEW v, Update(e, v) PROVE yaml' # Absent
    BY <1>2, <1>7 DEF Update, files
  <1> QED BY <1>3, <1>4, <1>5, <1>6, <1>7 DEF Next, SyncConfigYAML

\* What an acknowledged directory starts with: its override, or config.yaml
\* where that is torn.
LEMMA EffectiveCurrent ==
  ASSUME Typed, OverridesCurrent, NEW d \in Dirs, acked[d] # Absent,
         override[d] = Torn => Backed(d)
  PROVE  Effective(d) \in Current(d)
  <1>1. CASE override[d] = Torn
    BY <1>1, KindsDiffer DEF Effective, Loaded, Backed
  <1>2. CASE \E v \in Current(d) : override[d] = Whole(v)
    BY <1>2, KindsDiffer DEF Effective
  <1> QED BY <1>1, <1>2 DEF OverridesCurrent

LEMMA MemoryNext == OneFault /\ [Next]_vars => OneFaultLosesNothing'
  <1> SUFFICES ASSUME OneFault, [Next]_vars, faults' <= 1, delivered' # Absent, Running',
                      NEW d \in Dirs, acked'[d] # Absent
               PROVE  mem'[d] \in {acked'[d].value} \cup tried'[d]
    BY DEF OneFaultLosesNothing
  <1> DEFINE Goal == mem'[d] \in {acked'[d].value} \cup tried'[d]
  <1>a. faults <= 1 /\ delivered # Absent
    BY NextCounts, SettingsAssumption DEF OneFault, Typed
  <1>1. ASSUME acked'[d] = acked[d], mem'[d] = mem[d], tried[d] \subseteq tried'[d], Running
        PROVE  Goal
    BY <1>a, <1>1 DEF OneFault, OneFaultLosesNothing
  <1>2. CASE Start \/ StartUnread
    <2>1. /\ pc = "down" /\ UNCHANGED <<acked, tried>>
          /\ mem'[d] \in {Effective(d), Loaded(d)}
          /\ mem'[d] = Effective(d) \/ Fault
      BY <1>2 DEF Start, StartUnread, StartWithout
    <2>2. override[d] = Torn => Backed(d)
      BY <1>a, <2>1 DEF OneFault, BackedByYAML, Rewriting
    <2>3. Effective(d) \in Current(d)
      BY <2>1, <2>2, EffectiveCurrent DEF OneFault
    <2>4. ASSUME Fault PROVE Loaded(d) \in Current(d)
      <3>1. faults = 0
        BY <2>4, FaultCounts DEF OneFault
      <3>2. Backed(d)
        BY <1>a, <2>1, <3>1 DEF OneFault, BackedByYAML
      <3> QED BY <3>2, KindsDiffer DEF Backed, Loaded
    <2> QED BY <2>1, <2>3, <2>4 DEF Current
  <1>3. ASSUME NEW e \in Dirs, NEW s \in Servers, NEW p \in BOOLEAN,
               Update(e, [server |-> s, password |-> p])
        PROVE  Goal
    <2> DEFINE v == Kept(e, [server |-> s, password |-> p])
    <2>1. mem' = [mem EXCEPT ![e] = v] /\ tried' = [tried EXCEPT ![e] = @ \cup {mem'[e]}]
          /\ acked' = acked /\ pc = "idle"
      BY <1>3 DEF Update
    <2> HIDE DEF v
    <2>2. CASE d = e
      BY <2>1, <2>2 DEF OneFault, Typed
    <2>3. CASE d # e
      BY <1>1, <2>1, <2>3 DEF OneFault, Typed, Running
    <2> QED BY <2>2, <2>3
  <1>4. CASE NoYAML \/ WriteYAML
    <2>1. Acknowledge /\ UNCHANGED mem /\ Running
      BY <1>4 DEF NoYAML, WriteYAML, Unmoved, Running
    <2>2. CASE d = dir
      BY <2>1, <2>2, KindsDiffer DEF Acknowledge, OneFault, Typed
    <2>3. CASE d # dir
      BY <1>1, <2>1, <2>3 DEF Acknowledge, OneFault, Typed
    <2> QED BY <2>2, <2>3
  <1>5. CASE SaveOverride
    BY <1>1, <1>5 DEF SaveOverride, OpenOverride, WriteOverride, OpenOverrideFails,
       WriteOverrideFails, Unmoved, Refuse, Running
  <1>6. CASE BadYAML \/ AssignToNilMap \/ OpenYAML \/ OpenYAMLFails \/ WriteYAMLFails
    BY <1>1, <1>6 DEF BadYAML, AssignToNilMap, OpenYAML, OpenYAMLFails, WriteYAMLFails, Unmoved,
       Refuse, Running
  <1>7. CASE Stop \/ Kill
    BY <1>7 DEF Stop, Kill, Running
  <1>8. CASE Repair \/ UNCHANGED vars
    BY <1>1, <1>8 DEF Repair, vars, Running
  <1> QED BY <1>2, <1>3, <1>4, <1>5, <1>6, <1>7, <1>8 DEF Next, SyncConfigYAML

\* What BackedByYAML says of one directory.
Backing(d) ==
    /\ faults = 0 => pc = "yaml" \/ Backed(d)
    /\ (faults = 0 /\ override[d] = Torn) => Rewriting(d)
    /\ (faults <= 1 /\ override[d] = Torn) => Rewriting(d) \/ pc = "yaml" \/ Backed(d)

LEMMA BackedGrows ==
  ASSUME NEW d \in Dirs, Backed(d), yaml' = yaml, acked'[d] = acked[d],
         tried[d] \subseteq tried'[d]
  PROVE  Backed(d)'
  BY DEF Backed, Current

LEMMA BackedByWrite ==
  ASSUME OneFault, NEW d \in Dirs, acked'[d] # Absent, WriteYAML, faults <= 1,
         delivered # Absent
  PROVE  Backed(d)'
  <1>1. yaml' = Sections([e \in Dirs |-> Whole(mem[e])]) /\ Acknowledge /\ pc = "yaml"
    BY DEF WriteYAML
  <1>2. yaml'.kind = "map" /\ yaml'[d] = Whole(mem[d])
    BY <1>1, KindsDiffer
  <1>3. mem[d] \in Current(d)'
    <2>1. CASE d = dir
      BY <1>1, <2>1, KindsDiffer DEF Acknowledge, OneFault, Typed, Current
    <2>2. CASE d # dir
      <3>1. acked'[d] = acked[d] /\ tried'[d] = tried[d]
        BY <1>1, <2>2 DEF Acknowledge, OneFault, Typed
      <3> QED BY <1>1, <3>1 DEF OneFault, OneFaultLosesNothing, Running, Current
    <2> QED BY <2>1, <2>2
  <1> QED BY <1>2, <1>3 DEF Backed

LEMMA BackingNext ==
  ASSUME OneFault, [Next]_vars, delivered # Absent, NEW d \in Dirs, acked'[d] # Absent
  PROVE  Backing(d)'
  <1>0. faults \in Nat
    BY SettingsAssumption DEF OneFault, Typed
  <1>a. ASSUME acked[d] # Absent PROVE Backing(d)
    BY <1>a DEF OneFault, BackedByYAML, Backing
  <1>1. ASSUME acked'[d] = acked[d], tried[d] \subseteq tried'[d], yaml' = yaml,
               faults' = faults, override'[d] = override[d],
               pc # "yaml", Rewriting(d) => Rewriting(d)'
        PROVE  Backing(d)'
    BY <1>1, <1>a, BackedGrows DEF Backing
  <1>2. CASE Start \/ Stop
    BY <1>1, <1>2 DEF Start, StartWithout, Stop, files, Rewriting
  <1>3. ASSUME NEW e \in Dirs, NEW s \in Servers, NEW p \in BOOLEAN,
               Update(e, [server |-> s, password |-> p])
        PROVE  Backing(d)'
    <2>1. tried[d] \subseteq tried'[d]
      BY <1>3 DEF Update, OneFault, Typed
    <2> QED BY <1>1, <1>3, <2>1 DEF Update, files, Rewriting
  <1>4. CASE OpenOverride
    <2>0. UNCHANGED <<acked, tried, yaml, faults>> /\ pc = "saving"
      BY <1>4 DEF OpenOverride, Unmoved
    <2>1. CASE d = dir
      <3>1. Rewriting(d)'
        BY <1>4, <2>1 DEF OpenOverride, Unmoved, Rewriting
      <3> QED BY <2>0, <3>1, <1>a, BackedGrows DEF Backing
    <2>2. CASE d # dir
      BY <1>1, <1>4, <2>0, <2>2 DEF OpenOverride, OneFault, Typed, Rewriting
    <2> QED BY <2>1, <2>2
  <1>5. CASE WriteOverride
    <2>0. UNCHANGED <<acked, tried, yaml, faults>> /\ pc = "override"
      BY <1>5 DEF WriteOverride, Unmoved
    <2>1. CASE d = dir
      <3>1. override'[d] # Torn
        BY <1>5, <2>1, KindsDiffer DEF WriteOverride, OneFault, Typed
      <3> QED BY <2>0, <3>1, <1>a, BackedGrows DEF Backing
    <2>2. CASE d # dir
      BY <1>1, <1>5, <2>0, <2>2 DEF WriteOverride, OneFault, Typed, Rewriting
    <2> QED BY <2>1, <2>2
  <1>6. CASE OpenOverrideFails \/ WriteOverrideFails \/ OpenYAMLFails \/ StartUnread
    <2>0. /\ UNCHANGED <<acked, tried, yaml, override>> /\ pc # "yaml"
          /\ faults' = faults + 1
      BY <1>6 DEF OpenOverrideFails, WriteOverrideFails, OpenYAMLFails, StartUnread,
                  StartWithout, Refuse, Fault, files
    <2> QED BY <1>0, <1>a, <2>0, BackedGrows DEF Backing
  <1>7. CASE Kill \/ WriteYAMLFails
    <2>0. /\ UNCHANGED <<acked, tried, override>> /\ faults' = faults + 1
          /\ pc # "yaml" => UNCHANGED yaml
      BY <1>7 DEF Kill, WriteYAMLFails, Refuse, Fault, Unmoved
    <2>1. CASE pc = "yaml"
      BY <1>0, <1>a, <2>0, <2>1 DEF Backing, Rewriting
    <2>2. CASE pc # "yaml"
      BY <1>0, <1>a, <2>0, <2>2, BackedGrows DEF Backing
    <2> QED BY <2>1, <2>2
  <1>8. CASE BadYAML \/ AssignToNilMap
    BY <1>1, <1>8 DEF BadYAML, AssignToNilMap, Unmoved, Refuse, files, Rewriting
  <1>9. CASE NoYAML
    BY <1>9 DEF NoYAML, OneFault, YAMLStays
  <1>10. CASE OpenYAML
    <2>1. pc' = "yaml" /\ pc = "sync" /\ UNCHANGED <<override, faults, acked>>
      BY <1>10 DEF OpenYAML, Unmoved
    <2>2. ~(faults = 0 /\ override[d] = Torn)
      BY <1>a, <2>1 DEF Backing, Rewriting
    <2> QED BY <2>1, <2>2 DEF Backing
  <1>11. CASE WriteYAML
    <2>1. UNCHANGED <<override, faults, dir>> /\ pc = "yaml" /\ Acknowledge
      BY <1>11 DEF WriteYAML, Unmoved
    <2>2. faults <= 1 => Backed(d)'
      BY <1>11, BackedByWrite
    <2>3. ~(faults = 0 /\ override[d] = Torn)
      <3>1. CASE d = dir
        BY <2>1, <3>1, KindsDiffer DEF OneFault, OverrideCurrent
      <3>2. CASE d # dir
        BY <1>a, <2>1, <3>2 DEF Backing, Rewriting, Acknowledge, OneFault, Typed
      <3> QED BY <3>1, <3>2
    <2> QED BY <1>0, <2>1, <2>2, <2>3 DEF Backing
  <1>12. CASE Repair
    <2>1. yaml \in {Torn, Empty} /\ pc \in {"down", "idle"} /\ UNCHANGED <<pc, acked, override, faults, dir>>
      BY <1>12 DEF Repair
    <2>2. ~Backed(d) /\ ~Rewriting(d)
      BY <2>1, KindsDiffer DEF Backed, Rewriting
    <2> QED BY <1>0, <1>a, <2>1, <2>2 DEF Backing
  <1>13. CASE UNCHANGED vars
    BY <1>a, <1>13, BackedGrows DEF Backing, vars, files, Rewriting
  <1> QED BY <1>2, <1>3, <1>4, <1>5, <1>6, <1>7, <1>8, <1>9, <1>10, <1>11, <1>12, <1>13
      DEF Next, SaveOverride, SyncConfigYAML

LEMMA BackedByYAMLNext == OneFault /\ [Next]_vars => BackedByYAML'
  <1> SUFFICES ASSUME OneFault, [Next]_vars, delivered' # Absent,
                      NEW d \in Dirs, acked'[d] # Absent
               PROVE  Backing(d)'
    BY DEF BackedByYAML, Backing
  <1>1. delivered' = delivered
    BY NextCounts
  <1> QED BY <1>1, BackingNext

LEMMA OneFaultInit == Init => OneFault
  <1> SUFFICES ASSUME Init PROVE OneFault
    OBVIOUS
  <1>1. \A d \in Dirs : acked[d] = Absent
    BY DEF Init
  <1> QED BY <1>1, TypedInit
      DEF Init, OneFault, AttemptRecorded, Saving, OverrideCurrent, OverridesCurrent, YAMLStays,
          BackedByYAML, OneFaultLosesNothing

LEMMA OneFaultNext == OneFault /\ [Next]_vars => OneFault'
  BY TypedNext, AttemptNext, OverrideNext, OverridesCurrentNext, YAMLStaysNext, BackedByYAMLNext,
     MemoryNext DEF OneFault

\* If config.yaml exists, a single failed access or kill, at whatever moment,
\* makes no directory run with settings from before its last acknowledged ones,
\* however often the server starts again (admin.go:317-375, auth.go:90-101).
THEOREM OneFaultIsSurvived == Spec => []OneFaultLosesNothing
  <1>1. OneFault => OneFaultLosesNothing
    BY DEF OneFault
  <1> QED BY OneFaultInit, OneFaultNext, <1>1, PTL DEF Spec

-----------------------------------------------------------------------------
(* The bind password *)

\* Once a password is acknowledged every attempt to change the settings has one.
AttemptsKeepPassword ==
    (/\ faults <= 1 /\ delivered # Absent
     /\ acked["ldap"] # Absent /\ acked["ldap"].value.password)
      => \A v \in tried["ldap"] : v.password

LEMMA PasswordInMemory == OneFault /\ AttemptsKeepPassword => StoredPasswordIsKept
  BY DEF OneFault, OneFaultLosesNothing, AttemptsKeepPassword, StoredPasswordIsKept, Dirs

LEMMA AttemptsNext == OneFault /\ AttemptsKeepPassword /\ [Next]_vars => AttemptsKeepPassword'
  <1> SUFFICES ASSUME OneFault, AttemptsKeepPassword, [Next]_vars, faults' <= 1,
                      delivered' # Absent, acked'["ldap"] # Absent,
                      acked'["ldap"].value.password,
                      NEW w \in tried'["ldap"]
               PROVE  w.password
    BY DEF AttemptsKeepPassword
  <1>1. "ldap" \in Dirs
    BY DEF Dirs
  <1>2. ASSUME acked'["ldap"] = acked["ldap"], tried'["ldap"] = tried["ldap"],
               delivered' = delivered, faults' = faults \/ faults' = faults + 1
        PROVE  w.password
    <2>1. faults \in Nat
      BY SettingsAssumption DEF OneFault, Typed
    <2> QED BY <1>2, <2>1 DEF AttemptsKeepPassword
  <1>3. CASE Start \/ StartUnread \/ Stop \/ Kill \/ Repair \/ UNCHANGED vars
    BY <1>2, <1>3 DEF Start, StartUnread, StartWithout, Stop, Kill, Repair, Unmoved, Fault, vars
  <1>4. CASE SaveOverride
    BY <1>2, <1>4 DEF SaveOverride, OpenOverride, WriteOverride, OpenOverrideFails,
       WriteOverrideFails, Unmoved, Refuse, Fault
  <1>5. CASE BadYAML \/ AssignToNilMap \/ OpenYAML \/ OpenYAMLFails \/ WriteYAMLFails
    BY <1>2, <1>5 DEF BadYAML, AssignToNilMap, OpenYAML, OpenYAMLFails, WriteYAMLFails, Unmoved,
       Refuse, Fault
  <1>6. CASE NoYAML \/ WriteYAML
    <2>1. Acknowledge /\ UNCHANGED <<delivered, faults>>
      BY <1>6 DEF NoYAML, WriteYAML, Unmoved
    <2>2. CASE dir = "ldap"
      BY <1>1, <2>1, <2>2 DEF Acknowledge, OneFault, Typed
    <2>3. CASE dir # "ldap"
      BY <1>1, <1>2, <2>1, <2>3 DEF Acknowledge, OneFault, Typed
    <2> QED BY <2>2, <2>3
  <1>7. ASSUME NEW e \in Dirs, NEW s \in Servers, NEW p \in BOOLEAN,
               Update(e, [server |-> s, password |-> p])
        PROVE  w.password
    <2> DEFINE v == Kept(e, [server |-> s, password |-> p])
    <2>1. /\ mem' = [mem EXCEPT ![e] = v] /\ tried' = [tried EXCEPT ![e] = @ \cup {mem'[e]}]
          /\ UNCHANGED <<acked, delivered, faults>> /\ pc = "idle"
      BY <1>7 DEF Update
    <2>2. v = [server |-> s, password |-> p \/ mem[e].password]
      BY DEF Kept
    <2>3. v.password = (p \/ mem[e].password)
      BY <2>2
    <2> HIDE DEF v
    <2>4. CASE e = "ldap"
      <3>1. mem["ldap"].password
        BY <1>1, <2>1, PasswordInMemory DEF StoredPasswordIsKept, Running
      <3>2. w \in tried["ldap"] \/ w = v
        BY <1>1, <2>1, <2>4 DEF OneFault, Typed
      <3>3. ASSUME w \in tried["ldap"] PROVE w.password
        BY <2>1, <3>3 DEF AttemptsKeepPassword
      <3>4. v.password
        BY <2>3, <2>4, <3>1, Zenon
      <3> QED BY <3>2, <3>3, <3>4
    <2>5. CASE e # "ldap"
      BY <1>1, <1>2, <2>1, <2>5 DEF OneFault, Typed
    <2> QED BY <2>4, <2>5
  <1> QED BY <1>3, <1>4, <1>5, <1>6, <1>7 DEF Next, SyncConfigYAML

\* Once a bind password is acknowledged no update clears it, nor does a restart
\* or one fault, if config.yaml exists (admin.go:52-66).
THEOREM PasswordStays == Spec => []StoredPasswordIsKept
  <1>1. Init => OneFault /\ AttemptsKeepPassword
    BY OneFaultInit DEF Init, AttemptsKeepPassword, Dirs
  <1>2. OneFault /\ AttemptsKeepPassword /\ [Next]_vars => (OneFault /\ AttemptsKeepPassword)'
    BY OneFaultNext, AttemptsNext
  <1> QED BY <1>1, <1>2, PasswordInMemory, PTL DEF Spec
=============================================================================
