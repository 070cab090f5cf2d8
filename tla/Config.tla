------------------------------- MODULE Config -------------------------------
(***************************************************************************)
(* The configuration (internal/config) as every Lambda loads it at its     *)
(* cold start, and what the provision Lambda then makes of the labels of a *)
(* job (ResolveProfile).  Profiles are a Go map: validateProfiles and      *)
(* ResolveProfile range over it in an order that differs from one time to  *)
(* the next.                                                               *)
(*                                                                         *)
(* A text that has to be there is TRUE or FALSE; its content is left out.  *)
(* The number types are small: no profile asks for 2^31 gigabytes.         *)
(***************************************************************************)
EXTENDS Integers, FiniteSets, Sequences

CONSTANTS
  Names,     \* the keys a profile may have in the map
  Labels,    \* the labels of profiles and jobs
  RawConfigs \* the configurations that parse

\* A profile without labels is known by its own key.
ASSUME NamesAssumption == Names \subseteq Labels
ASSUME LabelsAssumption == IsFiniteSet(Labels)

NoName == "no profile"
ASSUME NoNameAssumption == NoName \notin Names

VARIABLES
  raw,      \* runner.yaml as it was written
  cfg,      \* the Config in memory
  stage,    \* where Load and Validate are
  todo,     \* profiles that validateProfiles has not reached
  owner,    \* labelOwner
  reports,  \* errs: where, and what is wrong there
  asked,    \* the labels of the job that is resolved, again and again
  answers   \* what ResolveProfile has answered

configVars == <<raw, cfg, stage, todo, owner, reports, asked, answers>>

defaultDiskSizeGB == 25
minDiskSizeGB == 8
defaultRunnerCount == 1
maxRunnerCount == 2
defaultAutoTerminatingTime == 60  \* minutes
defaultBootTimeout == 10

Architectures == {"x86_64", "arm64"}
Scopes == {"repository", "organization"}

\* Texts of a Config that Validate wants to be there, and those it may leave out.
Needed == {"app_id", "private_key_secret_name", "webhook_secret_name", "organization"}

Profile == [labels : Seq(Labels), architecture : Architectures \cup {"other"},
            ami : BOOLEAN, lookup : BOOLEAN, os : BOOLEAN, version : BOOLEAN,
            instanceType : BOOLEAN, disk : Int, ram : Int, count : Int]

ConfigOf(names) ==
  [given : SUBSET Needed, scope : Scopes \cup {"other"}, repository : BOOLEAN,
   group : BOOLEAN, idle : Int, auto : Int, boot : Int, profiles : [names -> Profile]]

IsConfig(c) == \E names \in SUBSET Names : c \in ConfigOf(names)

ASSUME RawAssumption == \A c \in RawConfigs : IsConfig(c)

\* What else Validate judges, in a Config and in a profile.
ConfigField == {"scope", "repository", "group", "idle_timeout", "auto_terminating_time",
                "boot_timeout", "profiles"}
ProfileField == {"architecture", "ami", "os", "version", "instance_type", "disk_size",
                 "virtual_ram", "runner_count"}

Report == [at   : Names \cup {"config"},
           what : Needed \cup ConfigField \cup ProfileField \cup {"label"},
           nth  : Nat]
Wrong(where, what) == [at |-> where, what |-> what, nth |-> 0]

RangeOf(s) == {s[i] : i \in DOMAIN s}

-----------------------------------------------------------------------------
(***************************************************************************)
(* Load and Validate.                                                      *)
(***************************************************************************)

OrDefault(value, default) == IF value <= 0 THEN default ELSE value

\* Mutant: the default is the key itself, not a list of it.
BareLabel(p, name) ==
  [p EXCEPT !.labels = IF @ = <<>> THEN name ELSE @,
            !.disk = OrDefault(@, defaultDiskSizeGB),
            !.count = OrDefault(@, defaultRunnerCount)]

\* Mutant: the labels are left as they are written.
KeepLabels(p, name) ==
  [p EXCEPT !.disk = OrDefault(@, defaultDiskSizeGB),
            !.count = OrDefault(@, defaultRunnerCount)]

DefaultedProfile(p, name) ==
  [p EXCEPT !.labels = IF @ = <<>> THEN <<name>> ELSE @,
            !.disk = OrDefault(@, defaultDiskSizeGB),
            !.count = OrDefault(@, defaultRunnerCount)]

Defaulted(c) ==
  [c EXCEPT !.auto = OrDefault(@, defaultAutoTerminatingTime),
            !.boot = OrDefault(@, defaultBootTimeout),
            !.profiles = [n \in DOMAIN @ |-> DefaultedProfile(@[n], n)]]

ConfigReports(c) ==
  {Wrong("config", f) : f \in Needed \ c.given}
    \cup {Wrong("config", f) : f \in
           {what \in ConfigField :
              CASE what = "scope" -> c.scope \notin Scopes
                [] what = "repository" -> c.scope = "repository" /\ ~c.repository
                [] what = "group" -> c.scope = "repository" /\ c.group
                [] what = "idle_timeout" -> c.idle <= 0
                [] what = "auto_terminating_time" -> c.auto <= 0
                [] what = "boot_timeout" -> c.boot <= 0
                [] what = "profiles" -> DOMAIN c.profiles = {}}}

ProfileReports(n, p) ==
  {Wrong(n, f) : f \in
     {what \in ProfileField :
        CASE what = "architecture" -> p.architecture \notin Architectures
          [] what = "ami" -> p.ami = p.lookup
          [] what = "os" -> p.lookup /\ ~p.ami /\ ~p.os
          [] what = "version" -> p.lookup /\ ~p.ami /\ ~p.version
          [] what = "instance_type" -> ~p.instanceType
          [] what = "disk_size" -> p.disk < minDiskSizeGB
          [] what = "virtual_ram" -> p.ram < 0
          [] what = "runner_count" -> p.count \notin 1 .. maxRunnerCount}}

\* Mutant: the first repeated label of a profile ends the search.
FirstLabelReport(n, p) ==
  LET repeated == {k \in DOMAIN p.labels :
                     owner[p.labels[k]] # NoName \/ \E h \in 1 .. k - 1 : p.labels[h] = p.labels[k]}
  IN {[at |-> n, what |-> "label", nth |-> i] : i \in
        {k \in repeated : \A h \in repeated : k <= h}}

\* Mutant: only neighbours in a profile's own list are compared.
OwnLabelReports(n, p) ==
  {[at |-> n, what |-> "label", nth |-> i] : i \in
     {k \in DOMAIN p.labels : k > 1 /\ p.labels[k] = p.labels[k - 1]}}

\* A label is wrong where it has an owner already: another profile, or this one.
LabelReports(n, p) ==
  {[at |-> n, what |-> "label", nth |-> i] : i \in
     {k \in DOMAIN p.labels :
        owner[p.labels[k]] # NoName \/ \E h \in 1 .. k - 1 : p.labels[h] = p.labels[k]}}

ConfigInit ==
  /\ raw \in RawConfigs
  /\ cfg = raw
  /\ stage = "loaded"
  /\ todo = {}
  /\ owner = [l \in Labels |-> NoName]
  /\ reports = {}
  /\ asked = {}
  /\ answers = {}

ApplyDefaults ==
  /\ stage = "loaded"
  /\ cfg' = Defaulted(cfg)
  /\ stage' = "defaulted"
  /\ UNCHANGED <<raw, todo, owner, reports, asked, answers>>

Validate ==
  /\ stage = "defaulted"
  /\ reports' = ConfigReports(cfg)
  /\ todo' = DOMAIN cfg.profiles
  /\ stage' = "profiles"
  /\ UNCHANGED <<raw, cfg, owner, asked, answers>>

ValidateProfile(n) ==
  LET p == cfg.profiles[n]
  IN /\ stage = "profiles"
     /\ n \in todo
     /\ reports' = reports \cup ProfileReports(n, p) \cup LabelReports(n, p)
     /\ owner' = [l \in Labels |-> IF owner[l] = NoName /\ l \in RangeOf(p.labels)
                                     THEN n ELSE owner[l]]
     /\ todo' = todo \ {n}
     /\ UNCHANGED <<raw, cfg, stage, asked, answers>>

\* A Lambda whose configuration is refused exits.
Verdict ==
  /\ stage = "profiles"
  /\ todo = {}
  /\ stage' = IF reports = {} THEN "accepted" ELSE "rejected"
  /\ UNCHANGED <<raw, cfg, todo, owner, reports, asked, answers>>

-----------------------------------------------------------------------------
(***************************************************************************)
(* ResolveProfile: the first profile in map order that has one of the      *)
(* labels.                                                                 *)
(***************************************************************************)
Matches(labels) ==
  {n \in DOMAIN cfg.profiles : RangeOf(cfg.profiles[n].labels) \cap labels # {}}

NewJob ==
  /\ stage = "accepted"
  /\ asked = {}
  /\ asked' \in SUBSET Labels \ {{}}
  /\ UNCHANGED <<raw, cfg, stage, todo, owner, reports, answers>>

ResolveProfile ==
  /\ asked # {}
  /\ \/ \E n \in Matches(asked) : answers' = answers \cup {n}
     \/ Matches(asked) = {} /\ answers' = answers \cup {NoName}
  /\ UNCHANGED <<raw, cfg, stage, todo, owner, reports, asked>>

ConfigNext ==
  \/ ApplyDefaults
  \/ Validate
  \/ \E n \in Names : ValidateProfile(n)
  \/ Verdict
  \/ NewJob
  \/ ResolveProfile

ConfigSpec == ConfigInit /\ [][ConfigNext]_configVars

ConfigTypeOK ==
  /\ IsConfig(raw)
  /\ IsConfig(cfg)
  /\ stage \in {"loaded", "defaulted", "profiles", "accepted", "rejected"}
  /\ todo \subseteq DOMAIN cfg.profiles
  /\ owner \in [Labels -> Names \cup {NoName}]
  /\ reports \subseteq Report
  /\ asked \subseteq Labels
  /\ answers \subseteq Names \cup {NoName}

-----------------------------------------------------------------------------
(***************************************************************************)
(* The rule that the two loops are to enforce, read off the configuration  *)
(* as it was written.                                                      *)
(***************************************************************************)
LabelsOf(n) ==
  IF raw.profiles[n].labels = <<>> THEN {n} ELSE RangeOf(raw.profiles[n].labels)

DistinctLabels ==
  /\ \A n \in DOMAIN raw.profiles :
       \A i, k \in DOMAIN raw.profiles[n].labels :
         raw.profiles[n].labels[i] = raw.profiles[n].labels[k] => i = k
  /\ \A m, n \in DOMAIN raw.profiles : m # n => LabelsOf(m) \cap LabelsOf(n) = {}

WellFormedProfile(p) ==
  /\ p.architecture \in Architectures
  /\ \/ p.ami /\ ~p.lookup
     \/ ~p.ami /\ p.lookup /\ p.os /\ p.version
  /\ p.instanceType
  /\ p.disk <= 0 \/ p.disk >= minDiskSizeGB
  /\ p.ram >= 0
  /\ p.count <= maxRunnerCount

WellFormed ==
  /\ raw.given = Needed
  /\ \/ raw.scope = "organization"
     \/ raw.scope = "repository" /\ raw.repository /\ ~raw.group
  /\ raw.idle > 0
  /\ DOMAIN raw.profiles # {}
  /\ \A n \in DOMAIN raw.profiles : WellFormedProfile(raw.profiles[n])
  /\ DistinctLabels

\* In whatever order the maps are ranged over, the same configurations are accepted:
\* those that are well formed once the defaults are filled in, the default label of a
\* profile included (config.go:291-293, 321-326).
VerdictIsRule == stage \in {"accepted", "rejected"} => (stage = "accepted" <=> WellFormed)

\* The repeated labels are all reported at once, however the profiles come: as many as
\* there are declarations too many (config.go:229-233).
LabelsDiagnosed ==
  stage \in {"accepted", "rejected"} =>
    Cardinality({r \in reports : r.what = "label"})
      = Cardinality(UNION {{n} \X DOMAIN cfg.profiles[n].labels : n \in DOMAIN cfg.profiles})
          - Cardinality({l \in Labels : \E n \in DOMAIN raw.profiles : l \in LabelsOf(n)})

\* What no label may have two profiles for (config.go:321-326): a label alone never
\* resolves ambiguously, however many deliveries of a job ask with it and in whatever
\* order the profiles are ranged over.
LabelUnambiguous == \A l \in Labels : asked = {l} => Cardinality(answers) <= 1
=============================================================================
