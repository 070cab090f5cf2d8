------------------------------ MODULE MCParts -------------------------------
(***************************************************************************)
(* Small instances, for TLC, of the parts that share no state with each    *)
(* other.  A behaviour is one of one part: the others stay as they began,  *)
(* so the states of the parts add up and do not multiply.  A part that     *)
(* stays as it began has no step to take, so fairness asks nothing of it.  *)
(***************************************************************************)
EXTENDS Webhook, Config, Installation, Image, ProcessCheck, Lifetime, TLC

VARIABLE part  \* the part that moves

partsVars == <<part, vars, configVars, installationVars, imageVars, checkVars,
              lifetimeVars>>

-----------------------------------------------------------------------------
(***************************************************************************)
(* The configurations: a good one; one field of it or of its first profile *)
(* changed; and every choice of labels for two profiles.                   *)
(***************************************************************************)
GoodProfile ==
  [labels |-> <<"gpu">>, architecture |-> "arm64", ami |-> TRUE, lookup |-> FALSE,
   os |-> FALSE, version |-> FALSE, instanceType |-> TRUE, disk |-> 0, ram |-> 0, count |-> 0]

GoodConfig ==
  [given |-> Needed, scope |-> "organization", repository |-> FALSE, group |-> TRUE,
   idle |-> 5, auto |-> 0, boot |-> 0,
   profiles |-> ("amd" :> GoodProfile @@ "arm" :> [GoodProfile EXCEPT !.labels = <<>>])]

ConfigVariants ==
  {[GoodConfig EXCEPT !.given = g] : g \in SUBSET Needed}
    \cup {[GoodConfig EXCEPT !.scope = s, !.repository = r, !.group = g] :
            s \in Scopes \cup {"other"}, r \in BOOLEAN, g \in BOOLEAN}
    \cup {[GoodConfig EXCEPT !.idle = i, !.auto = a, !.boot = b] :
            i \in -1 .. 1, a \in -1 .. 1, b \in -1 .. 1}
    \cup {[GoodConfig EXCEPT !.profiles = <<>>]}

ProfileVariants ==
  {[GoodProfile EXCEPT !.ami = a, !.lookup = l, !.os = o, !.version = v] :
     a \in BOOLEAN, l \in BOOLEAN, o \in BOOLEAN, v \in BOOLEAN}
    \cup {[GoodProfile EXCEPT !.architecture = "other"],
          [GoodProfile EXCEPT !.instanceType = FALSE]}
    \cup {[GoodProfile EXCEPT !.disk = d, !.ram = m, !.count = k] :
            d \in {-1, 0, 1, 7, 8}, m \in -1 .. 1, k \in -1 .. 3}

LabelLists == {<<>>} \cup {<<l>> : l \in Labels} \cup (Labels \X Labels)

MCRawConfigs ==
  ConfigVariants
    \cup {[GoodConfig EXCEPT !.profiles["amd"] = p] : p \in ProfileVariants}
    \cup {[GoodConfig EXCEPT !.profiles["amd"].labels = a, !.profiles["arm"].labels = b] :
            a \in LabelLists, b \in LabelLists}

MCWanted ==
  {[os |-> "ubuntu", version |-> "24.04", architecture |-> "x86_64"],
   [os |-> "Ubuntu", version |-> "24.04", architecture |-> "arm64"],
   [os |-> "debian", version |-> "12", architecture |-> "x86_64"]}

MCChanging == {<<"ubuntu", "24.04", "x86_64">>}

MCIds == <<"i-1", "i-2", "i-3">>

-----------------------------------------------------------------------------
PartsInit ==
  /\ part \in {"webhook", "config", "installation", "image", "check", "lifetime"}
  /\ Init /\ ConfigInit /\ InstallationInit /\ ImageInit /\ CheckInit /\ LifetimeInit
  /\ part # "config" => raw = GoodConfig
  /\ available = [f \in Families |-> {1}]

PartsNext ==
  \/ /\ part = "webhook" /\ Next
     /\ UNCHANGED <<part, configVars, installationVars, imageVars, checkVars, lifetimeVars>>
  \/ /\ part = "config" /\ ConfigNext
     /\ UNCHANGED <<part, vars, installationVars, imageVars, checkVars, lifetimeVars>>
  \/ /\ part = "installation" /\ InstallationNext
     /\ UNCHANGED <<part, vars, configVars, imageVars, checkVars, lifetimeVars>>
  \/ /\ part = "image" /\ ImageNext
     /\ UNCHANGED <<part, vars, configVars, installationVars, checkVars, lifetimeVars>>
  \/ /\ part = "check" /\ CheckNext
     /\ UNCHANGED <<part, vars, configVars, installationVars, imageVars, lifetimeVars>>
  \/ /\ part = "lifetime" /\ LifetimeNext
     /\ UNCHANGED <<part, vars, configVars, installationVars, imageVars, checkVars>>

PartsSpec ==
  PartsInit /\ [][PartsNext]_partsVars /\ InstallationFairness /\ CheckFairness

-----------------------------------------------------------------------------
\* The types of all the parts; Installation's and ProcessCheck's say too what a call in
\* progress remembers.
PartsTypeOK ==
  ConfigTypeOK /\ InstallationTypeOK /\ ImageTypeOK /\ CheckTypeOK /\ LifetimeTypeOK
=============================================================================
