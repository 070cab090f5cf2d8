---------------------------- MODULE Installation ----------------------------
(***************************************************************************)
(* The GitHub client that the provision and cleanup Lambdas share through  *)
(* the table (internal/github: Provider.Client; internal/store/config.go). *)
(* An execution environment keeps its client until it is recycled.  The    *)
(* installation ID the client is built for comes from the configuration,   *)
(* from the CONFIG row of an earlier cold start, or from GitHub.           *)
(*                                                                         *)
(* The App may be removed and installed again at any time, under a new ID. *)
(* Nobody tells the Lambdas: a client or a row with the old ID is stale.   *)
(***************************************************************************)
EXTENDS Integers

CONSTANTS
  Environments,     \* execution environments
  InstallationID,   \* github.installation_id of the configuration, or 0
  MaxInstallations  \* bound: how often the App is installed

NoID == 0

ASSUME InstallationIDAssumption == InstallationID \in Nat
ASSUME MaxInstallationsAssumption == MaxInstallations \in Nat \ {0}

VARIABLES
  installed,  \* the ID the App is installed under, or NoID
  issued,     \* the last ID GitHub gave
  row,        \* value of the CONFIG row, or NoID when it is not there
  client,     \* the installation an environment's client is for, or NoID
  step,       \* where a call of Client is
  id          \* the local variable of that call

installationVars == <<installed, issued, row, client, step, id>>

IDs == 0 .. MaxInstallations \cup {InstallationID}

InstallationTypeOK ==
  /\ installed \in {NoID, issued}
  /\ issued \in IDs
  /\ row \in IDs
  /\ client \in [Environments -> IDs]
  /\ step \in [Environments -> {"idle", "get", "resolve", "put"}]
  /\ id \in [Environments -> IDs]
  /\ \A e \in Environments : /\ step[e] = "put" <=> id[e] # NoID
                             /\ step[e] # "idle" => client[e] = NoID

InstallationInit ==
  /\ installed = 1
  /\ issued = 1
  /\ row = NoID
  /\ client = [e \in Environments |-> NoID]
  /\ step = [e \in Environments |-> "idle"]
  /\ id = [e \in Environments |-> NoID]

-----------------------------------------------------------------------------
(***************************************************************************)
(* GitHub, DynamoDB and Lambda.                                            *)
(***************************************************************************)
Uninstall ==
  /\ installed # NoID
  /\ installed' = NoID
  /\ UNCHANGED <<issued, row, client, step, id>>

Install ==
  /\ installed = NoID
  /\ issued < MaxInstallations
  /\ issued' = issued + 1
  /\ installed' = issued'
  /\ UNCHANGED <<row, client, step, id>>

\* The row's ttl has passed.
RowExpires ==
  /\ row # NoID
  /\ row' = NoID
  /\ UNCHANGED <<installed, issued, client, step, id>>

\* An environment ends, or dies in the middle of a call; the next one starts cold.
Recycle(e) ==
  /\ client[e] # NoID \/ step[e] # "idle"
  /\ client' = [client EXCEPT ![e] = NoID]
  /\ step' = [step EXCEPT ![e] = "idle"]
  /\ id' = [id EXCEPT ![e] = NoID]
  /\ UNCHANGED <<installed, issued, row>>

-----------------------------------------------------------------------------
(***************************************************************************)
(* Provider.Client.  A memoized client is returned at once.                *)
(***************************************************************************)
Goto(e, next) == step' = [step EXCEPT ![e] = next]

Memoize(e, i) ==
  /\ client' = [client EXCEPT ![e] = i]
  /\ id' = [id EXCEPT ![e] = NoID]
  /\ Goto(e, "idle")

CallClient(e) ==
  /\ step[e] = "idle"
  /\ client[e] = NoID
  /\ IF InstallationID # NoID
       THEN Memoize(e, InstallationID)
       ELSE Goto(e, "get") /\ UNCHANGED <<client, id>>
  /\ UNCHANGED <<installed, issued, row>>

\* Mutant: an ID that is in use has its ttl renewed.
RenewInstallationID(e) ==
  /\ step[e] = "get"
  /\ \/ row # NoID /\ id' = [id EXCEPT ![e] = row] /\ Goto(e, "put") /\ UNCHANGED client
     \/ Goto(e, "resolve") /\ UNCHANGED <<client, id>>
  /\ UNCHANGED <<installed, issued, row>>

\* A failed read counts as a row that is not there.
GetInstallationID(e) ==
  /\ step[e] = "get"
  /\ \/ row # NoID /\ Memoize(e, row)
     \/ Goto(e, "resolve") /\ UNCHANGED <<client, id>>
  /\ UNCHANGED <<installed, issued, row>>

\* Mutant: an error of the resolution is taken for an answer.
ResolveAnyhow(e) ==
  /\ step[e] = "resolve"
  /\ id' = [id EXCEPT ![e] = installed]
  /\ Goto(e, "put")
  /\ UNCHANGED <<installed, issued, row, client>>

\* GitHub answers with the present ID, or the call fails and the caller has no client.
ResolveInstallationID(e) ==
  /\ step[e] = "resolve"
  /\ \/ installed # NoID /\ id' = [id EXCEPT ![e] = installed] /\ Goto(e, "put")
     \/ Goto(e, "idle") /\ UNCHANGED id
  /\ UNCHANGED <<installed, issued, row, client>>

\* Best effort: the client is memoized whether the row was written or not.
PutInstallationID(e) ==
  /\ step[e] = "put"
  /\ row' \in {row, id[e]}
  /\ Memoize(e, id[e])
  /\ UNCHANGED <<installed, issued>>

Resolving(e) == GetInstallationID(e) \/ ResolveInstallationID(e) \/ PutInstallationID(e)

InstallationNext ==
  \/ Uninstall \/ Install \/ RowExpires
  \/ \E e \in Environments : Recycle(e) \/ CallClient(e) \/ Resolving(e)

InstallationSpec == InstallationInit /\ [][InstallationNext]_installationVars

(***************************************************************************)
(* A call ends, DynamoDB deletes what has expired, and Lambda keeps no     *)
(* environment for ever.                                                   *)
(***************************************************************************)
InstallationFairness ==
  /\ WF_installationVars(RowExpires)
  /\ \A e \in Environments : /\ WF_installationVars(Resolving(e))
                             /\ WF_installationVars(Recycle(e))

-----------------------------------------------------------------------------
\* An App that was installed again is used under its new ID in the end, in every
\* environment, although old environments pass their ID on to new ones through the row:
\* "letting it expire lets a re-installed App self-heal" (config.go:14-18).
SelfHeals == <>[](\A e \in Environments : client[e] \in {NoID, installed})
=============================================================================
