------------------------------- MODULE Image --------------------------------
(***************************************************************************)
(* The AMI of a launch (internal/aws/ami.go, resolveAMI): a profile that   *)
(* names an os and a version is launched from the newest image there is,   *)
(* as its execution environment last looked it up; the answer is kept for  *)
(* fifteen minutes.  Images are published and withdrawn meanwhile, and     *)
(* time passes between the look-up and the moment its answer is kept.      *)
(*                                                                         *)
(* An environment handles one launch at a time.  An image is its family    *)
(* and its creation date.  A pinned AMI is not looked up.                  *)
(***************************************************************************)
EXTENDS Integers

CONSTANTS
  AMICacheTTL,  \* amiCacheTTL, in ticks of the clock
  Wanted,       \* the ami_lookup and architecture of the profiles
  Changing,     \* bound: the families whose images change
  LastDate,     \* bound: the creation dates there are
  MaxTime       \* bound: how far the clock runs

\* Bound: the ticks one look-up may take; the Lambda has a minute.
LookupTicks == 1

Lookup == [os : {"ubuntu", "Ubuntu", "amazon-linux", "debian"}, version : STRING,
           architecture : {"x86_64", "arm64"}]

ASSUME AMICacheTTLAssumption == AMICacheTTL \in Nat
ASSUME WantedAssumption == Wanted \subseteq Lookup
ASSUME LastDateAssumption == LastDate \in Nat
ASSUME MaxTimeAssumption == MaxTime \in Nat

Dates == 1 .. LastDate
NoDate == 0

VARIABLES
  now,        \* the clock
  available,  \* creation dates of the images of each family
  cache,      \* AMIResolver.cache: an image and expiresAt
  launch,     \* the launch that wants an image
  newestAt    \* history: the dates that were newest at some moment of each tick

imageVars == <<now, available, cache, launch, newestAt>>

ToLower(os) == IF os = "Ubuntu" THEN "ubuntu" ELSE os

\* What is looked up: the parameter's name, or the filters on the images.
Family(w) == <<ToLower(w.os), w.version, w.architecture>>
Families == {Family(w) : w \in Wanted}

ASSUME ChangingAssumption == Changing \subseteq Families

Supported(w) ==
  \/ ToLower(w.os) = "amazon-linux" /\ w.version = "2023"
  \/ ToLower(w.os) = "ubuntu" /\ w.version \in {"20.04", "22.04", "24.04"}

\* Mutant: the architecture is left out of the key.
SystemKey(w) == <<ToLower(w.os), w.version>>

CacheKey(w) == <<ToLower(w.os), w.version, w.architecture>>

\* The image with the last CreationDate.
Newest(dates) ==
  IF dates = {} THEN NoDate ELSE CHOOSE d \in dates : \A e \in dates : e <= d

NoImage == [family |-> <<>>, date |-> NoDate]
NoEntry == [image |-> NoImage, expiresAt |-> -1]
NoLaunch == [pc |-> "idle", wants |-> <<>>, image |-> NoImage, since |-> 0]
Never == -1

ColdCache == [k \in {CacheKey(w) : w \in Wanted} |-> NoEntry]

ImageTypeOK ==
  /\ now \in 0 .. MaxTime
  /\ available \in [Families -> SUBSET Dates]
  /\ DOMAIN cache = DOMAIN ColdCache
  /\ \A k \in DOMAIN cache : cache[k].expiresAt \in -1 .. MaxTime + AMICacheTTL
  /\ launch.pc \in {"idle", "look", "store"}
  /\ launch.pc # "idle" => launch.wants \in Wanted /\ launch.since \in 0 .. now
  /\ newestAt \in [Families -> [Dates -> Never .. MaxTime]]

ImageInit ==
  /\ now = 0
  /\ available \in [Families -> SUBSET Dates]
  /\ cache = ColdCache
  /\ launch = NoLaunch
  /\ newestAt = [f \in Families |->
                   [d \in Dates |-> IF d = Newest(available[f]) THEN 0 ELSE Never]]

-----------------------------------------------------------------------------
(***************************************************************************)
(* Outside: the clock, the images, and the life of an environment.         *)
(***************************************************************************)
Seen(f, dates, time) ==
  [d \in Dates |-> IF d = Newest(dates) THEN time ELSE newestAt[f][d]]

Tick ==
  /\ now < MaxTime
  /\ launch.pc # "idle" => now < launch.since + LookupTicks
  /\ now' = now + 1
  /\ newestAt' = [f \in Families |-> Seen(f, available[f], now')]
  /\ UNCHANGED <<available, cache, launch>>

\* An image is published or withdrawn.
Publish(f, d) ==
  LET dates == IF d \in available[f] THEN available[f] \ {d} ELSE available[f] \cup {d}
  IN /\ available' = [available EXCEPT ![f] = dates]
     /\ newestAt' = [newestAt EXCEPT ![f] = Seen(f, dates, now)]
     /\ UNCHANGED <<now, cache, launch>>

ColdStart ==
  /\ cache' = ColdCache
  /\ launch' = NoLaunch
  /\ UNCHANGED <<now, available, newestAt>>

-----------------------------------------------------------------------------
(***************************************************************************)
(* LatestAMI: the cache, the look-up, and the cache again.                 *)
(***************************************************************************)
\* Mutant: an entry is good as long as the environment lives.
FreshForEver(k) == cache[k] # NoEntry

\* fromCache: at expiresAt the entry is still good.
Fresh(k) == cache[k] # NoEntry /\ now <= cache[k].expiresAt

\* A launch that finds a fresh entry takes its image and changes nothing.
LatestAMI(w) ==
  /\ launch.pc = "idle"
  /\ ~Fresh(CacheKey(w))
  /\ launch' = [NoLaunch EXCEPT !.pc = "look", !.wants = w, !.since = now]
  /\ UNCHANGED <<now, available, cache, newestAt>>

LookUp ==
  LET f == Family(launch.wants)
  IN /\ launch.pc = "look"
     /\ Supported(launch.wants)
     /\ Newest(available[f]) # NoDate
     /\ launch' = [launch EXCEPT !.pc = "store",
                                 !.image = [family |-> f, date |-> Newest(available[f])]]
     /\ UNCHANGED <<now, available, cache, newestAt>>

\* Unsupported, nothing found, or the call failed: the launch is given up.
LookUpFails ==
  /\ launch.pc = "look"
  /\ launch' = NoLaunch
  /\ UNCHANGED <<now, available, cache, newestAt>>

Store ==
  /\ launch.pc = "store"
  /\ cache' = [cache EXCEPT ![CacheKey(launch.wants)] =
                 [image |-> launch.image, expiresAt |-> now + AMICacheTTL]]
  /\ launch' = NoLaunch
  /\ UNCHANGED <<now, available, newestAt>>

ImageNext ==
  \/ Tick
  \/ \E f \in Changing, d \in Dates : Publish(f, d)
  \/ ColdStart
  \/ \E w \in Wanted : LatestAMI(w)
  \/ LookUp \/ LookUpFails \/ Store

ImageSpec == ImageInit /\ [][ImageNext]_imageVars

-----------------------------------------------------------------------------
\* The image that a launch for w would be given from the cache.
Kept(w) == cache[CacheKey(w)].image

\* No launch is given an image that was not the newest of its family lately: it was so
\* within the time an answer is kept and the time its look-up took.  A withdrawn image
\* fails launches for no longer than that (ami.go:17-20, 38-40).
ImageRecent ==
  \A w \in Wanted : Fresh(CacheKey(w)) =>
    newestAt[Kept(w).family][Kept(w).date] >= now - AMICacheTTL - LookupTicks

\* Profiles share the cache, but a launch is given an image of the system and the
\* architecture it asked for (ami.go:57-60).
ImageFits == \A w \in Wanted : Fresh(CacheKey(w)) => Kept(w).family = Family(w)
=============================================================================
