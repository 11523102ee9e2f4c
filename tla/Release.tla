------------------------------ MODULE Release ------------------------------
(***************************************************************************)
(* deploy/server-deploy.sh: a release is installed in stages on one        *)
(* server.  A stage may fail, which rolls back once the files have been    *)
(* switched; or the script may be cut off, which runs nothing more.  The   *)
(* next release starts from whatever was left.                             *)
(***************************************************************************)
EXTENDS Naturals, FiniteSets

CONSTANTS
    NoContainers,  \* the API is not running
    MaxVersion,    \* releases, numbered from 1, the one that runs at first
    MaxReleases    \* bound: times the script is run

ASSUME ReleaseAssumption ==
    MaxVersion \in Nat \ {0} /\ MaxReleases \in Nat /\ NoContainers \notin [version : Nat]

VARIABLES
    compose,    \* the release of docker-compose.yml
    env,        \* .env: the release, the settings key and the key before it
    installed,  \* .deska-installed-version
    schema,     \* the last release whose migrations are applied
    api,        \* the .env the API was started with
    images,     \* releases whose images are on the server
    sealed,     \* keys that stored secrets are encrypted under
    stage, target, candidate,
    backup,     \* of the release in hand
    releases,   \* times the script was run
    parted,     \* it was left with some of the files of a release switched
    undone      \* a key with secrets under it was rolled back

releaseVars == <<compose, env, installed, schema, api, images, sealed, stage, target,
                 candidate, backup, releases, parted, undone>>
files == <<compose, env, installed>>
plan  == <<target, candidate, backup, releases>>
marks == <<parted, undone>>
-----------------------------------------------------------------------------
Versions == 1..MaxVersion
Envs     == [version : Versions, key : 0..MaxReleases, previous : 0..MaxReleases]
Stages   == {"idle", "reclaimed", "candidate", "backedUp", "pulled", "migrated", "moved",
             "switched", "started", "verified", "recorded"}

(* The key of the first .env, 0, is one that the script replaces.          *)
ReleaseInit ==
    /\ compose = 1 /\ env = [version |-> 1, key |-> 0, previous |-> 0] /\ installed = 1
    /\ schema = 1 /\ api = env /\ images = {1} /\ sealed = {0}
    /\ stage = "idle" /\ target = 1 /\ candidate = env
    /\ backup = [compose |-> 1, env |-> env, installed |-> 1]
    /\ releases = 0 /\ parted = FALSE /\ undone = FALSE

(* docker image rm refuses an image that a container uses.                 *)
OnlyImages(S) ==
    images' = {v \in images : v \in S \/ (api # NoContainers /\ v = api.version)}

From(from, to) == stage = from /\ stage' = to
-----------------------------------------------------------------------------
(* Any version may be asked for, the same one again or an older one; the   *)
(* workflow runs one release at a time.                                    *)
Reclaim(v) ==
    /\ From("idle", "reclaimed") /\ releases < MaxReleases
    /\ target' = v /\ releases' = releases + 1
    /\ OnlyImages({v, installed})
    /\ UNCHANGED <<files, schema, api, sealed, candidate, backup, marks>>

(* One that forgets the key that is replaced.                              *)
PrepareForgetting ==
    /\ From("reclaimed", "candidate")
    /\ LET key == IF env.key = 0 THEN releases ELSE env.key
       IN candidate' = [version |-> target, key |-> key, previous |-> key]
    /\ UNCHANGED <<files, schema, api, images, sealed, target, backup, releases, marks>>

(* The candidate .env: a key that is not safe is replaced by a random one  *)
(* and kept to decrypt with.                                               *)
Prepare ==
    /\ From("reclaimed", "candidate")
    /\ candidate' = IF env.key = 0
                    THEN [version |-> target, key |-> releases, previous |-> env.key]
                    ELSE [env EXCEPT !.version = target]
    /\ UNCHANGED <<files, schema, api, images, sealed, target, backup, releases, marks>>

BackUp ==
    /\ From("candidate", "backedUp")
    /\ backup' = [compose |-> compose, env |-> env, installed |-> installed]
    /\ UNCHANGED <<files, schema, api, images, sealed, target, candidate, releases, marks>>

Pull ==
    /\ From("backedUp", "pulled")
    /\ images' = images \cup {target}
    /\ UNCHANGED <<files, schema, api, sealed, plan, marks>>

(* One that leaves the migrations until the services are started.          *)
MigrateLater ==
    /\ From("pulled", "migrated")
    /\ UNCHANGED <<files, schema, api, images, sealed, plan, marks>>

Migrate ==
    /\ From("pulled", "migrated")
    /\ schema' = IF target > schema THEN target ELSE schema
    /\ UNCHANGED <<files, api, images, sealed, plan, marks>>

MoveCompose ==
    /\ From("migrated", "moved")
    /\ compose' = target
    /\ UNCHANGED <<env, installed, schema, api, images, sealed, plan, marks>>

MoveEnv ==
    /\ From("moved", "switched")
    /\ env' = candidate
    /\ UNCHANGED <<compose, installed, schema, api, images, sealed, plan, marks>>

(* docker compose up removes the old container before the new one runs.    *)
RemoveOld ==
    /\ stage = "switched" /\ api # env
    /\ api' = NoContainers
    /\ UNCHANGED <<files, schema, images, sealed, stage, plan, marks>>

StartServices ==
    /\ From("switched", "started")
    /\ api' = env
    /\ UNCHANGED <<files, schema, images, sealed, plan, marks>>

(* The API answers with the version, and the site answers.                 *)
Verify ==
    /\ From("started", "verified")
    /\ UNCHANGED <<files, schema, api, images, sealed, plan, marks>>

Record ==
    /\ From("verified", "recorded")
    /\ installed' = target
    /\ UNCHANGED <<compose, env, schema, api, images, sealed, plan, marks>>

Retire ==
    /\ From("recorded", "idle")
    /\ OnlyImages({target, backup.installed})
    /\ parted' = FALSE
    /\ UNCHANGED <<files, schema, api, sealed, plan, undone>>
-----------------------------------------------------------------------------
(* Before the switch nothing is put back (on_deploy_error).                *)
FailsBefore ==
    /\ stage \in {"reclaimed", "candidate", "backedUp", "pulled", "migrated", "moved"}
    /\ stage' = "idle"
    /\ parted' = (parted \/ stage = "moved")
    /\ UNCHANGED <<files, schema, api, images, sealed, plan, undone>>

(* One that keeps the version of the release it undoes.                    *)
RollBackFiles ==
    /\ stage \in {"switched", "started", "verified", "recorded"} /\ stage' = "idle"
    /\ compose' = backup.compose /\ env' = backup.env
    /\ undone' = (undone \/ ~(sealed \subseteq {backup.env.key, backup.env.previous}))
    /\ api' = IF backup.env.version \in images THEN env' ELSE NoContainers
    /\ UNCHANGED <<installed, schema, images, sealed, plan, parted>>

(* The services are started from the files of the backup, with no pull; if *)
(* they do not come up, the version is not put back.                       *)
RollBack ==
    /\ stage \in {"switched", "started", "verified", "recorded"} /\ stage' = "idle"
    /\ compose' = backup.compose /\ env' = backup.env
    /\ undone' = (undone \/ ~(sealed \subseteq {backup.env.key, backup.env.previous}))
    /\ \/ /\ backup.env.version \in images
          /\ api' = env' /\ installed' = backup.installed
          /\ UNCHANGED parted
       \/ /\ api' = NoContainers
          /\ parted' = (parted \/ stage = "recorded")
          /\ UNCHANGED installed
    /\ UNCHANGED <<schema, images, sealed, plan>>

(* The connection, the job or the server ends: nothing is put back.        *)
CutOff ==
    /\ stage # "idle" /\ stage' = "idle"
    /\ parted' = (parted \/ stage \in {"moved", "switched", "started", "verified", "recorded"})
    /\ UNCHANGED <<files, schema, api, images, sealed, plan, undone>>

(* The running API encrypts a secret with the key it was started with.     *)
StoreSecret ==
    /\ api # NoContainers
    /\ sealed' = sealed \cup {api.key}
    /\ UNCHANGED <<files, schema, api, images, stage, plan, marks>>

ReleaseNext ==
    \/ \E v \in Versions : Reclaim(v)
    \/ Prepare
    \/ BackUp
    \/ Pull
    \/ Migrate
    \/ MoveCompose
    \/ MoveEnv
    \/ RemoveOld
    \/ StartServices
    \/ Verify
    \/ Record
    \/ Retire
    \/ FailsBefore
    \/ RollBack
    \/ CutOff
    \/ StoreSecret

ReleaseSpec == ReleaseInit /\ [][ReleaseNext]_releaseVars
-----------------------------------------------------------------------------
ReleaseTypeOK ==
    /\ compose \in Versions /\ env \in Envs /\ installed \in Versions /\ schema \in Versions
    /\ api \in Envs \cup {NoContainers} /\ images \subseteq Versions
    /\ sealed \subseteq 0..MaxReleases
    /\ stage \in Stages /\ target \in Versions /\ candidate \in Envs
    /\ backup \in [compose : Versions, env : Envs, installed : Versions]
    /\ releases \in 0..MaxReleases /\ parted \in BOOLEAN /\ undone \in BOOLEAN

(* The API never runs before the migrations of its release.                *)
SchemaFirst == api # NoContainers => schema >= api.version

(* Between two releases the files name one version, unless a release was   *)
(* left between the first of them and the last; one that ends well mends   *)
(* that.                                                                   *)
OneVersion ==
    stage = "idle" /\ ~parted =>
        compose = env.version /\ installed = env.version

(* What is stored can be decrypted by the API that runs, unless a release  *)
(* that had stored something under its new key was rolled back.            *)
Decrypted == api # NoContainers /\ ~undone => sealed \subseteq {api.key, api.previous}

(* What a rollback would start is on the server.                           *)
CanRollBack ==
    stage \in {"switched", "started", "verified", "recorded"} /\ ~parted =>
        backup.env.version \in images

ReleaseHolds == SchemaFirst /\ OneVersion /\ Decrypted /\ CanRollBack
=============================================================================
