------------------------------ MODULE MCParts ------------------------------
(***************************************************************************)
(* The parts of the system that share no state with each other or with the *)
(* queue and the articles, each explored while all others are as at the    *)
(* start, so that the run has the sum of their states and not the product. *)
(***************************************************************************)
EXTENDS Membership, Health, SourceReader, Categories, TenantSettings, PlatformConfig, Release,
        TLC

CONSTANTS first, second   \* callers

VARIABLE part   \* the part whose behaviour this is

Agents == {first, second}

members    == membershipVars
health     == healthVars
reader     == readerVars
categories == categoriesVars
settings   == settingsVars
platform   == configVars
server     == releaseVars

Parts == {"members", "health", "reader", "categories", "settings", "platform", "server"}

PartsInit ==
    /\ part \in Parts
    /\ MembershipInit /\ HealthInit /\ ReaderInit
    /\ CategoriesInit /\ SettingsInit /\ ConfigInit /\ ReleaseInit
    /\ part # "reader" => chromium
    /\ part # "settings" => binds
    /\ part # "platform" => clears

PartsNext ==
    /\ UNCHANGED part
    /\ \/ /\ part = "members" /\ MembershipNext
          /\ UNCHANGED <<health, reader, categories, settings, platform, server>>
       \/ /\ part = "health" /\ HealthNext
          /\ UNCHANGED <<members, reader, categories, settings, platform, server>>
       \/ /\ part = "reader" /\ ReaderNext
          /\ UNCHANGED <<members, health, categories, settings, platform, server>>
       \/ /\ part = "categories" /\ CategoriesNext
          /\ UNCHANGED <<members, health, reader, settings, platform, server>>
       \/ /\ part = "settings" /\ SettingsNext
          /\ UNCHANGED <<members, health, reader, categories, platform, server>>
       \/ /\ part = "platform" /\ ConfigNext
          /\ UNCHANGED <<members, health, reader, categories, settings, server>>
       \/ /\ part = "server" /\ ReleaseNext
          /\ UNCHANGED <<members, health, reader, categories, settings, platform>>

PartsSpec == PartsInit /\ [][PartsNext]_<<part, members, health, reader, categories,
                                          settings, platform, server>>

(* The types of the part that runs, and the counters of the reader, the    *)
(* line of the savers and the single owner that go with them.              *)
PartsInv ==
    CASE part = "members"    -> MembershipTypeOK /\ OneOwner
      [] part = "health"     -> HealthTypeOK
      [] part = "reader"     -> ReaderTypeOK
      [] part = "categories" -> CategoriesTypeOK
      [] part = "settings"   -> TenantSettingsTypeOK
      [] part = "platform"   -> PlatformConfigTypeOK
      [] part = "server"     -> ReleaseTypeOK

(* What a save leaves of other saves, and beside which address it leaves a *)
(* secret, in the settings of an organisation and in those of the platform.*)
SettingsKept == SavesKept /\ ConfigKept

Symmetry == Permutations(Agents)
=============================================================================
