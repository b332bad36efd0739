--------------------------- MODULE ClientVersions ---------------------------
(***************************************************************************)
(* What the client and the version service decide without changing state:  *)
(* the order of versions, the row that answers a client, the update         *)
(* window and the release channel.                                         *)
(***************************************************************************)
EXTENDS Integers, Sequences, EntStore

\* A version string, parsed: its kind (pure semver, "-stable.<hash>",
\* "-test.<hash>" or "dev"), its numbers, and its commit, "" for none.
Version(kind, parts, commit) == [kind |-> kind, parts |-> parts, commit |-> commit]
Semver(n) == Version("semver", <<n>>, "")

\* The missing parts of the shorter version count as zeros.
parseVersionPart(parts, i) == IF i <= Len(parts) THEN parts[i] ELSE 0
ComparePadded(a, b) ==
    LET n == IF Len(a) > Len(b) THEN Len(a) ELSE Len(b)
        differ == {i \in 1..n : parseVersionPart(a, i) # parseVersionPart(b, i)}
        first == CHOOSE i \in differ : \A j \in differ : i <= j
    IN IF differ = {} THEN 0
       ELSE IF parseVersionPart(a, first) < parseVersionPart(b, first) THEN -1 ELSE 1

extractCommitFromVersion(v) == IF v.kind \in {"dev", "legacy", "test"} THEN v.commit ELSE ""
extractCommitHash(v) == IF v.kind = "test" THEN v.commit ELSE ""

CompareVersions(v1, v2) ==
    LET c1 == extractCommitFromVersion(v1)
        c2 == extractCommitFromVersion(v2)
    IN CASE v1 = v2 -> 0
         [] c1 # "" /\ c1 = c2 -> 0
         [] v1.kind = "legacy" /\ v2.kind = "legacy" /\ v1.parts = v2.parts -> 0
         [] v1.kind # "legacy" /\ v2.kind = "legacy" /\ c1 = "" -> 1
         [] v1.kind = "legacy" /\ v2.kind # "legacy" /\ c2 = "" -> -1
         [] OTHER ->
            CASE v1.kind = "dev" -> -1
              [] v1.kind # "dev" /\ v2.kind = "dev" -> 1
              [] v1.kind = "test" /\ v2.kind # "dev" -> -1
              [] v1.kind \notin {"dev", "test"} /\ extractCommitHash(v2) # "" -> 1
              [] OTHER -> ComparePadded(v1.parts, v2.parts)

IsUpdateAvailable(client, server) == CompareVersions(client, server) < 0
NoMinimum == Version("semver", <<0>>, "")
IsUpdateRequired(client, minimum) ==
    minimum # NoMinimum /\ CompareVersions(client, minimum) < 0

-----------------------------------------------------------------------------
(* The version service's table: rows by channel, platform and architecture. *)

Fallbacks(channel, platform, arch) ==
    << <<channel, platform, arch>>, <<channel, platform, "all">>,
       <<channel, "all", arch>>, <<channel, "all", "all">> >>

\* The first of the four keys that has a row; <<>> when none has.
getClientVersionConfig(rows, channel, platform, arch) ==
    LET keys == Fallbacks(channel, platform, arch)
        found == {i \in 1..4 : ClientVersionExist(rows, keys[i])}
    IN IF found = {} THEN <<>> ELSE keys[CHOOSE i \in found : \A j \in found : i <= j]

getFallbackVersionInfo(client) == [latest |-> client, available |-> FALSE, required |-> FALSE]

GetVersionInfo(rows, client, channel, platform, arch) ==
    LET key == getClientVersionConfig(rows, IF channel = "" THEN "stable" ELSE channel, platform, arch)
        row == ClientVersionRow(rows, key)
    IN IF key = <<>> THEN getFallbackVersionInfo(client)
       ELSE [latest |-> row.latest,
             available |-> IsUpdateAvailable(client, row.latest),
             required |-> \/ IsUpdateRequired(client, row.minimum)
                          \/ row.force /\ IsUpdateAvailable(client, row.latest)]

\* Created when no row has the key, updated otherwise; the key never changes.
UpdateClientVersionConfig(rows, key, row) ==
    IF ClientVersionExist(rows, key)
    THEN ClientVersionUpdateOne(rows, key, row).table
    ELSE ClientVersionCreate(rows, key, row).table

\* At the start of the server: rows that exist are left alone.
DefaultKeys == << <<"stable", "all", "all">>, <<"test", "all", "all">> >>
DefaultConfig(v) == [latest |-> v, minimum |-> NoMinimum, force |-> FALSE]
Exists(rows, key) == ClientVersionExist(rows, key)
Seeded(rows, key, v) ==
    IF Exists(rows, key) THEN rows ELSE UpdateClientVersionConfig(rows, key, DefaultConfig(v))
InitializeDefaultConfigs(rows, v) == Seeded(Seeded(rows, DefaultKeys[1], v), DefaultKeys[2], v)

-----------------------------------------------------------------------------
\* The hours in which updates are installed; an overnight window wraps.
isInUpdateWindow(hour, start, end) ==
    IF start <= end THEN hour >= start /\ hour < end
    ELSE hour >= start \/ hour < end

\* An unreadable configuration leaves the choice to the server.
ResolveReleaseChannel(conf) == IF conf.whole THEN conf.channel ELSE ""
=============================================================================
