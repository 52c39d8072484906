----------------------------- MODULE ReleasePin -----------------------------
(* One new release on its way to the users: a dispatched engine release is     *)
(* guarded, pinned, stamped and validated by release-sync; a pin or a manifest *)
(* that a person edits passes npm test and the integrity checks of ci.  Then   *)
(* the launchers of the bundles read what was pushed.                          *)
(* (scripts/check-release-integrity.mjs, release-assets.mjs and                *)
(* generate-release-pin.mjs, and the pin's part of both bin/launch.sh.)        *)
(*                                                                             *)
(* A target is <<os, architecture>>, a URL [base, name], a version a string    *)
(* and a plugin version a number of the patch.                                 *)
EXTENDS Integers, Manifests

CONSTANTS Proposed,      \* what people push: [marketplace, bundles]
          Payloads,   \* client_payload of an engine release: [version, assets, sums]
          Published   \* digest of what each URL serves; other URLs serve nothing

\* A file is missing or has its fields, a commit the directories of both bundles.
IsManifest(file) == file # Lacking => file = [is |-> file.is, leaks |-> file.leaks, name |-> file.name, servers |-> file.servers, version |-> file.version]
IsBundle(bundle) == /\ bundle = [manifest |-> bundle.manifest, pin |-> bundle.pin, skills |-> bundle.skills, entries |-> bundle.entries]
                    /\ IsManifest(bundle.manifest)
IsCommit(c)      == /\ c = [marketplace |-> c.marketplace, bundles |-> [plugin |-> c.bundles.plugin, figura |-> c.bundles.figura]]
                    /\ IsBundle(c.bundles.plugin) /\ IsBundle(c.bundles.figura)
IsUrl(url)       == url = [base |-> url.base, name |-> url.name]
ASSUME CommitsAreTyped  == \A c \in Proposed : IsCommit(c)
ASSUME PayloadsAreTyped == \A p \in Payloads : DOMAIN p.assets = 1..Len(p.assets) /\ \A u \in Range(p.assets) : IsUrl(u)

VARIABLES commit,      \* the commit in the making
          payload,   \* the release it takes up, or Lacking
          gate,      \* the next gate
          reasons    \* why it was turned down
pinVars == <<commit, payload, gate, reasons>>

-----------------------------------------------------------------------------
(* release-assets.mjs: the name of the asset for a target. *)

KnownTargets    == {"darwin", "linux"} \X {"arm64", "x64"}
ArchiveOs       == [darwin |-> "macos", linux |-> "linux"]
ArchivePlatform == [t \in KnownTargets |-> <<ArchiveOs[t[1]], IF t[2] = "x64" THEN "amd64" ELSE t[2]>>]

\* Lacking where releaseAssetUrl throws.
ReleaseAssetUrl(plugin, pin, target) ==
    CASE plugin = "mneme"                             -> [base |-> pin.base, name |-> <<"mneme", target>>]
      [] plugin = "figura" /\ target \in KnownTargets -> [base |-> pin.base, name |-> <<"d2", pin.version, ArchivePlatform[target]>>]
      [] OTHER                                        -> Lacking

-----------------------------------------------------------------------------
(* check-release-integrity.mjs, of a payload and of a pin. *)

Fetched(url) == IF url \in DOMAIN Published THEN Published[url] ELSE Lacking

\* assets.find: the first URL that ends in the target's name.
AssetFor(assets, target) ==
    LET named == {i \in DOMAIN assets : assets[i].name = <<"mneme", target>>}
    IN  IF named = {} THEN Lacking ELSE assets[Min(named)]

\* Mutant: that something can be downloaded is enough.
MatchesWhenServed(url, declared) == url # Lacking /\ Fetched(url) # Lacking

Matches(url, declared) == url # Lacking /\ Fetched(url) # Lacking /\ Fetched(url) = declared

Integrity(sums, urls) ==
    Broken("sha256", DOMAIN sums = {})
    \cup Broken("asset", \E t \in DOMAIN sums : ~Matches(urls[t], sums[t]))

PayloadIntegrity(p) == Integrity(p.sums, [t \in DOMAIN p.sums |-> AssetFor(p.assets, t)])
PinIntegrity(bundle) ==
    IF ~Loads(bundle.pin) THEN {"not valid JSON"}
    ELSE IF ~Loads(bundle.manifest) THEN {"owner"}
    ELSE Integrity(bundle.pin.sums, [t \in DOMAIN bundle.pin.sums |-> ReleaseAssetUrl(bundle.manifest.name, bundle.pin, t)])

-----------------------------------------------------------------------------
(* generate-release-pin.mjs *)

GeneratorDies(p, manifest) ==
    Broken("version", ~Loads(manifest) \/ Lacking \in {p.version, manifest.version})
    \cup Broken("assets", p.assets = <<>>)
    \cup Broken("sha256", DOMAIN p.sums = {} \/ ~(Range(p.sums) \subseteq Digests) \/ ~(DOMAIN p.sums \subseteq KnownTargets))
    \cup Broken("asset", \E t \in DOMAIN p.sums : AssetFor(p.assets, t) = Lacking)
    \cup Broken("https", p.assets # <<>> /\ ~p.assets[1].base.https)

\* The base of the first asset stands for them all.
GeneratedPin(p, manifest) == [is |-> "object", leaks |-> FALSE, flat |-> TRUE, version |-> p.version,
                              stamp |-> manifest.version, base |-> p.assets[1].base, sums |-> p.sums]

\* JSON.stringify gives any pin the flat layout.
Restamp(pin, manifest) == [pin EXCEPT !.stamp = manifest.version, !.flat = TRUE]

-----------------------------------------------------------------------------
(* bin/launch.sh: the platform, the pin as sed reads it, and the download. *)

OsSlug   == [Darwin |-> "darwin", Linux |-> "linux"]
ArchSlug == [arm64 |-> "arm64", aarch64 |-> "arm64", x86_64 |-> "x64", amd64 |-> "x64"]
LaunchUrl(directory, pin, os, machine) ==
    IF directory = "figura"
    THEN [base |-> pin.base, name |-> <<"d2", pin.version, <<IF os = "Darwin" THEN "macos" ELSE "linux",
                                                             IF ArchSlug[machine] = "arm64" THEN "arm64" ELSE "amd64">>>>]
    ELSE [base |-> pin.base, name |-> <<"mneme", <<OsSlug[os], ArchSlug[machine]>>>>]

\* Not one key in a line: sed finds nothing.
PinValue(pin, value) == IF pin.flat THEN value ELSE Lacking

Installs(directory, pin, os, machine) ==
    IF os \notin DOMAIN OsSlug \/ machine \notin DOMAIN ArchSlug THEN "unsupported platform"
    ELSE LET target == <<OsSlug[os], ArchSlug[machine]>> IN
         IF PinValue(pin, pin.version) = Lacking \/ PinValue(pin, pin.base.at) = Lacking THEN "malformed"
         ELSE IF target \notin DOMAIN pin.sums THEN "no sha256"
         ELSE IF Fetched(LaunchUrl(directory, pin, os, machine)) = Lacking THEN "download failed"
         ELSE IF Fetched(LaunchUrl(directory, pin, os, machine)) # pin.sums[target] THEN "checksum mismatch" ELSE "installed"

-----------------------------------------------------------------------------
PinInit == /\ commit \in Proposed /\ reasons = {}
           /\ payload \in Payloads \cup {Lacking}
           /\ gate = IF payload = Lacking THEN "npm test" ELSE "guard"

Passes(from, to, found) == /\ gate = from /\ reasons' = found
                           /\ gate' = IF found = {} THEN to ELSE "refused"
                           /\ UNCHANGED payload

\* Integrity guard.
Guard == Passes("guard", "generate", PayloadIntegrity(payload)) /\ UNCHANGED commit

GeneratePin ==
    LET manifest == commit.bundles["plugin"].manifest IN
    /\ Passes("generate", "bump", GeneratorDies(payload, manifest))
    /\ commit' = IF gate' = "bump" THEN [commit EXCEPT !.bundles["plugin"].pin = GeneratedPin(payload, manifest)] ELSE commit

\* The plugin's patch goes up by one, and the pin is restamped.
Bumped(bundle) == LET manifest == [bundle.manifest EXCEPT !.version = @ + 1] IN
                  [bundle EXCEPT !.manifest = manifest, !.pin = Restamp(bundle.pin, manifest)]
BumpPlugin == /\ Passes("bump", "npm test", {})
              /\ commit' = [commit EXCEPT !.bundles["plugin"] = Bumped(commit.bundles["plugin"])]

\* release-sync pushes next; the commit of a person goes through ci.
NpmTest == /\ Passes("npm test", IF payload = Lacking THEN "integrity" ELSE "shipped", ValidateManifests(commit))
           /\ UNCHANGED commit

\* The plugin may have no pin, figura has one.
CheckReleaseIntegrity ==
    /\ Passes("integrity", "shipped",
              (IF commit.bundles["plugin"].pin = Lacking THEN {} ELSE PinIntegrity(commit.bundles["plugin"]))
              \cup IF commit.bundles["figura"].pin = Lacking THEN {"file not found"} ELSE PinIntegrity(commit.bundles["figura"]))
    /\ UNCHANGED commit

\* A fetch fails: the network.
FetchFails == /\ gate \in {"guard", "integrity"} /\ gate' = "refused" /\ reasons' = {"fetch failed"}
              /\ UNCHANGED <<commit, payload>>

PinNext == Guard \/ GeneratePin \/ BumpPlugin \/ NpmTest \/ CheckReleaseIntegrity \/ FetchFails
PinSpec == PinInit /\ [][PinNext]_pinVars

-----------------------------------------------------------------------------
\* What ci checked of a bundle, or release-sync just pinned from assets that lie together.
Vouched(directory) ==
    IF payload = Lacking THEN TRUE
    ELSE directory = "plugin" /\ \A u \in Range(payload.assets) : u.base = payload.assets[1].base

\* The launchers of the two bundles know whose program they install.
Program == [plugin |-> "mneme", figura |-> "figura"]

(* "every pinned asset exists and hashes to its declared sha256": the gates    *)
(* name and fetch the assets by rules of their own, in JavaScript, and the     *)
(* launchers by theirs, in sh.  Still, a flat pin that passed the gates, in a  *)
(* bundle that the marketplace lists under its name, is one that its launcher  *)
(* installs from, on every platform whose target it lists, and the servers     *)
(* that a shipped bundle declares start that launcher.                         *)
GatedPinsInstall ==
    gate = "shipped" =>
      \A e \in MarketplaceBundles(commit.marketplace) :
        /\ e.directory \in DOMAIN commit.bundles
        /\ LET bundle == commit.bundles[e.directory] IN
           /\ bundle.manifest.servers \in {Lacking, {}, {LauncherCommand}}
           /\ e.directory \in DOMAIN Program /\ bundle.pin # Lacking =>
                (bundle.pin.flat /\ Vouched(e.directory) /\ e.name = Program[e.directory] =>
                   \A os \in DOMAIN OsSlug, machine \in DOMAIN ArchSlug :
                     <<OsSlug[os], ArchSlug[machine]>> \in DOMAIN bundle.pin.sums => Installs(e.directory, bundle.pin, os, machine) = "installed")
=============================================================================
