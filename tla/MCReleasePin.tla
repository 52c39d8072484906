---------------------------- MODULE MCReleasePin ----------------------------
(* A good repository of two bundles, others that break rules of the gates, and  *)
(* engine releases whose assets are complete, scattered, missing or different. *)
EXTENDS ReleasePin, TLC

File     == [is |-> "object", leaks |-> FALSE]
Releases == [at |-> "releases", https |-> TRUE]
Mirror   == [at |-> "mirror", https |-> TRUE]
Clear    == [at |-> "clear", https |-> FALSE]
Arm      == <<"darwin", "arm64">>
Intel    == <<"linux", "x64">>
Windows  == <<"win32", "x64">>
Url(base, name)   == [base |-> base, name |-> name]
MnemeUrl(base, t) == Url(base, <<"mneme", t>>)
D2Url(os, arch)   == Url(Releases, <<"d2", "v2", <<os, arch>>>>)

MCKebabNames == {"mneme", "figura", "market", "dev"}
MCDigests    == {"one", "two", "three"}
MCPublished  == (MnemeUrl(Releases, Arm) :> "one") @@ (MnemeUrl(Releases, Intel) :> "two") @@ (MnemeUrl(Mirror, Intel) :> "two")
                @@ (MnemeUrl(Clear, Arm) :> "one") @@ (D2Url("macos", "arm64") :> "one") @@ (D2Url("linux", "amd64") :> "three")

-----------------------------------------------------------------------------
Manifest(name, servers) == File @@ [name |-> name, servers |-> servers, version |-> 0]
HandPin(sums) == File @@ [flat |-> TRUE, version |-> "v2", stamp |-> 0, base |-> Releases, sums |-> sums]
Skill    == [leaks |-> FALSE, frontmatter |-> TRUE, keys |-> RequiredSkillKeys, name |-> "dev"]
Bundle(name, servers, pin) == [manifest |-> Manifest(name, servers), pin |-> pin, skills |-> [dev |-> Skill], entries |-> {"bin"}]
PluginPin == HandPin((Arm :> "one") @@ (Intel :> "two"))
FiguraPin == HandPin((Arm :> "one") @@ (Intel :> "three"))
Market   == File @@ [name |-> "market", owner |-> "someone",
                     plugins |-> <<[name |-> "mneme", local |-> TRUE, directory |-> "plugin"], [name |-> "figura", local |-> TRUE, directory |-> "figura"]>>]
Good     == [marketplace |-> Market, bundles |-> [plugin |-> Bundle("mneme", {LauncherCommand}, PluginPin), figura |-> Bundle("figura", Lacking, FiguraPin)]]

Markets == {Lacking, [Market EXCEPT !.leaks = TRUE], [Market EXCEPT !.is = "text"], [Market EXCEPT !.name = "My Market"], [Market EXCEPT !.owner = Lacking],
            [Market EXCEPT !.plugins = <<>>], [Market EXCEPT !.plugins = Lacking], [Market EXCEPT !.plugins[2].local = FALSE],
            [Market EXCEPT !.plugins[2].directory = "gone"], [Market EXCEPT !.plugins[2].name = "mneme"], [Market EXCEPT !.plugins = <<Market.plugins[1]>>]}

SomeSums == {(Arm :> "one") @@ (Intel :> "two"), (Arm :> "one") @@ (Intel :> "three"), (Intel :> "two"), (Arm :> "odd"), (Windows :> "two"), <<>>}
Pins(pin)  == {Lacking, [pin EXCEPT !.is = "list"], [pin EXCEPT !.flat = FALSE], [pin EXCEPT !.base = Clear], [pin EXCEPT !.base = Mirror],
               [pin EXCEPT !.base.at = Lacking], [pin EXCEPT !.stamp = 1], [pin EXCEPT !.stamp = Lacking], [pin EXCEPT !.version = "v3"]}
              \cup {[pin EXCEPT !.sums = s] : s \in SomeSums}
Manifests2(m) == {[m EXCEPT !.name = n] : n \in {"mneme", "figura", "Mneme", "dev"}} \cup {[m EXCEPT !.leaks = TRUE], [m EXCEPT !.is = "list"]}
                 \cup {[m EXCEPT !.servers = s] : s \in {Lacking, {}, {"ill"}, {"mneme"}, {LauncherCommand, "/bin/mneme"}, {LauncherCommand}}}
SkillSets == {Lacking, <<>>, [dev |-> Lacking], [dev |-> [Skill EXCEPT !.leaks = TRUE]], [dev |-> [Skill EXCEPT !.frontmatter = FALSE]],
              [dev |-> [Skill EXCEPT !.keys = {"name"}]], [dev |-> [Skill EXCEPT !.keys = {"description", "allowed-tools"}, !.name = Lacking]],
              [dev |-> [Skill EXCEPT !.name = "mneme"]], [dev |-> [Skill EXCEPT !.name = "mneme:dev"]]}
BundleVariants(b) == {[b EXCEPT !.pin = p] : p \in Pins(b.pin)} \cup {[b EXCEPT !.manifest = m] : m \in Manifests2(b.manifest)}
              \cup {[b EXCEPT !.skills = s] : s \in SkillSets} \cup {[b EXCEPT !.entries = {"bin", "docs"}]}

\* At most one rule of the marketplace and one of a bundle is broken.
MCProposed == LET Listed == {[Good EXCEPT !.marketplace = m] : m \in Markets \cup {Market}} IN
              UNION {{[c EXCEPT !.bundles.plugin = b] : b \in BundleVariants(c.bundles.plugin)}
                     \cup {[c EXCEPT !.bundles.figura = b] : b \in BundleVariants(c.bundles.figura)} : c \in Listed}

-----------------------------------------------------------------------------
Assets == {<<>>, <<MnemeUrl(Releases, Arm)>>, <<MnemeUrl(Releases, Arm), MnemeUrl(Releases, Intel)>>,
           <<MnemeUrl(Releases, Intel), MnemeUrl(Mirror, Intel)>>, <<MnemeUrl(Releases, Arm), MnemeUrl(Mirror, Intel)>>,
           <<Url(Releases, <<"checksums">>), MnemeUrl(Releases, Intel), MnemeUrl(Releases, Arm)>>, <<MnemeUrl(Clear, Arm), MnemeUrl(Releases, Intel)>>}
MCPayloads == [version : {"v2", Lacking}, assets : Assets, sums : SomeSums]
=============================================================================
