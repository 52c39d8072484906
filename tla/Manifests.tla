----------------------------- MODULE Manifests ------------------------------
(* scripts/validate-manifests.mjs and marketplace-bundles.mjs: what the gate   *)
(* of npm test accepts of the marketplace, of every bundle's manifest, pin,    *)
(* skills and directory.                                                       *)
(*                                                                             *)
(* A file that was read is [is, leaks, ...]: "object" (a JSON object), "list"  *)
(* (other JSON) or "text" (none), whether it holds an absolute path of a home, *)
(* and its fields, Lacking if missing or not a string.  A fault is the file    *)
(* and the rule that it breaks.                                                *)
EXTENDS FiniteSets, SequencesExt

CONSTANTS Lacking,     \* a file, a directory or a field that is not there
          KebabNames,  \* the names of the instance that are kebab-case
          Digests      \* 64 hexadecimal digits

LauncherCommand   == "${CLAUDE_PLUGIN_ROOT}/bin/launch.sh"
RequiredSkillKeys == {"name", "description", "allowed-tools"}
ForbiddenInBundle == {".dev-vault", ".claude", ".mcp.json", ".engram", "docs", "CLAUDE.md", ".env", ".git"}

Broken(rule, isBroken) == IF isBroken THEN {rule} ELSE {}
In(file, rules)        == {<<file, rule>> : rule \in rules}

-----------------------------------------------------------------------------
Loads(file)      == file # Lacking /\ file.is = "object"
LoadFaults(file) == IF file = Lacking THEN {"file not found"}
                    ELSE Broken("absolute path", file.leaks) \cup Broken("a JSON object", ~Loads(file))

\* mcpServers: Lacking, "ill", or the commands it names.
ValidatePlugin(manifest) ==
    IF ~Loads(manifest) THEN {}
    ELSE Broken("name", manifest.name \notin KebabNames)
         \cup IF manifest.servers = Lacking THEN {}
              ELSE IF manifest.servers = {"ill"} THEN {"mcpServers"}
              ELSE Broken("command", manifest.servers # {} /\ manifest.servers # {LauncherCommand})

\* An element's source is [local, directory]: local sources begin with "./".
ValidateMarketplace(manifest) ==
    IF ~Loads(manifest) THEN {}
    ELSE Broken("name", manifest.name \notin KebabNames)
         \cup Broken("owner.name", manifest.owner = Lacking)
         \cup IF manifest.plugins \in {Lacking, <<>>} THEN {"plugins"}
              ELSE UNION {Broken("plugin name", p.name \notin KebabNames) \cup Broken("source", ~p.local) : p \in Range(manifest.plugins)}

\* readMarketplaceBundles: the elements with a local source.
MarketplaceBundles(manifest) ==
    IF ~Loads(manifest) \/ manifest.plugins = Lacking THEN {} ELSE {p \in Range(manifest.plugins) : p.local}

ValidateCrossReference(element, manifest) == Broken("element's name", Loads(manifest) /\ manifest.name # element.name)

\* A skill's file: whether it has frontmatter, its keys, and its name.
ValidateSkillFile(file, directory) ==
    IF file = Lacking THEN {"file not found"}
    ELSE Broken("absolute path", file.leaks)
         \cup IF ~file.frontmatter THEN {"frontmatter"}
              ELSE Broken("key", ~(RequiredSkillKeys \subseteq file.keys))
                   \cup Broken("skill name", file.name # Lacking /\ (file.name \notin KebabNames \/ file.name # directory))

ValidateSkills(skills) ==
    IF skills = Lacking \/ DOMAIN skills = {} THEN {"at least one skill"}
    ELSE UNION {ValidateSkillFile(skills[d], d) : d \in DOMAIN skills}

\* No pin is the state before a release.
ValidateReleasePin(pin, manifest) ==
    IF pin = Lacking THEN {}
    ELSE IF ~Loads(pin) THEN {"a JSON object"}
    ELSE Broken("field", Lacking \in {pin.version, pin.stamp, pin.base.at})
         \cup Broken("base_url", pin.base.at # Lacking /\ ~pin.base.https)
         \cup Broken("sha256", DOMAIN pin.sums = {} \/ ~(Range(pin.sums) \subseteq Digests))
         \cup Broken("plugin_version", Loads(manifest) /\ pin.stamp # Lacking /\ pin.stamp # manifest.version)

ValidateBundleHygiene(bundle) == IF bundle = Lacking THEN {"bundle directory"} ELSE Broken("repo-internal path", bundle.entries \cap ForbiddenInBundle # {})

-----------------------------------------------------------------------------
\* A bundle is [manifest, pin, skills, entries]; nothing can be read in a directory that is not there.
Part(bundle, name) == IF bundle = Lacking THEN Lacking ELSE bundle[name]

ValidateBundle(element, bundle) ==
    LET manifest == Part(bundle, "manifest") IN
    LoadFaults(manifest) \cup ValidatePlugin(manifest) \cup ValidateCrossReference(element, manifest)
    \cup ValidateReleasePin(Part(bundle, "pin"), manifest) \cup ValidateSkills(Part(bundle, "skills")) \cup ValidateBundleHygiene(bundle)

Directory(commit, name) == IF name \in DOMAIN commit.bundles THEN commit.bundles[name] ELSE Lacking

ValidateManifests(commit) ==
    In("marketplace.json", LoadFaults(commit.marketplace) \cup ValidateMarketplace(commit.marketplace))
    \cup UNION {In(e.directory, ValidateBundle(e, Directory(commit, e.directory))) : e \in MarketplaceBundles(commit.marketplace)}
=============================================================================
