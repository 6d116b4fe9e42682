------------------------------ MODULE MCReleaseVerify ---------------------------
(* Instances of ReleaseVerify, and of the Doctor it runs, for TLC. *)
EXTENDS ReleaseVerify

C(kind, path) == [kind |-> kind, path |-> path]
MCCandidates == <<C("codex-global", "codex"), C("claude-settings", "settings"),
                  C("claude-plugin", "plugin")>>
MCPaths    == {"codex", "settings", "plugin"}
MCBinaries == {"host", "pluginBinary"}
MCVersions == {"v1", "v2"}

H(form, harness, binary) == [form |-> form, harness |-> harness, binary |-> binary]
Decoded(odd, hooks) == [kind |-> "decoded", odd |-> odd, hooks |-> hooks]
BadFile == [NoFile EXCEPT !.kind = "bad"]

Direct  == H("direct", TRUE, "host")
Foreign == H("foreign", TRUE, "host")
Wrapper == H("wrapper", TRUE, "host")
Named   == H("namedWrapper", TRUE, "host")

\* A sound installation, and what may be wrong with each part of it.
Sound ==
  [files |-> [codex |-> Decoded(FALSE, {Direct, Foreign}), settings |-> NoFile,
              plugin |-> Decoded(FALSE, {Wrapper})],
   registry |-> "installed", trust |-> TRUE,
   binaries |-> [host |-> "v2", pluginBinary |-> "v2"],
   published |-> "v2"]

FlawedFiles ==
  {NoFile, BadFile, Decoded(TRUE, {}), Decoded(FALSE, {Direct, H("mangled", TRUE, "host")}),
   Decoded(FALSE, {H("direct", FALSE, "host")}), Decoded(FALSE, {H("direct", TRUE, "pluginBinary")}),
   Decoded(FALSE, {Wrapper}), Decoded(FALSE, {Named})}

MCWorlds ==
  {Sound}
  \cup {[Sound EXCEPT !.files[p] = f] : p \in MCPaths, f \in FlawedFiles}
  \cup {[Sound EXCEPT !.files["settings"] = Decoded(FALSE, {Direct}), !.files["codex"] = f] : f \in FlawedFiles}
  \cup {[Sound EXCEPT !.registry = r] : r \in {"absent", "bad"}}
  \cup {[Sound EXCEPT !.binaries["host"] = v] : v \in {"v1", "", Missing}}
  \cup {[Sound EXCEPT !.binaries["pluginBinary"] = v] : v \in {"v1", "", Missing}}
  \cup {[Sound EXCEPT !.trust = FALSE], [Sound EXCEPT !.published = "v1"]}

MCOptions ==
  {[min |-> 2, expected |-> "v2", latest |-> TRUE, pluginDir |-> "v2"],
   [min |-> 0, expected |-> "", latest |-> TRUE, pluginDir |-> ""],
   [min |-> 1, expected |-> "v2", latest |-> FALSE, pluginDir |-> "v1"],
   [min |-> 1, expected |-> "", latest |-> TRUE, pluginDir |-> "v1"]}

MCEdits == {BadFile}

\* A release as it should be, and what may be wrong with it.
GoodRelease ==
  [exact |-> TRUE, draft |-> FALSE, complete |-> TRUE, entry |-> TRUE, genuine |-> TRUE,
   unpacks |-> TRUE, binary |-> "v2", denies |-> Harness]
MCReleases ==
  {GoodRelease, [GoodRelease EXCEPT !.exact = FALSE], [GoodRelease EXCEPT !.draft = TRUE],
   [GoodRelease EXCEPT !.complete = FALSE], [GoodRelease EXCEPT !.entry = FALSE],
   [GoodRelease EXCEPT !.genuine = FALSE], [GoodRelease EXCEPT !.unpacks = FALSE],
   [GoodRelease EXCEPT !.binary = Missing], 
   [GoodRelease EXCEPT !.binary = "v1", !.denies = {"claude", "codex"}]}

MCVerifyWorlds == {Sound, [Sound EXCEPT !.trust = FALSE], [Sound EXCEPT !.binaries["pluginBinary"] = ""]}
MCVerifyOptions == {o \in MCOptions : o.min = 1 /\ ~o.latest}
=============================================================================
