--------------------------- MODULE Configuration ---------------------------
(***************************************************************************)
(* load_config (config.py) as an operator: one TOML file and one           *)
(* environment in, a whole configuration or a ConfigError out.             *)
(*                                                                         *)
(* Five keys stand for all: a required scalar, the same nested deeper with *)
(* a default, two scalars with defaults and a list.  What is written is a  *)
(* function from the keys that are set.                                    *)
(***************************************************************************)
EXTENDS FiniteSets

Key == {"expected_origin", "backend", "session_cap", "session_ttl_seconds", "sources"}
Required == {"expected_origin", "sources"}
Section(key) == IF key = "sources" THEN "trust" ELSE "service"

Default == [backend |-> "google-cpp", session_cap |-> "1000", session_ttl_seconds |-> "300"]

\* f where it is defined, g elsewhere
Over(f, g) == [k \in DOMAIN f \cup DOMAIN g |-> IF k \in DOMAIN f THEN f[k] ELSE g[k]]

\* The source order of settings_customise_sources, merged key by key.  The
\* mistake: a section set in the environment hides the file's.
FaultyWritten(file, env) ==
  LET hidden == {Section(k) : k \in DOMAIN env.values}
      shown == {k \in DOMAIN file.values : Section(k) \notin hidden}
  IN  Over(env.values, [k \in shown |-> file.values[k]])
Written(file, env) == Over(env.values, file.values)

\* extra="forbid", for the file's keys and for those nested under a section
\* in the environment.  A variable at the top level that is no section is
\* skipped by the library, which app.CONFIG_ENV_VAR relies on.
FaultyUnknown(file, env) == file.unknown \/ env.unknown \/ env.locator
Unknown(file, env) == file.unknown \/ env.unknown

\* TrustSource: one of pem and etsi_xml.  TrustConfig: at least one source.
ValidSource(source) == Cardinality(source.keys) = 1
Valid(key, value) ==
  CASE key = "expected_origin" -> value # "not an origin"
    [] key \in {"session_cap", "session_ttl_seconds"} -> value # "not an integer"
    [] key = "sources" -> value # {} /\ \A source \in value : ValidSource(source)
    [] OTHER -> TRUE

ConfigError == [ok |-> FALSE]
Loaded(config) == [ok |-> TRUE, config |-> config]

LoadConfig(file, env) ==
  LET written == Written(file, env) IN
  IF /\ file.kind = "toml"
     /\ ~Unknown(file, env)
     /\ Required \subseteq DOMAIN written
     /\ \A key \in DOMAIN written : Valid(key, written[key])
  THEN Loaded(Over(written, Default))
  ELSE ConfigError

=============================================================================
