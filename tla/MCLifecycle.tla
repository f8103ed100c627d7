---------------------------- MODULE MCLifecycle ----------------------------
(* The instance of Lifecycle that lifecycle.cfg checks.                     *)
EXTENDS Lifecycle

CONSTANTS file, url, feed

Pem == [keys |-> {"pem"}, at |-> file]
List == [keys |-> {"etsi_xml"}, at |-> url]
Feed == [keys |-> {"etsi_xml"}, at |-> feed]
Two == [keys |-> {"pem", "etsi_xml"}, at |-> file]

Toml(values) == [kind |-> "toml", values |-> values, unknown |-> FALSE]
Plain == [expected_origin |-> "https://a.example", session_cap |-> "5",
          session_ttl_seconds |-> "60", sources |-> {Pem}]
Both == [Plain EXCEPT !.sources = {Pem, Feed}]

GoodFile == Toml(Plain)
MCFiles == {GoodFile, Toml(Both),
            Toml([key \in DOMAIN Plain \ {"expected_origin"} |-> Plain[key]]),
            Toml([Plain EXCEPT !.expected_origin = "not an origin"]),
            Toml([Plain EXCEPT !.sources = {Pem, List}]),
            Toml([Plain EXCEPT !.sources = {Two}]),
            Toml([Plain EXCEPT !.sources = {}]),
            [GoodFile EXCEPT !.unknown = TRUE],
            [GoodFile EXCEPT !.kind = "missing"],
            [GoodFile EXCEPT !.kind = "not toml"]}

Env(values) == [values |-> values, unknown |-> FALSE, locator |-> FALSE]
NoEnv == Env([key \in {} |-> ""])
MCEnvs == {NoEnv, [NoEnv EXCEPT !.unknown = TRUE],
           Env([session_cap |-> "9"]),
           Env([session_ttl_seconds |-> "not an integer"]),
           Env([backend |-> "neither"]),
           Env([expected_origin |-> "https://b.example"])}

=============================================================================
