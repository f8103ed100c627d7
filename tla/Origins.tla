------------------------------- MODULE Origins -------------------------------
(***************************************************************************)
(* The origin a session expects, from configuration or request body to the *)
(* transcript (config.validate_origin and its two callers).                *)
(*                                                                         *)
(* A candidate is told apart by its parts.  A part with a delimiter (a     *)
(* port, a query, a fragment) may be missing, empty after its delimiter,   *)
(* or have content; the value is hashed as it is written, delimiters       *)
(* included.                                                               *)
(***************************************************************************)

Scheme == {"http", "https", "other"}
Delimited == {"missing", "empty", "content"}

Candidate == [scheme : Scheme, userinfo : BOOLEAN, host : BOOLEAN,
              port : Delimited, path : BOOLEAN,
              query : Delimited, fragment : Delimited]

\* What urlsplit keeps of a part: nothing tells an empty one from a missing one.
Truthy(part) == part = "content"

\* A mistake: a port is refused like a path.
FaultyValidOrigin(c) ==
  /\ c.scheme \in {"http", "https"}
  /\ c.host
  /\ ~c.path /\ ~Truthy(c.query) /\ ~Truthy(c.fragment) /\ ~Truthy(c.port)

\* validate_origin returns its argument.
ValidOrigin(c) ==
  /\ c.scheme \in {"http", "https"}
  /\ c.host
  /\ ~c.path /\ ~Truthy(c.query) /\ ~Truthy(c.fragment)

\* scheme://host[:port] and nothing else, the way a browser writes an origin.
Bare(c) ==
  /\ c.scheme \in {"http", "https"} /\ c.host /\ c.port \in {"missing", "content"}
  /\ ~c.userinfo /\ ~c.path /\ c.query = "missing" /\ c.fragment = "missing"

=============================================================================
