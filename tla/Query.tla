-------------------------------- MODULE Query --------------------------------
(***************************************************************************)
(* The answers to `query`: pure functions of the confirmed-harness table,  *)
(* the open connections and the live sessions.  The same dispatcher serves *)
(* the CLI (control channel), connected clients, and the CLI's own fallback *)
(* when no server runs.                                                    *)
(***************************************************************************)
EXTENDS Integers

\* hello.rs: the vocabularies and the version of this binary.
PROTOCOL_VERSION == 1
SERVER_FEATURES == {"query", "ping", "token", "presence", "roster", "interrupt", "answer"}
PROTOCOL_FEATURES ==
    {"interrupt", "answer", "presence", "ping", "query", "roster", "token", "wait"}
HARNESSES_KNOWN ==
    {"opencode", "claude", "codex", "grok", "hermes", "pi", "cursor", "copilot",
     "droid", "kimi", "qwen", "kilo", "goose"}

Known == PROTOCOL_FEATURES \cup HARNESSES_KNOWN

\* The confirmed table is a set of <<harness, hostname>> pairs.
confirmed_hosts(confirmed, id) == {p[2] : p \in {q \in confirmed : q[1] = id}}

Feature(ok) == [ok |-> ok, kind |-> "feature", clients |-> {}]
Harness(hosts) == [ok |-> hosts # {}, kind |-> "harness", clients |-> hosts]
Fails(code) == [error |-> code]

\* Mutant: a known harness is supported as soon as the table is not empty.
SupportAnyHost(args, confirmed) ==
    IF args = << >> \/ args[1] \notin Known THEN Fails("unknown_feature")
    ELSE IF args[1] \in SERVER_FEATURES THEN Feature(TRUE)
    ELSE IF args[1] \in PROTOCOL_FEATURES THEN Feature(FALSE)
    ELSE Harness({p[2] : p \in confirmed})

\* The first argument decides; the vocabularies are tried in this order.
support_body(args, confirmed) ==
    IF args = << >> \/ args[1] \notin Known \cup SERVER_FEATURES THEN Fails("unknown_feature")
    ELSE IF args[1] \in SERVER_FEATURES THEN Feature(TRUE)
    ELSE IF args[1] \in PROTOCOL_FEATURES THEN Feature(FALSE)
    ELSE Harness(confirmed_hosts(confirmed, args[1]))

\* status_rest: the two live counts and the table; the rest is constant.
status_body(clients, sessions, confirmed) ==
    [clients |-> clients, sessions |-> sessions, harnesses_confirmed |-> confirmed]

\* One map filled by two loops: a harness id overwrites an equal feature id.
Capabilities(confirmed) ==
    [id \in Known |->
        IF id \in HARNESSES_KNOWN THEN Harness(confirmed_hosts(confirmed, id))
        ELSE Feature(id \in SERVER_FEATURES)]

caps_body(clients, sessions, confirmed) ==
    [status |-> status_body(clients, sessions, confirmed),
     capabilities |-> Capabilities(confirmed)]

\* An argument is the number it parses to, -1 when it is not a u32.
protocol_body(args) ==
    IF args = << >> THEN [ok |-> TRUE, asked |-> 0]
    ELSE IF args[1] < 1 THEN Fails("unknown_feature")
    ELSE [ok |-> PROTOCOL_VERSION <= args[1] /\ args[1] <= PROTOCOL_VERSION,
          asked |-> args[1]]

dispatch(cmd, args, clients, sessions, confirmed) ==
    CASE cmd = "status"   -> status_body(clients, sessions, confirmed)
      [] cmd = "caps"     -> caps_body(clients, sessions, confirmed)
      [] cmd = "support"  -> support_body(args, confirmed)
      [] cmd = "protocol" -> protocol_body(args)
      [] OTHER            -> Fails("unknown_cmd")

\* `support x` asked alone says of x what `caps` says of it in its map, and an id
\* that `caps` does not list is refused: caps_body and support_body are written
\* apart and read the vocabularies in a different order.
Agree(clients, sessions, confirmed) ==
    LET caps == dispatch("caps", << >>, clients, sessions, confirmed).capabilities
    IN  \A id \in Known \cup SERVER_FEATURES :
            dispatch("support", <<id>>, clients, sessions, confirmed) =
                IF id \in DOMAIN caps THEN caps[id] ELSE Fails("unknown_feature")
=============================================================================
