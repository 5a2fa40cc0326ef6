------------------------------- MODULE Codec -------------------------------
(***************************************************************************)
(* The wire codec.  A frame is what its JSON can be told apart by: its     *)
(* shape, which envelope fields have the right JSON type, which fields of  *)
(* the body are there, well or ill typed, and the protocol_min of a hello. *)
(* A body may be a JSON array: its elements are then the fields in the     *)
(* order of the struct, the required ones first.                           *)
(***************************************************************************)
EXTENDS Integers

CONSTANTS
    U32,        \* 2^32: the codec keeps `v` in a u32
    None

ASSUME CodecAssumption == U32 \in Nat /\ U32 > 1

\* The fields each body struct requires, and the ones it has a default for.
Required ==
    [join            |-> {"secret", "hostname"},
     join_ok         |-> {"client_id", "credential"},
     auth            |-> {"credential"},
     hello           |-> {"protocol", "protocol_min", "protocol_max", "role", "hostname"},
     query           |-> {"cmd"},
     query_ok        |-> {"cmd"},
     prompt          |-> {"session", "text"},
     reply           |-> {"session"},
     interrupt       |-> {"session"},
     answer          |-> {"session", "choice"},
     presence        |-> {"sessions"},
     session_blocked |-> {"session", "blocked"},
     ping            |-> {},
     pong            |-> {},
     ack             |-> {},
     error           |-> {"code"}]

Types == DOMAIN Required

Optional(type) ==
    CASE type = "hello"            -> {"token_id", "client_id", "harnesses", "harnesses_known",
                                       "harnesses_confirmed", "features", "sessions"}
      [] type = "query"            -> {"args"}
      [] type = "prompt"           -> {"meta"}
      [] type = "reply"            -> {"text", "chunks", "done", "exit"}
      [] type \in {"ping", "pong"} -> {"hostname"}
      [] type = "ack"              -> {"of"}
      [] type = "error"            -> {"cmd", "message"}
      [] OTHER                     -> {}

\* No skip_serializing_if: these are written even when they have their default.
Written(type) == IF type = "query" THEN {"args"} ELSE IF type = "reply" THEN {"done"} ELSE {}

-----------------------------------------------------------------------------
(* decode: parse_envelope, the version, then the body *)

Fields(type) == Required[type] \cup Optional(type)

\* serde takes an array for a struct when it has no element too many; query_ok is
\* flattened, so that only an object will do.
Positional(type, body) ==
    body.form = "array" /\ body.fields \subseteq Fields(type) /\ type # "query_ok"

\* Mutant: every field of a body has a default.
BodyDefaults(type, body) ==
    /\ body.form = "object" \/ Positional(type, body)
    /\ body.bad \cap Fields(type) = {}

\* Mutant: the optional fields have no #[serde(default)].
BodyStrict(type, body) ==
    /\ body.form = "object" \/ Positional(type, body)
    /\ Fields(type) \subseteq body.fields
    /\ body.bad \cap Fields(type) = {}

\* Body::deserialize_value: fields of an object the struct does not have are ignored.
BodyFits(type, body) ==
    /\ body.form = "object" \/ Positional(type, body)
    /\ Required[type] \subseteq body.fields
    /\ body.bad \cap Fields(type) = {}

\* `type` is read first, then v as a u64 cut to a u32, id, ts, from and body; the
\* version is judged when they are all there, the fields of the body last.
decode(f) ==
    IF f.shape # "object" \/ f.type = None THEN "Malformed"
    ELSE IF f.type \notin Types THEN "UnknownType"
    ELSE IF f.v = None \/ ~ (f.id /\ f.ts /\ f.from) \/ f.body.form = "absent" THEN "Malformed"
    ELSE IF f.v % U32 # 1 THEN "UnsupportedVersion"
    ELSE IF BodyFits(f.type, f.body) THEN "ok" ELSE "Malformed"

\* The optional fields a decoded body has a value for.
decoded(f) == f.body.fields \cap Optional(f.type)

\* decode_error_envelope.
decode_error(d) == IF d = "UnsupportedVersion" THEN "unsupported_version" ELSE "unknown_type"

-----------------------------------------------------------------------------
(* encode: the bare body object; optional fields without a value are left out *)

encode(type, some) ==
    [shape |-> "object", type |-> type, v |-> 1, id |-> TRUE, ts |-> TRUE, from |-> TRUE,
     min |-> 1,
     body |-> [form |-> "object", fields |-> Required[type] \cup some \cup Written(type),
               bad |-> {}]]

\* What this server sends: each type with the optional fields its builder sets.
Sent ==
    { <<"hello", {"harnesses_known", "features"}>>, <<"ping", {"hostname"}>>,
      <<"pong", {"hostname"}>>, <<"query", {}>>, <<"query", {"args"}>>,
      <<"prompt", {}>>, <<"prompt", {"meta"}>>, <<"interrupt", {}>>, <<"answer", {}>>,
      <<"query_ok", {}>>, <<"join_ok", {}>>, <<"error", {"message"}>>,
      <<"error", {"cmd", "message"}>> }
=============================================================================
