------------------------------ MODULE Inbound ------------------------------
(***************************************************************************)
(* The receiving side of one connection after another: which frame makes   *)
(* which handler run, what is answered and when the connection closes.     *)
(* What the handlers do is in PreAuth, Registry, Roster and TalkLog.       *)
(***************************************************************************)
EXTENDS Codec

CONSTANT Versions       \* values of `v` to send

ASSUME VersionsAssumption == Versions \subseteq Nat

VARIABLES
    phase,      \* where the connection is
    frame,      \* the text frame being read, or None
    did,        \* the handler it made run, or None
    said        \* what it was answered with, or None

vars == <<phase, frame, did, said>>

\* An object lacks or has ill typed at most one field; an array is empty, has the
\* required fields, all of them, or one element too many, and at most one ill typed.
Bodies(type) ==
    LET all == IF type \in Types THEN Fields(type) ELSE {"x"}
        required == IF type \in Types THEN Required[type] ELSE {}
    IN  [form : {"absent", "scalar"}, fields : {{}}, bad : {{}}]
        \cup {[form |-> "object", fields |-> all \ {x}, bad |-> y] :
                 x \in all \cup {None}, y \in {{}, {"x"}}}
        \cup {[form |-> "object", fields |-> all \ {x}, bad |-> {x}] : x \in all}
        \cup UNION {{[form |-> "array", fields |-> some, bad |-> {x} \ {None}] :
                        x \in some \cup {None}} : some \in {{}, required, all, all \cup {"x"}}}

\* What this server's codec makes, as a peer with the same codec sends it.
Encoded == {encode(e[1], e[2]) : e \in Sent}

Frames ==
    [shape : {"text", "scalar"}, type : {None}, v : {None}, id : {FALSE}, ts : {FALSE},
     from : {FALSE}, min : {1}, body : [form : {"absent"}, fields : {{}}, bad : {{}}]]
    \cup UNION {[shape : {"object"}, type : {t}, v : Versions \cup {None}, id : BOOLEAN,
                 ts : BOOLEAN, from : BOOLEAN,
                 min : IF t = "hello" THEN {1, 2} ELSE {1}, body : Bodies(t)] :
                   t \in Types \cup {None, "mystery"}}
    \cup Encoded

Handlers ==
    {"redeem", "verify_credential", "set_hostname", "dispatch", "resolve_query_ok",
     "touch_client", "resolve_pong", "resolve_err", "advertise", "set_blocked",
     "record_reply", "resolve_ack", "ignored"}
Answers ==
    {"hello", "join_ok", "pong", "query_ok", "join_failed", "unauthenticated",
     "unsupported_version", "unknown_type", "unknown_cmd"}

ASSUME NoneAssumption ==
    /\ None \notin Nat \cup Types \cup Handlers \cup Answers
    /\ None \notin Frames

Init == phase = "first" /\ frame = None /\ did = None /\ said = None

\* A text frame arrives; the codec and the handlers do the rest.
Arrive(f) ==
    /\ phase # "closed" /\ frame = None
    /\ frame' = f
    /\ UNCHANGED <<phase, did, said>>

Waiting == frame # None /\ did = None /\ said = None

Decoded == Waiting /\ decode(frame) = "ok"

\* decode fails: the error is answered and the connection closes, in both phases.
Undecodable ==
    /\ Waiting /\ decode(frame) # "ok"
    /\ phase' = "closed"
    /\ said' = decode_error(decode(frame))
    /\ UNCHANGED <<frame, did>>

\* handle_join: the connection closes on success and on failure.
Join ==
    /\ phase = "first" /\ Decoded /\ frame.type = "join"
    /\ phase' = "closed"
    /\ did' = "redeem"
    /\ said' \in {"join_ok", "join_failed"}
    /\ UNCHANGED frame

\* The credential may be any JSON value; one that is not a string is not verified.
Auth ==
    /\ phase = "first" /\ Decoded /\ frame.type = "auth"
    /\ \/ phase' = "session" /\ did' = "verify_credential" /\ said' = "hello"
       \/ phase' = "closed" /\ did' \in {"verify_credential", None} /\ said' = "unauthenticated"
    /\ UNCHANGED frame

NotFirst ==
    /\ phase = "first" /\ Decoded /\ frame.type \notin {"join", "auth"}
    /\ phase' = "closed"
    /\ said' = "unauthenticated"
    /\ UNCHANGED <<frame, did>>

\* handle_frame's match: an ack counts only when it says of what.
Handler(f) ==
    CASE f.type = "hello"           -> "set_hostname"
      [] f.type = "query"           -> "dispatch"
      [] f.type = "query_ok"        -> "resolve_query_ok"
      [] f.type = "ping"            -> "touch_client"
      [] f.type = "pong"            -> "resolve_pong"
      [] f.type = "error"           -> "resolve_err"
      [] f.type = "presence"        -> "advertise"
      [] f.type = "session_blocked" -> "set_blocked"
      [] f.type = "reply"           -> "record_reply"
      [] f.type = "ack" /\ "of" \in decoded(f) -> "resolve_ack"
      [] OTHER                      -> "ignored"

\* Mutant: a frame out of sequence closes the session.
HandleStrictly ==
    /\ phase = "session" /\ Decoded
    /\ did' = Handler(frame)
    /\ said' = IF frame.type = "ping" THEN "pong" ELSE None
    /\ phase' = IF did' = "ignored" THEN "closed" ELSE phase
    /\ UNCHANGED frame

HandleFrame ==
    /\ phase = "session" /\ Decoded
    /\ did' = Handler(frame)
    /\ \/ frame.type = "ping" /\ said' = "pong"
       \/ frame.type = "query" /\ said' \in {"query_ok", "unknown_cmd"}
       \/ frame.type \notin {"ping", "query"} /\ said' = None
    /\ UNCHANGED <<phase, frame>>

\* The loop reads on; or the connection has closed and there is another one.
NextFrame ==
    /\ frame # None /\ ~ Waiting
    /\ phase' = IF phase = "closed" THEN "first" ELSE phase
    /\ frame' = None /\ did' = None /\ said' = None

Next ==
    \/ \E f \in Frames : Arrive(f)
    \/ Undecodable \/ Join \/ Auth \/ NotFirst \/ HandleFrame
    \/ NextFrame

Spec == Init /\ [][Next]_vars

-----------------------------------------------------------------------------
(* Properties *)

\* Every field of the envelope is there, and every field of the body that must be,
\* with its JSON type.
Complete(f) ==
    /\ f.shape = "object" /\ f.type \in Types
    /\ f.v # None /\ f.id /\ f.ts /\ f.from /\ f.body.form # "absent"
FieldsFit(f) ==
    /\ \A x \in Required[f.type] : x \in f.body.fields
    /\ \A x \in f.body.bad : x \notin Required[f.type] /\ x \notin Optional(f.type)

\* What docs/protocol/v1.md asks of a frame.
Valid(f) ==
    /\ Complete(f) /\ f.v = 1 /\ f.min <= 1
    /\ f.body.form = "object" /\ FieldsFit(f)

\* What it does not allow and the code takes: a `v` that the cut to u32 makes 1, an
\* array for a body, and a hello whose protocol_min is above 1.
Tolerated(f) ==
    /\ ~ Valid(f)
    /\ Complete(f) /\ f.v % U32 = 1
    /\ f.body.form = "object" \/ Positional(f.type, f.body)
    /\ FieldsFit(f)

\* ADR 0009: a frame that is neither has no effect, in either phase and whichever
\* check finds it: no handler runs, the peer is told so and the connection closes.
\* The code is v1.md's for an unknown type of version 1 and for a complete frame of
\* another version; a frame without `v` gets the code of whatever check finds it.
FailsClosed ==
    frame # None /\ ~ Waiting /\ ~ Valid(frame) /\ ~ Tolerated(frame) =>
        /\ phase = "closed" /\ did = None
        /\ said \in {"unsupported_version", "unknown_type"}
        /\ Complete(frame) /\ frame.v % U32 # 1 => said = "unsupported_version"
        /\ frame.shape = "object" /\ frame.type \notin Types \cup {None} /\ frame.v = 1 =>
              said = "unknown_type"

\* What one side's codec encodes the other's decodes, whatever optional fields were
\* left out: no frame of this server's making is ever refused as undecodable.
SentIsRead ==
    frame \in Encoded => said \notin {"unsupported_version", "unknown_type"}

\* "Ignore rather than tearing down an otherwise-good session": once a connection
\* is a session, no frame that v1.md allows closes it, in sequence or not, and none redeems or
\* authenticates again.
ValidKeepsSession ==
    [][phase = "session" /\ Waiting /\ Valid(frame) =>
          phase' = "session" /\ did' \notin {None, "redeem", "verify_credential"}]_vars

=============================================================================
