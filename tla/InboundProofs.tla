--------------------------- MODULE InboundProofs ---------------------------
(***************************************************************************)
(* Theorems about the codec and the frames a connection handles, for any   *)
(* width of the version and any versions sent.                             *)
(***************************************************************************)
EXTENDS Inbound, TLAPS

\* A body fits its type when it is an object, or an array with no element too many,
\* that lacks no required field and has no field of the type with the wrong JSON type.
LEMMA BodyFitsIff ==
    ASSUME NEW f
    PROVE  BodyFits(f.type, f.body) <=>
              /\ f.body.form = "object" \/ Positional(f.type, f.body)
              /\ FieldsFit(f)
  BY DEF BodyFits, FieldsFit, Fields

\* decode accepts what v1.md asks for and, beyond it, exactly the three things that
\* Tolerated names: a wrapped `v`, an array for a body, a hello above version 1.
THEOREM DecodeExact ==
    ASSUME NEW f
    PROVE  decode(f) = "ok" <=> Valid(f) \/ Tolerated(f)
<1>1. ASSUME decode(f) = "ok" PROVE Valid(f) \/ Tolerated(f)
  <2>1. Complete(f) /\ f.v % U32 = 1 /\ BodyFits(f.type, f.body)
    BY <1>1 DEF decode, Complete
  <2> QED  BY <2>1, BodyFitsIff DEF Tolerated
<1>2. ASSUME Valid(f) \/ Tolerated(f) PROVE decode(f) = "ok"
  <2>1. 1 % U32 = 1
    BY CodecAssumption
  <2>2. Complete(f) /\ f.v % U32 = 1 /\ BodyFits(f.type, f.body)
    BY <1>2, <2>1, BodyFitsIff DEF Valid, Tolerated
  <2>3. f.type # None
    BY <2>2, NoneAssumption DEF Complete
  <2> QED  BY <2>2, <2>3 DEF Complete, decode
<1> QED  BY <1>1, <1>2

\* Every envelope that encode makes is one to decode, and the optional fields that
\* had a value have one again: no body is wrapped or renamed on the way.
THEOREM RoundTrip ==
    ASSUME NEW type \in Types, NEW some \in SUBSET Optional(type)
    PROVE  /\ decode(encode(type, some)) = "ok"
           /\ some \subseteq decoded(encode(type, some))
<1> DEFINE f == encode(type, some)
<1>1. /\ f.shape = "object" /\ f.type = type /\ f.v = 1 /\ f.id /\ f.ts /\ f.from
      /\ f.min = 1 /\ f.body.form = "object" /\ f.body.bad = {}
      /\ f.body.fields = Required[type] \cup some \cup Written(type)
  BY DEF encode
<1>2. f.v # None /\ f.min <= 1
  BY <1>1, NoneAssumption
<1> HIDE DEF f
<1>3. Valid(f)
  BY <1>1, <1>2 DEF Valid, Complete, FieldsFit
<1>4. some \subseteq decoded(f)
  BY <1>1 DEF decoded
<1> QED  BY <1>3, <1>4, DecodeExact DEF f

-----------------------------------------------------------------------------
\* FailsClosed with what a frame that is not there, or not handled, leaves alone.
Inv ==
    /\ frame = None => did = None /\ said = None /\ phase # "closed"
    /\ Waiting => phase # "closed"
    /\ FailsClosed

LEMMA InvStep == Inv /\ [Next]_vars => Inv'
<1> SUFFICES ASSUME Inv, [Next]_vars PROVE Inv'
  OBVIOUS
<1>1. ASSUME NEW f \in Frames, Arrive(f) PROVE Inv'
  BY <1>1 DEF Arrive, Inv, Waiting, FailsClosed
<1>2. CASE Undecodable
  <2>1. /\ frame' = frame /\ frame # None /\ phase' = "closed" /\ did' = None
        /\ said' = decode_error(decode(frame)) /\ decode(frame) # "ok"
    BY <1>2 DEF Undecodable, Waiting
  <2>2. said' # None
    BY <2>1, NoneAssumption DEF decode_error, Answers
  <2>3. /\ said' \in {"unsupported_version", "unknown_type"}
        /\ Complete(frame) /\ frame.v % U32 # 1 => said' = "unsupported_version"
        /\ frame.shape = "object" /\ frame.type \notin Types \cup {None} => said' = "unknown_type"
    BY NoneAssumption, <2>1 DEF decode, decode_error, Complete
  <2> QED  BY <2>1, <2>2, <2>3 DEF Inv, Waiting, FailsClosed
<1>3. ASSUME Decoded, frame' = frame, said' # None \/ did' # None PROVE Inv'
  <2>1. (Valid(frame) \/ Tolerated(frame)) /\ frame # None
    BY <1>3, DecodeExact DEF Decoded, Waiting
  <2>2. FailsClosed'
    BY <1>3, <2>1 DEF FailsClosed
  <2> QED  BY <1>3, <2>1, <2>2 DEF Inv, Waiting
<1>4. CASE Join \/ Auth \/ NotFirst
  <2>1. said' \in Answers /\ said' # None
    BY <1>4, NoneAssumption DEF Join, Auth, NotFirst, Answers
  <2> QED  BY <1>3, <1>4, <2>1 DEF Join, Auth, NotFirst
<1>5. CASE HandleFrame
  <2>1. did' \in Handlers
    BY <1>5 DEF HandleFrame, Handler, Handlers
  <2> QED  BY <1>3, <1>5, <2>1, NoneAssumption DEF HandleFrame
<1>6. CASE NextFrame
  BY <1>6 DEF NextFrame, Inv, Waiting, FailsClosed
<1>7. CASE UNCHANGED vars
  BY <1>7 DEF vars, Inv, Waiting, FailsClosed
<1> QED  BY <1>1, <1>2, <1>4, <1>5, <1>6, <1>7 DEF Next

\* A frame that is neither a v1 frame nor one the code tolerates runs no handler, in
\* either phase: it is answered with an error, by v1.md's code where it has one thing
\* wrong, and the connection closes.
THEOREM AlwaysFailsClosed == Spec => []FailsClosed
<1>1. Init => Inv
  BY DEF Init, Inv, Waiting, FailsClosed
<1>2. Inv => FailsClosed
  BY DEF Inv
<1> QED  BY <1>1, <1>2, InvStep, PTL DEF Spec

\* No frame that v1.md allows closes a session or authenticates it again.
THEOREM SessionSurvives == Spec => ValidKeepsSession
<1>1. ASSUME [Next]_vars, ~ UNCHANGED vars, phase = "session", Waiting, Valid(frame)
      PROVE  phase' = "session" /\ did' \notin {None, "redeem", "verify_credential"}
  <2>1. decode(frame) = "ok"
    BY <1>1, DecodeExact
  <2>2. HandleFrame
    BY <1>1, <2>1 DEF Next, Arrive, Undecodable, Join, Auth, NotFirst, NextFrame, Waiting
  <2>3. Handler(frame) \in Handlers \ {"redeem", "verify_credential"}
    BY DEF Handler, Handlers
  <2> QED  BY <1>1, <2>2, <2>3, NoneAssumption DEF HandleFrame
<1>2. [Next]_vars => [phase = "session" /\ Waiting /\ Valid(frame) =>
          phase' = "session" /\ did' \notin {None, "redeem", "verify_credential"}]_vars
  BY <1>1
<1> QED  BY <1>2, PTL DEF Spec, ValidKeepsSession

\* Every frame this server sends is one the codec makes from its optional fields.
LEMMA SentTypes == \A e \in Sent : e[1] \in Types /\ e[2] \subseteq Optional(e[1])
  BY DEF Sent, Types, Required, Optional

\* No frame that this codec encoded is refused as undecodable by the same codec on the
\* other side, in either phase.
THEOREM SentAlwaysRead == Spec => []SentIsRead
<1>1. ASSUME NEW f \in Encoded PROVE decode(f) = "ok"
  <2>1. PICK e \in Sent : f = encode(e[1], e[2])
    BY <1>1 DEF Encoded
  <2> QED  BY <2>1, SentTypes, RoundTrip
<1>2. Init => SentIsRead
  BY NoneAssumption DEF Init, SentIsRead, Answers
<1>3. Inv /\ SentIsRead /\ [Next]_vars => SentIsRead'
  <2> SUFFICES ASSUME Inv, SentIsRead, [Next]_vars, frame' \in Encoded
               PROVE  said' \notin {"unsupported_version", "unknown_type"}
    BY DEF SentIsRead
  <2>1. None \notin {"unsupported_version", "unknown_type"}
    BY NoneAssumption DEF Answers
  <2>2. ASSUME NEW f \in Frames, Arrive(f) PROVE said' = None
    BY <2>2 DEF Arrive, Inv
  <2>3. ~ Undecodable
    BY <1>1 DEF Undecodable
  <2>4. ASSUME Join \/ Auth \/ NotFirst \/ HandleFrame
        PROVE  said' \in {"join_ok", "join_failed", "hello", "unauthenticated", "pong",
                          "query_ok", "unknown_cmd", None}
    BY <2>4 DEF Join, Auth, NotFirst, HandleFrame
  <2>5. CASE NextFrame
    BY <2>1, <2>5 DEF NextFrame
  <2>6. CASE UNCHANGED vars
    BY <2>6 DEF vars, SentIsRead
  <2> QED  BY <2>1, <2>2, <2>3, <2>4, <2>5, <2>6 DEF Next
<1>4. Init => Inv
  BY DEF Init, Inv, Waiting, FailsClosed
<1> QED  BY <1>2, <1>3, <1>4, InvStep, PTL DEF Spec
=============================================================================
