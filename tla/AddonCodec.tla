----------------------------- MODULE AddonCodec -----------------------------
(***************************************************************************)
(* The header-addon codec of src/unnamed/part_000 in the handshake that    *)
(* uses it: the client fills its request addons (PopulateSeed), encodes    *)
(* them (EncodeHeaderAddons) ahead of the request's next field, the        *)
(* command; the server decodes them (DecodeHeaderAddons) and reads the     *)
(* command; the server's response addons come back the same way and the   *)
(* client compares them with its own (CheckSeed).                          *)
(*                                                                         *)
(* proto.Marshal is abstracted to what decoding depends on: each field    *)
(* that is not at its default value becomes two units, its tag and its     *)
(* value, in field-number order; Unmarshal takes whole pairs and fails on  *)
(* a tag with no value.  The length prefix counts units and is one byte    *)
(* of ByteBits bits (8 in the code).                                       *)
(***************************************************************************)
EXTENDS Naturals, Sequences, SequencesExt

CONSTANTS
    ByteBits,          \* width of the length byte
    XRV,               \* vless.XRV, the vision flow
    Flows,             \* account flows a client may be configured with
    PeerPaddings,      \* sub-records a server may answer with
    PeerDelays,
    PeerSchedulers,
    None               \* a nil sub-record

PaddingPlusDelay == 1   \* SeedMode_PaddingPlusDelay; 0 is the default mode

\* The sub-records PopulateSeed fills in.
SeedPadding   == [RegularMin |-> 0, RegularMax |-> 256, LongMin |-> 900, LongMax |-> 1400]
SeedDelay     == [IsRandom |-> TRUE, MinMillis |-> 100, MaxMillis |-> 500]
SeedScheduler == [TimeoutMillis |-> 600]

\* Field-number order of the Addons message.
Fields == <<"Flow", "Seed", "Mode", "Duration", "Padding", "Delay", "Scheduler">>

EmptyAddons == [Flow |-> "", Seed |-> <<>>, Mode |-> 0, Duration |-> "",
                Padding |-> None, Delay |-> None, Scheduler |-> None]

\* The addon records a server may answer with.
Responses == [Flow : Flows, Seed : {<<>>, <<1>>}, Mode : {0, PaddingPlusDelay},
              Duration : {"", "0-8"}, Padding : {None} \cup PeerPaddings,
              Delay : {None} \cup PeerDelays, Scheduler : {None} \cup PeerSchedulers]

Command == [cmd |-> "command"]

VARIABLES
    cpc,         \* client: "init", "sent", "checked", "failed"
    spc,         \* server: "init", "decoded", "responded", "failed"
    up,          \* units from client to server
    down,        \* units from server to client
    reqAddons,   \* the client's request addons
    srvAddons,   \* what the server decoded
    srvCmd,      \* the unit the server read as the command
    respAddons,  \* what the client decoded from the response
    verdict      \* CheckSeed's result: "ok" or the field that did not match

vars == <<cpc, spc, up, down, reqAddons, srvAddons, srvCmd, respAddons, verdict>>

Byte(x) == x % 2^ByteBits

\* PopulateSeed: a non-empty seed turns on every seed field at once.
PopulateSeed(seed, addons) ==
    IF seed # ""
    THEN [addons EXCEPT !.Seed = <<1>>, !.Mode = PaddingPlusDelay, !.Duration = "0-8",
                        !.Padding = SeedPadding, !.Delay = SeedDelay,
                        !.Scheduler = SeedScheduler]
    ELSE addons

\* proto.Marshal: fields at their default value are omitted.
Marshal(a) ==
    LET present == SelectSeq(Fields, LAMBDA f : a[f] # EmptyAddons[f])
    IN  FlattenSeq([i \in 1 .. Len(present) |->
                       <<[tag |-> present[i]], [val |-> a[present[i]]]>>])

\* proto.Unmarshal: None when the units end inside a field.
Unmarshal(s) ==
    IF Len(s) % 2 = 1 THEN None
    ELSE [f \in DOMAIN EmptyAddons |->
            IF \E i \in 1 .. Len(s) \div 2 : s[2 * i - 1].tag = f
            THEN LET i == CHOOSE i \in 1 .. Len(s) \div 2 : s[2 * i - 1].tag = f
                 IN  s[2 * i].val
            ELSE EmptyAddons[f]]

\* Mutant: only the vision flow selects the marshalled form.
EncodeHeaderAddonsFlowOnly(a) ==
    IF a.Flow = XRV
    THEN <<[len |-> Byte(Len(Marshal(a)))]>> \o Marshal(a)
    ELSE <<[len |-> 0]>>

\* EncodeHeaderAddons: byte(len(bytes)) then the bytes, or a single 0.
EncodeHeaderAddons(a) ==
    IF a.Flow = XRV \/ Len(a.Seed) > 0
    THEN <<[len |-> Byte(Len(Marshal(a)))]>> \o Marshal(a)
    ELSE <<[len |-> 0]>>

\* DecodeHeaderAddons over the units w: the addons (None on a failed read
\* or unmarshal) and the units left for the rest of the header.
DecodeHeaderAddons(w) ==
    LET length == w[1].len
        body   == SubSeq(w, 2, 1 + length)
    IN  IF length = 0 THEN [addons |-> EmptyAddons, rest |-> Tail(w)]
        ELSE IF Len(w) < 1 + length THEN [addons |-> None, rest |-> <<>>]
        ELSE [addons |-> Unmarshal(body), rest |-> SubSeq(w, 2 + length, Len(w))]

\* Mutant: a nil sub-record on one side only is not reported.
SubRecordMismatchBothSet(x, y) == x # None /\ y # None /\ x # y

\* Both present and some compared field differs, or one of them is nil.
SubRecordMismatch(x, y) ==
    \/ x # None /\ y # None /\ x # y
    \/ (x = None) # (y = None)

\* CheckSeed: the first check that fails, in the code's order, or "ok".
CheckSeed(req, resp) ==
    LET Mismatch(f) ==
            IF f \in {"Seed", "Mode", "Duration"} THEN req[f] # resp[f]
            ELSE SubRecordMismatch(req[f], resp[f])
        failed == SelectSeq(<<"Seed", "Mode", "Duration", "Padding", "Delay", "Scheduler">>,
                            Mismatch)
    IN  IF failed = <<>> THEN "ok" ELSE Head(failed)

Init == /\ cpc = "init"
        /\ spc = "init"
        /\ up = <<>>
        /\ down = <<>>
        /\ reqAddons = EmptyAddons
        /\ srvAddons = None
        /\ srvCmd = None
        /\ respAddons = None
        /\ verdict = None

\* What reaches the peer of the units w: all of them, or, when the
\* connection closes while they are in flight, a non-empty prefix.
Transmitted(w) == {SubSeq(w, 1, k) : k \in 1 .. Len(w)}

\* The client builds its addons from its account and sends the header.
ClientSend ==
    /\ cpc = "init"
    /\ \E flow \in Flows, seed \in {"", "seed"} :
          LET a == PopulateSeed(seed, [EmptyAddons EXCEPT !.Flow = flow])
          IN  /\ reqAddons' = a
              /\ up' \in Transmitted(EncodeHeaderAddons(a) \o <<Command>>)
    /\ cpc' = "sent"
    /\ UNCHANGED <<spc, down, srvAddons, srvCmd, respAddons, verdict>>

\* The server decodes the addons, then reads the command; a failed read
\* or unmarshal ends the connection.
ServerDecode ==
    /\ spc = "init"
    /\ up # <<>>
    /\ LET d == DecodeHeaderAddons(up)
       IN  IF d.addons = None \/ d.rest = <<>>
           THEN /\ spc' = "failed"
                /\ UNCHANGED <<srvAddons, srvCmd>>
           ELSE /\ spc' = "decoded"
                /\ srvAddons' = d.addons
                /\ srvCmd' = Head(d.rest)
    /\ up' = <<>>
    /\ UNCHANGED <<cpc, down, reqAddons, respAddons, verdict>>

\* The server answers with its own addons.
ServerRespond ==
    /\ spc = "decoded"
    /\ \E r \in Responses : down' \in Transmitted(EncodeHeaderAddons(r))
    /\ spc' = "responded"
    /\ UNCHANGED <<cpc, up, reqAddons, srvAddons, srvCmd, respAddons, verdict>>

\* Mutant: CheckSeed's result is discarded.
ClientCheckNoVerdict ==
    /\ cpc = "sent"
    /\ down # <<>>
    /\ LET d == DecodeHeaderAddons(down)
       IN  IF d.addons = None
           THEN /\ cpc' = "failed"
                /\ UNCHANGED respAddons
           ELSE /\ cpc' = "checked"
                /\ respAddons' = d.addons
    /\ down' = <<>>
    /\ UNCHANGED <<spc, up, reqAddons, srvAddons, srvCmd, verdict>>

\* The client decodes the response addons and checks them with CheckSeed.
ClientCheck ==
    /\ cpc = "sent"
    /\ down # <<>>
    /\ LET d == DecodeHeaderAddons(down)
       IN  IF d.addons = None
           THEN /\ cpc' = "failed"
                /\ UNCHANGED <<respAddons, verdict>>
           ELSE /\ cpc' = "checked"
                /\ respAddons' = d.addons
                /\ verdict' = CheckSeed(reqAddons, d.addons)
    /\ down' = <<>>
    /\ UNCHANGED <<spc, up, reqAddons, srvAddons, srvCmd>>

Next == ClientSend \/ ServerDecode \/ ServerRespond \/ ClientCheck

Spec == Init /\ [][Next]_vars

-----------------------------------------------------------------------------

AddonsOf(F) == [Flow : F, Seed : {<<>>, <<1>>}, Mode : {0, PaddingPlusDelay},
                Duration : {"", "0-8"}, Padding : {None, SeedPadding} \cup PeerPaddings,
                Delay : {None, SeedDelay} \cup PeerDelays,
                Scheduler : {None, SeedScheduler} \cup PeerSchedulers]

TypeOK ==
    /\ cpc \in {"init", "sent", "checked", "failed"}
    /\ spc \in {"init", "decoded", "responded", "failed"}
    /\ reqAddons \in AddonsOf(Flows)
    /\ srvAddons \in AddonsOf(Flows) \cup {None}
    /\ respAddons \in AddonsOf(Flows) \cup {None}
    /\ verdict \in {None, "ok", "Seed", "Mode", "Duration", "Padding", "Delay", "Scheduler"}
    /\ (cpc = "checked") = (verdict # None)

\* The header round trip (spec 5.3): the server decodes exactly the addons
\* the client's EncodeHeaderAddons wrote (a zero byte when the flow is not
\* vision and there is no seed, and then the client's addons are empty),
\* and the unit it reads next is the command.
AddonsRoundTrip ==
    spc \in {"decoded", "responded"} =>
        /\ srvAddons = reqAddons
        /\ srvCmd = Command

\* CheckSeed (spec 5.4) accepts a response exactly when Seed, Mode and
\* Duration are equal and every sub-record is nil on both sides or equal on
\* both, and it gives the same answer with the two records swapped.
CheckSeedMatchesReference ==
    cpc = "checked" =>
        /\ (verdict = "ok") <=> (\A f \in {"Seed", "Mode", "Duration", "Padding",
                                          "Delay", "Scheduler"} :
                                    reqAddons[f] = respAddons[f])
        /\ (verdict = "ok") <=> (CheckSeed(respAddons, reqAddons) = "ok")

=============================================================================
