---------------------------- MODULE DiscoveryProofs ----------------------------
(***************************************************************************)
(* What holds of the requests and the store keys of a client whatever the  *)
(* configurations, the metadata documents and the hook that sees requests. *)
(***************************************************************************)
EXTENDS Discovery, TextLemmas

------------------------------------------------------------------------------
(* The inductive invariant *)

\* A client is only built over endpoints that were checked.
BuiltSecure ==
    stage \in {"built", "coded"} =>
        \A e \in Endpoints : endpoint[e] # None => IsSecure(endpoint[e])

\* Where the endpoints in hand come from.
EndpointSource ==
    stage # "down" => \A e \in Endpoints :
        IF given.endpoint[e] # None THEN endpoint[e] = given.endpoint[e]
        ELSE endpoint[e] # None =>
                 /\ Declared(e, endpoint[e])
                 /\ OriginOf(endpoint[e]) # OriginOf(given.issuer) => e \in warnings

\* While it asks, a discovery has met no document of its issuer and changed nothing.
AskingFresh ==
    stage = "asking" => /\ endpoint = given.endpoint
                        /\ \A i \in 1 .. Len(answers) : ~Speaks(i)

\* Without an issuer nothing is ever discovered.
NothingDiscovered == stage # "down" /\ given.issuer = None => endpoint = given.endpoint

\* Until a client is built only metadata is requested.
OnlyMetadata ==
    /\ stage = "down" => sent = None
    /\ stage \in {"configured", "asking"} /\ sent # None => sent.request.kind = "metadata"

\* A store key is the identity its owner knows, for the client at hand and for every record.
KeysAreOwners ==
    /\ stage \in {"built", "coded"} => key = Owner
    /\ \A r \in store : r.key = r.owner

DiscoveryInv ==
    /\ TypeOK /\ TargetsTrusted /\ BuiltSecure /\ EndpointSource /\ AskingFresh
    /\ NothingDiscovered /\ OnlyMetadata /\ KeysAreOwners

------------------------------------------------------------------------------
(* Lemmas *)

\* Every candidate lies on the issuer's origin.
LEMMA CandidatesOnOrigin ==
    ASSUME NEW issuer \in Urls, NEW n \in 1 .. 3
    PROVE  OriginOf(DiscoveryCandidates(issuer)[n]) = OriginOf(issuer)
BY DiscoveryAssumption DEF DiscoveryCandidates, OriginOf

\* The types are kept.
LEMMA TypeStep == TypeOK /\ [Next]_vars => TypeOK'
<1> SUFFICES ASSUME TypeOK, [Next]_vars PROVE TypeOK' OBVIOUS
<1> USE DiscoveryAssumption
<1>1. CASE Launch BY <1>1 DEF Launch, TypeOK
<1>2. CASE Discover BY <1>2 DEF Discover, TypeOK
<1>3. CASE Ask
  <2>1. PICK a \in Answers : /\ answers' = Append(answers, a)
                             /\ endpoint' \in {endpoint, Merged(a)}
                             /\ stage' = "configured" \/ (stage' = "asking" /\ Len(answers) + 1 # 3)
    BY <1>3 DEF Ask
  <2>2. Merged(a) \in [Endpoints -> OptionalUrls] BY DEF Merged, TypeOK
  <2>3. QED BY <1>3, <2>1, <2>2 DEF Ask, TypeOK
<1>4. CASE Build BY <1>4 DEF Build, TypeOK
<1>5. CASE RequestCode \/ Poll \/ PollNowhere \/ RefreshStored \/ Logout
  <2>1. stage' \in {"coded", "built"}
    BY <1>5 DEF RequestCode, Poll, PollNowhere, RefreshStored, Logout
  <2>2. UNCHANGED <<given, endpoint, answers>> /\ stage # "down"
    BY <1>5 DEF RequestCode, Poll, PollNowhere, RefreshStored, Logout, Send
  <2>3. QED BY <2>1, <2>2 DEF TypeOK
<1>6. CASE Quit BY <1>6 DEF Quit, TypeOK, Unset, OptionalUrls
<1>7. CASE UNCHANGED vars BY <1>7 DEF vars, TypeOK
<1>8. QED BY <1>1, <1>2, <1>3, <1>4, <1>5, <1>6, <1>7 DEF Next

\* A merge takes a document's endpoint exactly where there was none.
LEMMA MergeSource ==
    ASSUME TypeOK, NEW a \in Answers, NEW e \in Endpoints
    PROVE  Merged(a)[e] = IF endpoint[e] = None THEN a.endpoint[e] ELSE endpoint[e]
BY DEF Merged

\* One candidate keeps the invariant.
LEMMA AskStep == DiscoveryInv /\ TypeOK' /\ Ask => DiscoveryInv'
<1> SUFFICES ASSUME DiscoveryInv, TypeOK', Ask PROVE DiscoveryInv' OBVIOUS
<1> USE DiscoveryAssumption
<1>1. PICK a \in Answers :
        /\ answers' = Append(answers, a)
        /\ \/ /\ Authoritative(a)
              /\ warnings' = warnings \cup Advice(a)
              /\ endpoint' = IF Refused(a) THEN endpoint ELSE Merged(a)
              /\ stage' = "configured"
           \/ /\ ~Authoritative(a)
              /\ stage' = IF Len(answers) + 1 = 3 THEN "configured" ELSE "asking"
              /\ UNCHANGED endpoint
  BY DEF Ask
<1>2. /\ stage = "asking" /\ given \in Configs /\ given.issuer \in Urls
      /\ Len(answers) + 1 \in 1 .. 3 /\ endpoint = given.endpoint
      /\ UNCHANGED <<given, key, store>> /\ stage' \in {"configured", "asking"}
      /\ answers \in Seq(Answers) /\ \A i \in 1 .. Len(answers) : ~Speaks(i)
  BY <1>1 DEF Ask, DiscoveryInv, TypeOK, AskingFresh, OptionalUrls
<1>3. sent' # None => sent'.request.kind = "metadata" /\ OriginOf(sent'.url) = OriginOf(given.issuer)
  <2>1. sent' = [url |-> DiscoveryCandidates(given.issuer)[Len(answers) + 1], request |-> Metadata]
    BY DEF Ask
  <2>2. OriginOf(DiscoveryCandidates(given.issuer)[Len(answers) + 1]) = OriginOf(given.issuer)
    BY <1>2, CandidatesOnOrigin
  <2>3. QED BY <2>1, <2>2 DEF Metadata
<1>4. PICK n \in 1 .. 3 :
        /\ n = Len(answers) + 1 /\ Len(answers') = n /\ answers'[n] = a
        /\ \A i \in 1 .. (n - 1) : answers'[i] = answers[i]
  BY <1>1, <1>2
<1>5. TargetsTrusted' BY <1>2, <1>3 DEF TargetsTrusted
<1>6. BuiltSecure' BY <1>2 DEF BuiltSecure
<1>7. \A i \in 1 .. (n - 1) : ~Speaks(i)' BY <1>2, <1>4 DEF Speaks
<1>8. EndpointSource'
  <2> SUFFICES ASSUME NEW e \in Endpoints, given.endpoint[e] = None, endpoint'[e] # None
               PROVE  /\ Declared(e, endpoint[e])'
                      /\ OriginOf(endpoint[e])' # OriginOf(given.issuer) => e \in warnings'
    <3>1. \A e \in Endpoints : given.endpoint[e] # None => endpoint'[e] = given.endpoint[e]
      BY <1>1, <1>2 DEF Merged
    <3>2. QED BY <1>2, <3>1 DEF EndpointSource
  <2>1. Authoritative(a) /\ ~Refused(a) /\ endpoint' = Merged(a) /\ warnings' = warnings \cup Advice(a)
    BY <1>1, <1>2
  <2>2. endpoint'[e] = a.endpoint[e] BY <1>2, <2>1 DEF Merged
  <2>3. Declared(e, endpoint[e])'
    <3>1. Speaks(n)' BY <1>2, <1>4, <2>1 DEF Speaks, Authoritative
    <3>2. n \in 1 .. Len(answers') /\ answers'[n].endpoint[e] = endpoint'[e] BY <1>4, <2>2
    <3>3. QED BY <1>7, <3>1, <3>2 DEF Declared
  <2>4. OriginOf(endpoint[e])' # OriginOf(given.issuer) => e \in warnings'
    BY <2>1, <2>2 DEF Advice, OriginOf
  <2>5. QED BY <2>3, <2>4
<1>9. AskingFresh'
  <2> SUFFICES ASSUME stage' = "asking"
               PROVE  endpoint' = given.endpoint /\ \A i \in 1 .. Len(answers') : ~Speaks(i)'
    BY <1>2 DEF AskingFresh
  <2>1. ~Authoritative(a) /\ UNCHANGED endpoint BY <1>1
  <2>2. ~Speaks(n)' BY <1>2, <1>4, <2>1 DEF Speaks, Authoritative
  <2>3. QED BY <1>2, <1>4, <1>7, <2>1, <2>2
<1>10. NothingDiscovered' /\ OnlyMetadata' /\ KeysAreOwners'
  BY <1>2, <1>3 DEF NothingDiscovered, OnlyMetadata, KeysAreOwners, DiscoveryInv
<1>11. QED BY <1>5, <1>6, <1>8, <1>9, <1>10 DEF DiscoveryInv

\* A request to one of the endpoints in hand is well aimed.
LEMMA SendTrusted ==
    ASSUME DiscoveryInv, stage \in {"built", "coded"}, NEW kind \in Kinds, NEW base, Send(kind, base)
    PROVE  TargetsTrusted'
<1>1. EndpointOf[kind] \in Endpoints /\ kind # "metadata" BY DEF EndpointOf, Endpoints, Kinds
<1>2. /\ sent' # None => sent'.url = endpoint[EndpointOf[kind]] /\ sent'.request.kind = kind
      /\ endpoint[EndpointOf[kind]] # None /\ UNCHANGED <<given, endpoint, answers, warnings>>
  BY DEF Send, PrepareRequest
<1>3. IsSecure(endpoint[EndpointOf[kind]]) BY <1>1, <1>2 DEF DiscoveryInv, BuiltSecure
<1>4. IF given.endpoint[EndpointOf[kind]] # None
      THEN endpoint[EndpointOf[kind]] = given.endpoint[EndpointOf[kind]]
      ELSE /\ Declared(EndpointOf[kind], endpoint[EndpointOf[kind]])
           /\ OriginOf(endpoint[EndpointOf[kind]]) # OriginOf(given.issuer)
                  => EndpointOf[kind] \in warnings
  BY <1>1, <1>2 DEF DiscoveryInv, EndpointSource
<1>5. \A e, url : Declared(e, url)' <=> Declared(e, url) BY <1>2 DEF Declared, Speaks
<1>6. QED BY <1>1, <1>2, <1>3, <1>4, <1>5 DEF TargetsTrusted

\* What a built client does keeps the invariant.
LEMMA ClientStep ==
    ASSUME DiscoveryInv, TypeOK', RequestCode \/ Poll \/ PollNowhere \/ RefreshStored \/ Logout
    PROVE  DiscoveryInv'
<1>1. /\ stage \in {"built", "coded"} /\ stage' \in {"built", "coded"}
      /\ UNCHANGED <<given, endpoint, answers, warnings, key>>
  BY DEF RequestCode, Poll, PollNowhere, RefreshStored, Logout, Send
<1>2. TargetsTrusted'
  <2>1. CASE UNCHANGED sent
    <3>1. \A e, url : Declared(e, url)' <=> Declared(e, url) BY <1>1 DEF Declared, Speaks
    <3>2. QED BY <1>1, <2>1, <3>1 DEF TargetsTrusted, DiscoveryInv
  <2>2. CASE \E kind \in Kinds, base \in {DeviceParams(given), TokenParams("device code"),
                 RefreshParams("refresh token"), RevokeParams("access token")} : Send(kind, base)
    BY <1>1, <2>2, SendTrusted
  <2>3. QED
    BY <2>1, <2>2 DEF RequestCode, Poll, PollNowhere, RefreshStored, Logout, Kinds
<1>3. KeysAreOwners'
  <2>1. Owner' = Owner /\ key = Owner BY <1>1 DEF Owner, KeysAreOwners, DiscoveryInv
  <2>2. Save \/ Clear \/ UNCHANGED store
    BY DEF RequestCode, Poll, PollNowhere, RefreshStored, Logout
  <2>3. \A r \in store' : r.key = r.owner
    BY <2>1, <2>2 DEF Save, Clear, KeysAreOwners, DiscoveryInv
  <2>4. QED BY <1>1, <2>1, <2>3 DEF KeysAreOwners
<1>4. \A e, url : Declared(e, url)' <=> Declared(e, url) BY <1>1 DEF Declared, Speaks
<1>5. BuiltSecure' /\ EndpointSource' /\ AskingFresh' /\ NothingDiscovered' /\ OnlyMetadata'
  BY <1>1, <1>4 DEF DiscoveryInv, BuiltSecure, EndpointSource, AskingFresh, NothingDiscovered, OnlyMetadata
<1>6. QED BY <1>2, <1>3, <1>5 DEF DiscoveryInv

\* The other steps keep the invariant.
LEMMA ProgramStep ==
    ASSUME DiscoveryInv, TypeOK', Launch \/ Discover \/ Build \/ Quit
    PROVE  DiscoveryInv'
<1> USE DiscoveryAssumption
<1>1. CASE Launch
  BY <1>1 DEF Launch, DiscoveryInv, TypeOK, TargetsTrusted, BuiltSecure, EndpointSource,
       AskingFresh, NothingDiscovered, OnlyMetadata, KeysAreOwners
<1>2. CASE Discover
  BY <1>2 DEF Discover, DiscoveryInv, TypeOK, TargetsTrusted, BuiltSecure, EndpointSource,
       AskingFresh, NothingDiscovered, OnlyMetadata, KeysAreOwners
<1>3. CASE Build
  <2>1. \A e, url : Declared(e, url)' <=> Declared(e, url) BY <1>3 DEF Build, Declared, Speaks
  <2>2. TargetsTrusted' /\ EndpointSource' /\ AskingFresh' /\ NothingDiscovered' /\ OnlyMetadata'
    BY <1>3, <2>1 DEF Build, DiscoveryInv, TargetsTrusted, EndpointSource, AskingFresh,
         NothingDiscovered, OnlyMetadata
  <2>3. BuiltSecure' BY <1>3 DEF Build, Valid, BuiltSecure
  <2>4. key' = Owner'
    BY <1>3 DEF Build, StoreKey, Owner, Identity, DiscoveryInv, NothingDiscovered
  <2>5. QED BY <1>3, <2>2, <2>3, <2>4 DEF Build, DiscoveryInv, KeysAreOwners
<1>4. CASE Quit
  BY <1>4 DEF Quit, DiscoveryInv, TargetsTrusted, BuiltSecure, EndpointSource, AskingFresh,
       NothingDiscovered, OnlyMetadata, KeysAreOwners
<1>5. QED BY <1>1, <1>2, <1>3, <1>4

\* Nothing changes: nothing breaks.
LEMMA StutterStep == ASSUME DiscoveryInv, UNCHANGED vars PROVE DiscoveryInv'
<1>1. \A e, url : Declared(e, url)' <=> Declared(e, url) BY DEF vars, Declared, Speaks
<1>2. QED
  BY <1>1 DEF vars, DiscoveryInv, TypeOK, TargetsTrusted, BuiltSecure, EndpointSource, AskingFresh,
       NothingDiscovered, OnlyMetadata, KeysAreOwners, Speaks, Owner

\* Every step keeps the invariant.
LEMMA DiscoveryStep == DiscoveryInv /\ [Next]_vars => DiscoveryInv'
<1> SUFFICES ASSUME DiscoveryInv, [Next]_vars PROVE DiscoveryInv' OBVIOUS
<1>1. TypeOK' BY TypeStep DEF DiscoveryInv
<1>2. QED BY <1>1, AskStep, ClientStep, ProgramStep, StutterStep DEF Next

\* A program that was never started satisfies it.
LEMMA DiscoveryStart == Init => DiscoveryInv
BY DEF Init, Unset, DiscoveryInv, TypeOK, TargetsTrusted, BuiltSecure, EndpointSource, AskingFresh,
     NothingDiscovered, OnlyMetadata, KeysAreOwners, OptionalUrls

\* The invariant is inductive.
THEOREM DiscoveryInvariant == Spec => []DiscoveryInv
BY DiscoveryStart, DiscoveryStep, PTL DEF Spec

------------------------------------------------------------------------------
(* The theorems *)

\* The state of a program keeps its types (Discovery.TypeOK).
THEOREM Types == Spec => []TypeOK
<1>1. DiscoveryInv => TypeOK BY DEF DiscoveryInv
<1>2. QED BY <1>1, DiscoveryInvariant, PTL

\* Every request goes, securely, where the configuration or the issuer's own document says.
THEOREM RequestsGoWhereTheyMay == Spec => []TargetsTrusted
<1>1. DiscoveryInv => TargetsTrusted BY DEF DiscoveryInv
<1>2. QED BY <1>1, DiscoveryInvariant, PTL

\* Discovery never changes the name a credential is kept under.
THEOREM ClientsFindTheirRecords == Spec => []RecordsFound
<1>1. DiscoveryInv => RecordsFound
  BY DEF DiscoveryInv, KeysAreOwners, RecordsFound
<1>2. QED BY <1>1, DiscoveryInvariant, PTL

------------------------------------------------------------------------------
(* The signs of a form: what is encoded is decoded to what it was *)

\* Bytes.
Octets == 0 .. 255

\* What stands for one byte in a form.
EncodedByte(b) ==
    CASE b \in Unreserved -> <<b>>
      [] b = Space -> <<Plus>>
      [] OTHER -> <<Percent, HexDigit(b \div 16), HexDigit(b % 16)>>

\* What an escape at i stands for, and what of the decoded text comes from i.
EscapeAt(text, i) ==
    IF i \in 1 .. Len(text) - 2 /\ text[i] = Percent THEN Escaped(text[i + 1], text[i + 2]) ELSE None

DecodedAt(text, i) ==
    CASE EscapeAt(text, i) # None -> <<EscapeAt(text, i)>>
      [] EscapeAt(text, i - 1) # None \/ EscapeAt(text, i - 2) # None -> <<>>
      [] OTHER -> <<IF text[i] = Plus THEN Space ELSE text[i]>>

\* No escape is cut off at the end of the text.
WholeEscapes(text) ==
    \A i \in 1 .. Len(text) : text[i] = Percent => i <= Len(text) - 2

\* The encoding, byte by byte.
LEMMA EncodeIs ==
    ASSUME NEW text
    PROVE  EncodeComponent(text) = FlattenSeq([i \in DOMAIN text |-> EncodedByte(text[i])])
BY DEF EncodeComponent, EncodedByte

\* The decoding, place by place.
LEMMA DecodeIs ==
    ASSUME NEW text
    PROVE  DecodeComponent(text) = FlattenSeq([i \in DOMAIN text |-> DecodedAt(text, i)])
BY DEF DecodeComponent, DecodedAt, EscapeAt

\* A hexadecimal digit is read as its value, and is no sign with a meaning of its own.
LEMMA HexDigits ==
    ASSUME NEW n \in 0 .. 15
    PROVE  /\ HexDigit(n) \in 48 .. 57 \cup 65 .. 70
           /\ HexValue(HexDigit(n)) = n
<1>1. CASE n < 10 BY <1>1 DEF HexDigit, HexValue
<1>2. CASE ~(n < 10) BY <1>2 DEF HexDigit, HexValue
<1>3. QED BY <1>1, <1>2

\* A byte is the two halves that are written.
LEMMA Halves ==
    ASSUME NEW b \in 0 .. 255
    PROVE  b \div 16 \in 0 .. 15 /\ b % 16 \in 0 .. 15 /\ 16 * (b \div 16) + (b % 16) = b
<1>1. b \in Int OBVIOUS
<1>2. b = 16 * (b \div 16) + (b % 16) BY <1>1
<1>3. b \div 16 \in 0 .. 15 /\ b % 16 \in 0 .. 15 OBVIOUS
<1>4. QED BY <1>2, <1>3

\* A byte is one sign for itself or an escape that is read as it, and holds no mark.
LEMMA EncodedByteIs ==
    ASSUME NEW b \in Octets
    PROVE  /\ EncodedByte(b) \in Seq(Octets)
           /\ \A i \in 1 .. Len(EncodedByte(b)) : EncodedByte(b)[i] \notin {Ampersand, Equals, Colon}
           /\ \/ /\ Len(EncodedByte(b)) = 1 /\ EncodedByte(b)[1] # Percent
                 /\ (IF EncodedByte(b)[1] = Plus THEN Space ELSE EncodedByte(b)[1]) = b
              \/ /\ Len(EncodedByte(b)) = 3 /\ EncodedByte(b)[1] = Percent
                 /\ EncodedByte(b)[2] # Percent /\ EncodedByte(b)[3] # Percent
                 /\ Escaped(EncodedByte(b)[2], EncodedByte(b)[3]) = b
<1>1. CASE b \in Unreserved
  <2>1. EncodedByte(b) = <<b>> BY <1>1 DEF EncodedByte, Unreserved, Space
  <2>2. b \notin {Ampersand, Equals, Colon, Percent, Plus}
    BY <1>1 DEF Unreserved, Ampersand, Equals, Colon, Percent, Plus
  <2>3. QED BY <2>1, <2>2
<1>2. CASE b \notin Unreserved /\ b = Space
  <2>1. EncodedByte(b) = <<Plus>> BY <1>2 DEF EncodedByte
  <2>2. Plus \in Octets /\ Plus \notin {Ampersand, Equals, Colon, Percent}
    BY DEF Octets, Ampersand, Equals, Colon, Percent, Plus
  <2>3. QED BY <1>2, <2>1, <2>2
<1>3. CASE b \notin Unreserved /\ b # Space
  <2> DEFINE h == HexDigit(b \div 16)
             l == HexDigit(b % 16)
  <2>1. EncodedByte(b) = <<Percent, h, l>> BY <1>3 DEF EncodedByte
  <2>2. b \div 16 \in 0 .. 15 /\ b % 16 \in 0 .. 15 /\ 16 * (b \div 16) + (b % 16) = b
    BY Halves DEF Octets
  <2>3. /\ h \in 48 .. 57 \cup 65 .. 70 /\ l \in 48 .. 57 \cup 65 .. 70
        /\ HexValue(h) = b \div 16 /\ HexValue(l) = b % 16
    BY <2>2, HexDigits
  <2> HIDE DEF h, l
  <2>4. /\ b \div 16 # None /\ b % 16 # None BY <2>2, EncodingAssumption
  <2>5. Escaped(h, l) = b
    <3>1. h # Plus BY <2>3 DEF Plus
    <3>2. Escaped(h, l) = 16 * HexValue(h) + HexValue(l) BY <2>3, <2>4, <3>1 DEF Escaped
    <3>3. HexValue(h) = b \div 16 /\ HexValue(l) = b % 16 BY <2>3
    <3>4. 16 * HexValue(h) + HexValue(l) = b BY <2>2, <3>3, Zenon
    <3>5. QED BY <3>2, <3>4
  <2>6. /\ h \in Octets /\ l \in Octets /\ Percent \in Octets
        /\ {h, l, Percent} \cap {Ampersand, Equals, Colon} = {} /\ h # Percent /\ l # Percent
    BY <2>3 DEF Octets, Ampersand, Equals, Colon, Percent
  <2>7. /\ EncodedByte(b) \in Seq(Octets) /\ Len(EncodedByte(b)) = 3
        /\ EncodedByte(b)[1] = Percent /\ EncodedByte(b)[2] = h /\ EncodedByte(b)[3] = l
    BY <2>1, <2>6
  <2>8. \A i \in 1 .. 3 : EncodedByte(b)[i] \in {h, l, Percent}
    <3>1. \A i \in 1 .. 3 : i = 1 \/ i = 2 \/ i = 3 OBVIOUS
    <3>2. QED BY <2>7, <3>1
  <2>9. QED BY <2>5, <2>6, <2>7, <2>8
<1>4. QED BY <1>1, <1>2, <1>3

\* No escape begins within another.
LEMMA EscapesApart ==
    ASSUME NEW text, NEW i \in Int, EscapeAt(text, i) # None
    PROVE  EscapeAt(text, i - 1) = None /\ EscapeAt(text, i - 2) = None
<1>1. text[i] = Percent BY DEF EscapeAt
<1>2. HexValue(Percent) = None BY DEF HexValue, Percent
<1>3. ASSUME NEW a, NEW b, Escaped(a, b) # None PROVE a # Percent /\ b # Percent
  BY <1>2, <1>3 DEF Escaped, Percent, Plus
<1>4. (i - 1) + 1 = i /\ (i - 2) + 2 = i OBVIOUS
<1>5. EscapeAt(text, i - 1) = None
  <2> SUFFICES ASSUME EscapeAt(text, i - 1) # None PROVE FALSE OBVIOUS
  <2>1. Escaped(text[(i - 1) + 1], text[(i - 1) + 2]) # None BY DEF EscapeAt
  <2>2. QED BY <1>1, <1>3, <1>4, <2>1
<1>6. EscapeAt(text, i - 2) = None
  <2> SUFFICES ASSUME EscapeAt(text, i - 2) # None PROVE FALSE OBVIOUS
  <2>1. Escaped(text[(i - 2) + 1], text[(i - 2) + 2]) # None BY DEF EscapeAt
  <2>2. QED BY <1>1, <1>3, <1>4, <2>1
<1>7. QED BY <1>5, <1>6

\* One more byte, encoded, is decoded to that byte.
LEMMA DecodeMore ==
    ASSUME NEW a \in Seq(Octets), WholeEscapes(a), NEW b \in Octets
    PROVE  /\ DecodeComponent(a \o EncodedByte(b)) = Append(DecodeComponent(a), b)
           /\ WholeEscapes(a \o EncodedByte(b))
<1> DEFINE e == EncodedByte(b)
           t == a \o e
           n == Len(a)
           m == Len(e)
<1>1. /\ e \in Seq(Octets) /\ b \in Octets
      /\ \/ m = 1 /\ e[1] # Percent /\ (IF e[1] = Plus THEN Space ELSE e[1]) = b
         \/ /\ m = 3 /\ e[1] = Percent /\ e[2] # Percent /\ e[3] # Percent
            /\ Escaped(e[2], e[3]) = b
  BY EncodedByteIs
<1>2. /\ t \in Seq(Octets) /\ Len(t) = n + m /\ n \in Nat /\ m \in Nat
      /\ \A i \in 1 .. n : t[i] = a[i]
      /\ \A j \in 1 .. m : t[n + j] = e[j]
  <2> HIDE DEF e
  <2>1. QED BY <1>1
<1> HIDE DEF e, t, n, m
<1>3. b # None BY EncodingAssumption DEF Octets
<1>4. \A i \in Int : i <= n => EscapeAt(t, i) = EscapeAt(a, i)
  <2> SUFFICES ASSUME NEW i \in Int, i <= n PROVE EscapeAt(t, i) = EscapeAt(a, i) OBVIOUS
  <2>1. CASE i < 1 BY <2>1, <1>2 DEF EscapeAt, n
  <2>2. CASE i >= 1 /\ a[i] # Percent BY <2>2, <1>2 DEF EscapeAt, n
  <2>3. CASE i >= 1 /\ a[i] = Percent
    <3>1. i <= n - 2 BY <2>3, <1>2 DEF WholeEscapes, n
    <3>2. t[i] = a[i] /\ t[i + 1] = a[i + 1] /\ t[i + 2] = a[i + 2] BY <1>2, <2>3, <3>1
    <3>3. i \in 1 .. Len(t) - 2 /\ i \in 1 .. Len(a) - 2 BY <1>1, <1>2, <2>3, <3>1 DEF n
    <3>4. QED BY <3>2, <3>3 DEF EscapeAt
  <2>4. QED BY <2>1, <2>2, <2>3
<1>5. \A i \in Int : i \in {n - 1, n} => EscapeAt(t, i) = None
  <2> SUFFICES ASSUME NEW i \in Int, i \in {n - 1, n} PROVE EscapeAt(a, i) = None BY <1>2, <1>4
  <2>1. ~(i \in 1 .. Len(a) - 2) BY <1>2 DEF n
  <2>2. CASE i < 1 BY <2>1 DEF EscapeAt
  <2>3. CASE i >= 1 BY <2>1 DEF EscapeAt
  <2>4. QED BY <2>2, <2>3
<1>6. \A i \in 1 .. n : DecodedAt(t, i) = DecodedAt(a, i)
  <2> SUFFICES ASSUME NEW i \in 1 .. n PROVE DecodedAt(t, i) = DecodedAt(a, i) OBVIOUS
  <2>1. i \in Int /\ i - 1 \in Int /\ i - 2 \in Int /\ i <= n /\ i - 1 <= n /\ i - 2 <= n BY <1>2
  <2>2. /\ EscapeAt(t, i) = EscapeAt(a, i) /\ EscapeAt(t, i - 1) = EscapeAt(a, i - 1)
        /\ EscapeAt(t, i - 2) = EscapeAt(a, i - 2)
    BY <1>4, <2>1
  <2>3. t[i] = a[i] BY <1>2
  <2>4. QED BY <2>2, <2>3, Zenon DEF DecodedAt
<1>7. ASSUME m = 1 PROVE DecodedAt(t, n + 1) = <<b>>
  <2>1. EscapeAt(t, n + 1) = None
    <3>1. ~(n + 1 \in 1 .. Len(t) - 2) BY <1>2, <1>7
    <3>2. QED BY <3>1 DEF EscapeAt
  <2>2. EscapeAt(t, (n + 1) - 1) = None /\ EscapeAt(t, (n + 1) - 2) = None
    <3>1. (n + 1) - 1 \in Int /\ (n + 1) - 2 \in Int /\ (n + 1) - 1 = n /\ (n + 1) - 2 = n - 1 BY <1>2
    <3>2. QED BY <1>5, <3>1
  <2>3. t[n + 1] = e[1] BY <1>2, <1>7
  <2>4. DecodedAt(t, n + 1) = <<IF e[1] = Plus THEN Space ELSE e[1]>>
    BY <2>1, <2>2, <2>3, Zenon DEF DecodedAt
  <2>5. (IF e[1] = Plus THEN Space ELSE e[1]) = b BY <1>1, <1>7
  <2>6. QED BY <2>4, <2>5
<1>8. ASSUME m = 3
      PROVE  DecodedAt(t, n + 1) = <<b>> /\ DecodedAt(t, n + 2) = <<>> /\ DecodedAt(t, n + 3) = <<>>
  <2>1. t[n + 1] = Percent /\ t[n + 2] = e[2] /\ t[n + 3] = e[3] /\ Escaped(e[2], e[3]) = b
    BY <1>1, <1>2, <1>8
  <2>2. EscapeAt(t, n + 1) = b
    <3>1. /\ n + 1 \in 1 .. Len(t) - 2 /\ (n + 1) + 1 = n + 2 /\ (n + 1) + 2 = n + 3
      BY <1>2, <1>8
    <3>2. QED BY <2>1, <3>1 DEF EscapeAt
  <2>3. EscapeAt(t, n + 2) = None /\ EscapeAt(t, n + 3) = None
    <3>1. ~(n + 2 \in 1 .. Len(t) - 2) /\ ~(n + 3 \in 1 .. Len(t) - 2) BY <1>2, <1>8
    <3>2. QED BY <3>1 DEF EscapeAt
  <2>4. n + 1 \in Int /\ (n + 2) - 1 = n + 1 /\ (n + 3) - 1 = n + 2 /\ (n + 3) - 2 = n + 1
        /\ (n + 2) - 2 = n
    BY <1>2
  <2>5. EscapeAt(t, (n + 1) - 1) = None /\ EscapeAt(t, (n + 1) - 2) = None
    BY <1>3, <2>2, <2>4, EscapesApart
  <2>6. DecodedAt(t, n + 1) = <<b>> BY <1>3, <2>2, <2>5, Zenon DEF DecodedAt
  <2>7. DecodedAt(t, n + 2) = <<>> BY <1>3, <2>2, <2>3, <2>4, Zenon DEF DecodedAt
  <2>8. DecodedAt(t, n + 3) = <<>> BY <1>3, <2>2, <2>3, <2>4, Zenon DEF DecodedAt
  <2>9. QED BY <2>6, <2>7, <2>8
<1> DEFINE Y == Octets \cup {EscapeAt(t, i) : i \in Int}
           p == [i \in 1 .. n |-> DecodedAt(a, i)]
           q == [j \in 1 .. m |-> DecodedAt(t, n + j)]
           r == [i \in 1 .. n + m |-> DecodedAt(t, i)]
<1>9. \A i \in 1 .. n + m : DecodedAt(t, i) \in Seq(Y)
  <2> SUFFICES ASSUME NEW i \in 1 .. n + m PROVE DecodedAt(t, i) \in Seq(Y) OBVIOUS
  <2>1. i \in Int /\ EscapeAt(t, i) \in Y OBVIOUS
  <2>2. t[i] \in Y /\ Space \in Y
    <3>1. t[i] \in Octets BY <1>2
    <3>2. Space \in Octets BY DEF Space, Octets
    <3>3. Octets \subseteq Y OBVIOUS
    <3> HIDE DEF Y
    <3>4. QED BY <3>1, <3>2, <3>3
  <2>3. \A y \in Y : <<y>> \in Seq(Y) OBVIOUS
  <2>4. <<>> \in Seq(Y) OBVIOUS
  <2> HIDE DEF Y
  <2>5. CASE EscapeAt(t, i) # None
    <3>1. EscapeAt(t, i - 1) = None /\ EscapeAt(t, i - 2) = None BY <2>1, <2>5, EscapesApart
    <3>2. DecodedAt(t, i) = <<EscapeAt(t, i)>> BY <2>5, <3>1, Zenon DEF DecodedAt
    <3>3. QED BY <2>1, <2>3, <3>2
  <2>6. CASE EscapeAt(t, i) = None /\ (EscapeAt(t, i - 1) # None \/ EscapeAt(t, i - 2) # None)
    <3>1. DecodedAt(t, i) = <<>> BY <2>6, Zenon DEF DecodedAt
    <3>2. QED BY <2>4, <3>1
  <2>7. CASE EscapeAt(t, i) = None /\ EscapeAt(t, i - 1) = None /\ EscapeAt(t, i - 2) = None
    <3>1. DecodedAt(t, i) = <<IF t[i] = Plus THEN Space ELSE t[i]>> BY <2>7, Zenon DEF DecodedAt
    <3>2. QED BY <2>2, <2>3, <3>1
  <2>8. QED BY <2>5, <2>6, <2>7
<1>10. p \in Seq(Seq(Y)) /\ q \in Seq(Seq(Y)) /\ r = p \o q
  <2> HIDE DEF Y
  <2>1. \A i \in 1 .. n : DecodedAt(a, i) \in Seq(Y)
    <3>1. \A i \in 1 .. n : i \in 1 .. n + m BY <1>2
    <3>2. QED BY <1>6, <1>9, <3>1
  <2>2. p \in Seq(Seq(Y)) /\ Len(p) = n BY <1>2, <2>1
  <2>3. \A j \in 1 .. m : DecodedAt(t, n + j) \in Seq(Y)
    <3>1. \A j \in 1 .. m : n + j \in 1 .. n + m BY <1>2
    <3>2. QED BY <1>9, <3>1
  <2>4. q \in Seq(Seq(Y)) /\ Len(q) = m BY <1>2, <2>3
  <2>5. r \in Seq(Seq(Y)) /\ Len(r) = n + m BY <1>2, <1>9
  <2>6. \A i \in 1 .. n : r[i] = p[i] BY <1>2, <1>6
  <2>7. \A i \in 1 .. n + m : ~(i <= n) => r[i] = q[i - n]
    <3>1. \A i \in 1 .. n + m : ~(i <= n) => i - n \in 1 .. m /\ n + (i - n) = i BY <1>2
    <3>2. QED BY <3>1
  <2> HIDE DEF p, q, r
  <2>8. /\ p \o q \in Seq(Seq(Y)) /\ Len(p \o q) = n + m
        /\ \A i \in 1 .. n + m : (p \o q)[i] = IF i <= n THEN p[i] ELSE q[i - n]
    BY <2>2, <2>4, ConcatProperties
  <2>9. \A i \in 1 .. n + m : r[i] = (p \o q)[i]
    <3>1. \A i \in 1 .. n + m : i <= n => i \in 1 .. n BY <1>2
    <3>2. QED BY <2>6, <2>7, <2>8, <3>1
  <2>10. QED BY <2>2, <2>4, <2>5, <2>8, <2>9, SeqEqual
<1>11. FlattenSeq(q) = <<b>>
  <2>1. <<b>> \in Seq(Octets) OBVIOUS
  <2>2. CASE m = 1
    <3>1. q = << <<b>> >> BY <1>7, <2>2
    <3>2. QED BY <2>1, <3>1, FlattenOne
  <2>3. CASE m = 3
    <3>1. q = << <<b>>, <<>>, <<>> >> BY <1>8, <2>3
    <3>2. QED BY <2>1, <3>1, FlattenOne
  <2>4. QED BY <1>1, <2>2, <2>3
<1>12. DecodeComponent(t) = FlattenSeq(r) /\ DecodeComponent(a) = FlattenSeq(p)
  <2>1. DOMAIN t = 1 .. n + m /\ DOMAIN a = 1 .. n BY <1>2 DEF n
  <2>2. QED BY <2>1, DecodeIs
<1>13. DecodeComponent(t) = DecodeComponent(a) \o <<b>>
  <2> HIDE DEF p, q, r, Y
  <2>1. FlattenSeq(p \o q) = FlattenSeq(p) \o FlattenSeq(q) BY <1>10, FlattenConcat
  <2>2. QED BY <1>10, <1>11, <1>12, <2>1
<1>14. DecodeComponent(a) \o <<b>> = Append(DecodeComponent(a), b)
  <2>1. DecodeComponent(a) \in Seq(Y)
    <3> HIDE DEF p, q, r, Y
    <3>1. QED BY <1>10, <1>12, FlattenTyped
  <2>2. b \in Y OBVIOUS
  <2> HIDE DEF Y
  <2>3. QED BY <2>1, <2>2
<1>15. WholeEscapes(t)
  <2> SUFFICES ASSUME NEW i \in 1 .. Len(t), t[i] = Percent PROVE i <= Len(t) - 2
    BY DEF WholeEscapes
  <2>1. CASE i <= n
    <3>1. a[i] = Percent /\ i \in 1 .. n BY <1>2, <2>1
    <3>2. i <= n - 2 BY <3>1 DEF WholeEscapes, n
    <3>3. QED BY <1>2, <3>2
  <2>2. CASE ~(i <= n)
    <3>1. i - n \in 1 .. m /\ n + (i - n) = i BY <1>2, <2>2
    <3>2. e[i - n] = Percent BY <1>2, <3>1
    <3>3. m = 3 /\ i - n = 1 BY <1>1, <3>1, <3>2
    <3>4. QED BY <1>2, <3>3
  <2>3. QED BY <2>1, <2>2
<1>16. QED BY <1>13, <1>14, <1>15 DEF t, e

\* One more byte is encoded after the others.
LEMMA EncodeMore ==
    ASSUME NEW s \in Seq(Octets), NEW b \in Octets
    PROVE  EncodeComponent(Append(s, b)) = EncodeComponent(s) \o EncodedByte(b)
<1> DEFINE pieces(t) == [i \in DOMAIN t |-> EncodedByte(t[i])]
           t == Append(s, b)
           p == pieces(s)
           q == pieces(t)
           e == EncodedByte(b)
           Y == {EncodedByte(c) : c \in Octets}
<1>1. e \in Seq(Octets) BY EncodedByteIs
<1>2. /\ t \in Seq(Octets) /\ Len(t) = Len(s) + 1 /\ Len(s) \in Nat /\ t[Len(s) + 1] = b
      /\ \A i \in 1 .. Len(s) : t[i] = s[i]
  OBVIOUS
<1>3. DOMAIN s = 1 .. Len(s) /\ DOMAIN t = 1 .. Len(t) BY <1>2
<1> HIDE DEF t
<1>4. p \in Seq(Seq(Octets)) /\ Len(p) = Len(s) /\ \A i \in 1 .. Len(s) : p[i] = EncodedByte(s[i])
  <2>1. \A i \in 1 .. Len(s) : EncodedByte(s[i]) \in Seq(Octets)
    <3>1. \A i \in 1 .. Len(s) : s[i] \in Octets OBVIOUS
    <3>2. QED BY <3>1, EncodedByteIs
  <2>2. p = [i \in 1 .. Len(s) |-> EncodedByte(s[i])] BY <1>3
  <2>3. QED BY <2>1, <2>2, <1>2
<1>5. q \in Seq(Seq(Octets)) /\ Len(q) = Len(t) /\ \A i \in 1 .. Len(t) : q[i] = EncodedByte(t[i])
  <2>1. \A i \in 1 .. Len(t) : EncodedByte(t[i]) \in Seq(Octets)
    <3>1. \A i \in 1 .. Len(t) : t[i] \in Octets BY <1>2
    <3>2. QED BY <3>1, EncodedByteIs
  <2>2. q = [i \in 1 .. Len(t) |-> EncodedByte(t[i])] BY <1>3
  <2>3. QED BY <2>1, <2>2, <1>2
<1>6. EncodeComponent(t) = FlattenSeq(q) /\ EncodeComponent(s) = FlattenSeq(p) BY EncodeIs
<1> HIDE DEF p, q, e
<1>7. q = Append(p, e)
  <2>1. /\ Append(p, e) \in Seq(Seq(Octets)) /\ Len(Append(p, e)) = Len(p) + 1
        /\ \A i \in 1 .. Len(p) : Append(p, e)[i] = p[i]
        /\ Append(p, e)[Len(p) + 1] = e
    BY <1>1, <1>4
  <2>2. \A i \in 1 .. Len(q) : q[i] = Append(p, e)[i]
    <3> SUFFICES ASSUME NEW i \in 1 .. Len(q) PROVE q[i] = Append(p, e)[i] OBVIOUS
    <3>1. CASE i \in 1 .. Len(s) BY <1>2, <1>4, <1>5, <2>1, <3>1
    <3>2. CASE i = Len(s) + 1 BY <1>2, <1>4, <1>5, <2>1, <3>2 DEF e
    <3>3. i \in 1 .. Len(s) \/ i = Len(s) + 1 BY <1>2, <1>5
    <3>4. QED BY <3>1, <3>2, <3>3
  <2>3. Len(q) = Len(Append(p, e)) BY <1>2, <1>4, <1>5, <2>1
  <2>4. QED BY <1>5, <2>1, <2>2, <2>3, SeqEqual
<1>8. FlattenSeq(q) = FlattenSeq(p) \o e BY <1>1, <1>4, <1>7, FlattenAppend
<1>9. QED BY <1>6, <1>8 DEF e, t

\* Characters with a meaning of their own where encoded texts are put together.
Marks == {Ampersand, Equals, Colon}

Unmarked(text) == \A i \in 1 .. Len(text) : text[i] \notin Marks

\* What is encoded is decoded to what it was, whatever its bytes, and holds no mark.
LEMMA EncodedIsDecoded ==
    ASSUME NEW s \in Seq(Octets)
    PROVE  /\ EncodeComponent(s) \in Seq(Octets)
           /\ DecodeComponent(EncodeComponent(s)) = s
           /\ Unmarked(EncodeComponent(s))
<1> DEFINE Good(t) == /\ EncodeComponent(t) \in Seq(Octets)
                      /\ DecodeComponent(EncodeComponent(t)) = t
                      /\ Unmarked(EncodeComponent(t))
                      /\ WholeEscapes(EncodeComponent(t))
           T == {t \in Seq(Octets) : Good(t)}
           none == <<>>
<1>1. none \in T
  <2>1. none \in Seq(Octets) /\ Len(none) = 0 BY EmptySeq
  <2>2. EncodeComponent(none) = none
    <3>1. [i \in DOMAIN none |-> EncodedByte(none[i])] = none OBVIOUS
    <3>2. QED BY <3>1, EncodeIs, FlattenNothing
  <2>3. DecodeComponent(none) = none
    <3>1. [i \in DOMAIN none |-> DecodedAt(none, i)] = none OBVIOUS
    <3>2. QED BY <3>1, DecodeIs, FlattenNothing
  <2>4. Unmarked(none) /\ WholeEscapes(none) BY <2>1 DEF Unmarked, WholeEscapes
  <2> HIDE DEF none
  <2>5. QED BY <2>1, <2>2, <2>3, <2>4
<1>2. ASSUME NEW t \in Seq(Octets), t \in T, NEW b \in Octets PROVE Append(t, b) \in T
  <2> DEFINE e == EncodedByte(b)
             a == EncodeComponent(t)
  <2>1. Append(t, b) \in Seq(Octets) OBVIOUS
  <2>2. a \in Seq(Octets) /\ DecodeComponent(a) = t /\ Unmarked(a) /\ WholeEscapes(a) BY <1>2
  <2>3. e \in Seq(Octets) /\ \A i \in 1 .. Len(e) : e[i] \notin Marks BY EncodedByteIs DEF Marks
  <2>4. EncodeComponent(Append(t, b)) = a \o e BY EncodeMore
  <2>5. DecodeComponent(a \o e) = Append(DecodeComponent(a), b) /\ WholeEscapes(a \o e)
    BY <2>2, DecodeMore
  <2>6. a \o e \in Seq(Octets) /\ Unmarked(a \o e)
    <3> HIDE DEF a, e
    <3>1. /\ a \o e \in Seq(Octets) /\ Len(a \o e) = Len(a) + Len(e)
          /\ \A i \in 1 .. Len(a) + Len(e) :
               (a \o e)[i] = IF i <= Len(a) THEN a[i] ELSE e[i - Len(a)]
      BY <2>2, <2>3, ConcatProperties
    <3>2. \A i \in 1 .. Len(a) + Len(e) :
             IF i <= Len(a) THEN i \in 1 .. Len(a) ELSE i - Len(a) \in 1 .. Len(e)
      BY <2>2, <2>3
    <3>3. QED BY <2>2, <2>3, <3>1, <3>2 DEF Unmarked
  <2> HIDE DEF a, e
  <2>7. QED BY <2>1, <2>2, <2>4, <2>5, <2>6
<1>3. Seq(Octets) \subseteq T
  <2> HIDE DEF T
  <2>1. QED BY <1>1, <1>2, Growing
<1>4. QED BY <1>3

\* A text is cut where the separator occurs first.
LEMMA CutOnce ==
    ASSUME NEW X, NEW separator \in X, NEW a \in Seq(X), NEW b \in Seq(X), Lacks(a, separator)
    PROVE  SplitOnce((a \o <<separator>>) \o b, separator) = <<a, b>>
<1> DEFINE t == (a \o <<separator>>) \o b
           n == Len(a)
           I == {i \in 1 .. Len(t) : t[i] = separator}
           at == SelectInSeq(t, LAMBDA c : c = separator)
<1>1. /\ t \in Seq(X) /\ Len(t) = n + 1 + Len(b) /\ n \in Nat /\ Len(b) \in Nat
      /\ \A i \in 1 .. n : t[i] = a[i]
      /\ t[n + 1] = separator
      /\ \A i \in 1 .. Len(b) : t[n + 1 + i] = b[i]
  OBVIOUS
<1>2. at = IF I # {} THEN Min(I) ELSE 0 BY DEF SelectInSeq
<1> HIDE DEF t, at
<1>3. n + 1 \in I BY <1>1
<1>4. \A i \in I : i \in Nat /\ n + 1 <= i
  <2> SUFFICES ASSUME NEW i \in I PROVE i \in Nat /\ n + 1 <= i OBVIOUS
  <2>1. i \in 1 .. Len(t) /\ t[i] = separator OBVIOUS
  <2>2. i \in Nat BY <1>1, <2>1
  <2>3. i \notin 1 .. n BY <1>1, <2>1 DEF Lacks
  <2>4. QED BY <1>1, <2>1, <2>2, <2>3
<1>5. at = n + 1
  <2> HIDE DEF I
  <2>1. Min(I) = CHOOSE x \in I : \A y \in I : x <= y BY DEF Min
  <2>2. PICK m : m = CHOOSE x \in I : \A y \in I : x <= y OBVIOUS
  <2>3. m \in I /\ \A y \in I : m <= y BY <1>3, <1>4, <2>2
  <2>4. m <= n + 1 /\ n + 1 <= m /\ m \in Nat BY <1>3, <1>4, <2>3
  <2>5. m = n + 1 BY <1>1, <2>4
  <2>6. QED BY <1>2, <1>3, <2>1, <2>2, <2>5
<1>6. SplitOnce(t, separator) = <<SubSeq(t, 1, at - 1), SubSeq(t, at + 1, Len(t))>>
  <2>1. at # 0 BY <1>1, <1>5
  <2>2. SplitOnce(t, separator)
            = IF at = 0 THEN <<t, <<>>>> ELSE <<SubSeq(t, 1, at - 1), SubSeq(t, at + 1, Len(t))>>
    BY DEF SplitOnce, at
  <2>3. QED BY <2>1, <2>2
<1>7. SubSeq(t, 1, at - 1) = a
  <2>1. at - 1 = n BY <1>1, <1>5
  <2>2. PICK s : s = SubSeq(t, 1, n) OBVIOUS
  <2>3. s \in Seq(X) /\ Len(s) = n /\ \A i \in 1 .. n : s[i] = t[i]
    <3>1. n <= Len(t) /\ n >= 0 BY <1>1
    <3>2. QED BY <1>1, <2>2, <3>1
  <2>4. s = a BY <1>1, <2>3, SeqEqual
  <2>5. QED BY <2>1, <2>2, <2>4
<1>8. SubSeq(t, at + 1, Len(t)) = b
  <2>1. at + 1 = n + 2 BY <1>1, <1>5
  <2>2. PICK s : s = SubSeq(t, n + 2, Len(t)) OBVIOUS
  <2>3. s \in Seq(X) /\ Len(s) = Len(b) /\ \A i \in 1 .. Len(b) : s[i] = t[n + 1 + i]
    <3>1. PICK k \in Nat : k = n + 2 /\ 1 <= k /\ k <= Len(t) + 1 BY <1>1
    <3>2. s = SubSeq(t, k, Len(t)) BY <2>2, <3>1
    <3>3. s \in Seq(X) BY <1>1, <3>1, <3>2
    <3>4. Len(s) = (Len(t) - k) + 1
      <4>1. Len(t) \in Nat BY <1>1
      <4>2. CASE k <= Len(t) BY <1>1, <3>1, <3>2, <4>1, <4>2
      <4>3. CASE k = Len(t) + 1 BY <1>1, <3>1, <3>2, <4>1, <4>3
      <4>4. QED BY <3>1, <4>1, <4>2, <4>3
    <3>5. \A i \in 1 .. Len(s) : s[i] = t[(k + i) - 1] BY <1>1, <3>1, <3>2, <3>4
    <3>6. Len(s) = Len(b) BY <1>1, <3>1, <3>4
    <3>7. \A i \in 1 .. Len(b) : (k + i) - 1 = n + 1 + i BY <1>1, <3>1
    <3>8. QED BY <3>3, <3>5, <3>6, <3>7
  <2>4. s = b BY <1>1, <2>3, SeqEqual
  <2>5. QED BY <2>1, <2>2, <2>4
<1>9. QED BY <1>6, <1>7, <1>8 DEF t

------------------------------------------------------------------------------
(* Forms: what is encoded is read as the pairs it was *)

\* Names with their values.
Pairs == Seq(Octets) \X Seq(Octets)

\* What stands for one name and its value in a form.
PairText(p) == (EncodeComponent(p[1]) \o <<Equals>>) \o EncodeComponent(p[2])

\* It is no empty text, has no ampersand and is read as the pair.
LEMMA PairTextIs ==
    ASSUME NEW p \in Pairs
    PROVE  /\ PairText(p) \in Seq(Octets) /\ PairText(p) # <<>> /\ Lacks(PairText(p), Ampersand)
           /\ LET halves == SplitOnce(PairText(p), Equals)
              IN  <<DecodeComponent(halves[1]), DecodeComponent(halves[2])>> = p
<1>1. p[1] \in Seq(Octets) /\ p[2] \in Seq(Octets) /\ p = <<p[1], p[2]>> BY DEF Pairs
<1>2. PICK a, b : a = EncodeComponent(p[1]) /\ b = EncodeComponent(p[2]) OBVIOUS
<1>3. /\ a \in Seq(Octets) /\ DecodeComponent(a) = p[1] /\ Unmarked(a)
      /\ b \in Seq(Octets) /\ DecodeComponent(b) = p[2] /\ Unmarked(b)
  BY <1>1, <1>2, EncodedIsDecoded
<1>4. PICK e : e = Equals OBVIOUS
<1>5. e \in Octets /\ Ampersand \in Octets /\ e # Ampersand /\ e \in Marks /\ Ampersand \in Marks
  BY <1>4 DEF Equals, Ampersand, Octets, Marks
<1>6. Lacks(a, e) BY <1>3, <1>5 DEF Lacks, Unmarked
<1>7. PICK t : t = (a \o <<e>>) \o b OBVIOUS
<1>8. /\ t \in Seq(Octets) /\ Len(t) = Len(a) + 1 + Len(b) /\ Len(a) \in Nat /\ Len(b) \in Nat
      /\ \A i \in 1 .. Len(a) : t[i] = a[i]
      /\ t[Len(a) + 1] = e
      /\ \A i \in 1 .. Len(b) : t[Len(a) + 1 + i] = b[i]
  BY <1>3, <1>5, <1>7
<1>9. t # <<>> BY <1>8
<1>10. Lacks(t, Ampersand)
  <2> SUFFICES ASSUME NEW i \in 1 .. Len(t) PROVE t[i] # Ampersand BY DEF Lacks
  <2>1. CASE i \in 1 .. Len(a) BY <1>3, <1>5, <1>8, <2>1 DEF Unmarked
  <2>2. CASE i = Len(a) + 1 BY <1>5, <1>8, <2>2
  <2>3. CASE i > Len(a) + 1
    <3>1. i - (Len(a) + 1) \in 1 .. Len(b) /\ Len(a) + 1 + (i - (Len(a) + 1)) = i BY <1>8, <2>3
    <3>2. t[i] = b[i - (Len(a) + 1)] BY <1>8, <3>1
    <3>3. QED BY <1>3, <1>5, <3>1, <3>2 DEF Unmarked
  <2>4. QED BY <1>8, <2>1, <2>2, <2>3
<1>11. SplitOnce(t, e) = <<a, b>> BY <1>3, <1>5, <1>6, <1>7, CutOnce
<1>12. PairText(p) = t BY <1>2, <1>4, <1>7 DEF PairText
<1>13. SplitOnce(PairText(p), Equals) = <<a, b>> BY <1>4, <1>11, <1>12
<1>14. <<a, b>>[1] = a /\ <<a, b>>[2] = b OBVIOUS
<1>15. QED BY <1>1, <1>3, <1>8, <1>9, <1>10, <1>12, <1>13, <1>14

\* The piece of a form that one pair is, and the form piece by piece.
FormPiece(pairs, i) ==
    ((IF i = 1 THEN <<>> ELSE <<Ampersand>>) \o EncodeComponent(pairs[i][1]) \o <<Equals>>)
        \o EncodeComponent(pairs[i][2])

\* A form is its pieces.
LEMMA FormIs ==
    ASSUME NEW pairs
    PROVE  FormEncode(pairs) = FlattenSeq([i \in DOMAIN pairs |-> FormPiece(pairs, i)])
BY DEF FormEncode, FormPiece

\* After the first, a piece is an ampersand and a pair.
LEMMA FormPieceIs ==
    ASSUME NEW pairs \in Seq(Pairs), NEW i \in 1 .. Len(pairs)
    PROVE  /\ FormPiece(pairs, i) \in Seq(Octets)
           /\ FormPiece(pairs, i) = IF i = 1 THEN PairText(pairs[i])
                                    ELSE <<Ampersand>> \o PairText(pairs[i])
<1>1. PICK p \in Pairs : p = pairs[i] OBVIOUS
<1>2. p[1] \in Seq(Octets) /\ p[2] \in Seq(Octets) BY DEF Pairs
<1>3. PICK a \in Seq(Octets), b \in Seq(Octets), e \in Octets, m \in Octets :
        a = EncodeComponent(p[1]) /\ b = EncodeComponent(p[2]) /\ e = Equals /\ m = Ampersand
  BY <1>2, EncodedIsDecoded DEF Octets, Equals, Ampersand
<1>4. PairText(p) = (a \o <<e>>) \o b BY <1>3 DEF PairText
<1>5. CASE i = 1
  <2>1. FormPiece(pairs, i) = ((<<>> \o a) \o <<e>>) \o b BY <1>1, <1>3, <1>5 DEF FormPiece
  <2>2. <<>> \o a = a BY ConcatEmptySeq
  <2>3. (a \o <<e>>) \o b \in Seq(Octets) OBVIOUS
  <2>4. QED BY <1>1, <1>4, <1>5, <2>1, <2>2, <2>3
<1>6. CASE i # 1
  <2>1. FormPiece(pairs, i) = ((<<m>> \o a) \o <<e>>) \o b BY <1>1, <1>3, <1>6 DEF FormPiece
  <2>2. <<m>> \in Seq(Octets) /\ <<e>> \in Seq(Octets) OBVIOUS
  <2>3. (<<m>> \o a) \o <<e>> = <<m>> \o (a \o <<e>>) BY <2>2, ConcatAssociative
  <2>4. a \o <<e>> \in Seq(Octets) BY <2>2
  <2>5. (<<m>> \o (a \o <<e>>)) \o b = <<m>> \o ((a \o <<e>>) \o b) BY <2>2, <2>4, ConcatAssociative
  <2>6. <<m>> \o ((a \o <<e>>) \o b) \in Seq(Octets) BY <2>2, <2>4
  <2>7. QED BY <1>1, <1>3, <1>4, <1>6, <2>1, <2>3, <2>5, <2>6
<1>7. QED BY <1>5, <1>6

\* One more pair is one more piece.
LEMMA FormMore ==
    ASSUME NEW pairs \in Seq(Pairs), NEW p \in Pairs
    PROVE  FormEncode(Append(pairs, p))
               = IF pairs = <<>> THEN PairText(p)
                 ELSE FormEncode(pairs) \o (<<Ampersand>> \o PairText(p))
<1> DEFINE n == Len(pairs)
           more == Append(pairs, p)
           f == [i \in DOMAIN pairs |-> FormPiece(pairs, i)]
           g == [i \in DOMAIN more |-> FormPiece(more, i)]
           e == FormPiece(more, n + 1)
<1>1. /\ more \in Seq(Pairs) /\ Len(more) = n + 1 /\ n \in Nat /\ more[n + 1] = p
      /\ \A i \in 1 .. n : more[i] = pairs[i]
  OBVIOUS
<1>2. DOMAIN pairs = 1 .. n /\ DOMAIN more = 1 .. n + 1 BY <1>1
<1>3. n + 1 \in 1 .. n + 1 BY <1>1
<1> HIDE DEF more
<1>4. /\ e \in Seq(Octets)
      /\ e = IF pairs = <<>> THEN PairText(p) ELSE <<Ampersand>> \o PairText(p)
  <2>1. n + 1 \in 1 .. Len(more) BY <1>1, <1>3
  <2>2. /\ e \in Seq(Octets)
        /\ e = IF n + 1 = 1 THEN PairText(p) ELSE <<Ampersand>> \o PairText(p)
    BY <1>1, <2>1, FormPieceIs
  <2>3. n + 1 = 1 <=> pairs = <<>>
    <3> HIDE DEF e
    <3>1. n = 0 <=> pairs = <<>> OBVIOUS
    <3>2. QED BY <1>1, <3>1
  <2>4. QED BY <2>2, <2>3
<1>5. f \in Seq(Seq(Octets)) /\ Len(f) = n /\ \A i \in 1 .. n : f[i] = FormPiece(pairs, i)
  <2>1. \A i \in 1 .. n : FormPiece(pairs, i) \in Seq(Octets) BY FormPieceIs
  <2>2. f = [i \in 1 .. n |-> FormPiece(pairs, i)] BY <1>2
  <2>3. QED BY <1>1, <2>1, <2>2
<1>6. /\ g \in Seq(Seq(Octets)) /\ Len(g) = n + 1
      /\ \A i \in 1 .. n + 1 : g[i] = FormPiece(more, i)
  <2>1. \A i \in 1 .. n + 1 : FormPiece(more, i) \in Seq(Octets) BY <1>1, FormPieceIs
  <2>2. g = [i \in 1 .. n + 1 |-> FormPiece(more, i)] BY <1>2
  <2>3. n + 1 \in Nat BY <1>1
  <2>4. QED BY <2>1, <2>2, <2>3
<1>7. \A i \in 1 .. n : FormPiece(more, i) = FormPiece(pairs, i) BY <1>1 DEF FormPiece
<1>8. FormEncode(more) = FlattenSeq(g) /\ FormEncode(pairs) = FlattenSeq(f) BY FormIs
<1> HIDE DEF f, g, e
<1>9. g = Append(f, e)
  <2>1. /\ Append(f, e) \in Seq(Seq(Octets)) /\ Len(Append(f, e)) = n + 1
        /\ Append(f, e)[n + 1] = e
        /\ \A i \in 1 .. n : Append(f, e)[i] = f[i]
    BY <1>4, <1>5
  <2>2. \A i \in 1 .. n + 1 : g[i] = Append(f, e)[i]
    <3> SUFFICES ASSUME NEW i \in 1 .. n + 1 PROVE g[i] = Append(f, e)[i] OBVIOUS
    <3>1. CASE i \in 1 .. n BY <1>5, <1>6, <1>7, <2>1, <3>1
    <3>2. CASE i = n + 1 BY <1>6, <2>1, <3>2 DEF e
    <3>3. i \in 1 .. n \/ i = n + 1 BY <1>1
    <3>4. QED BY <3>1, <3>2, <3>3
  <2>3. QED BY <1>6, <2>1, <2>2, SeqEqual
<1>10. FlattenSeq(g) = FlattenSeq(f) \o e BY <1>4, <1>5, <1>9, FlattenAppend
<1>11. CASE pairs = <<>>
  <2>1. f = <<>> BY <1>11 DEF f
  <2>2. FlattenSeq(f) = <<>> BY <2>1, FlattenNothing
  <2>3. <<>> \o e = e BY <1>4, ConcatEmptySeq
  <2>4. QED BY <1>4, <1>8, <1>10, <1>11, <2>2, <2>3 DEF more
<1>12. CASE pairs # <<>> BY <1>4, <1>8, <1>10, <1>12 DEF more
<1>13. QED BY <1>11, <1>12

\* A form is cut at its ampersands into its pairs.
LEMMA FormSplits ==
    ASSUME NEW pairs \in Seq(Pairs), pairs # <<>>
    PROVE  /\ FormEncode(pairs) \in Seq(Octets)
           /\ Split(FormEncode(pairs), Ampersand) = [i \in 1 .. Len(pairs) |-> PairText(pairs[i])]
<1> DEFINE Texts(ps) == [i \in 1 .. Len(ps) |-> PairText(ps[i])]
           Good(ps) == /\ FormEncode(ps) \in Seq(Octets)
                       /\ Split(FormEncode(ps), Ampersand) = Texts(ps)
           T == {ps \in Seq(Pairs) : ps # <<>> => Good(ps)}
<1>0. Ampersand \in Octets BY DEF Ampersand, Octets
<1>1. <<>> \in T OBVIOUS
<1>2. ASSUME NEW ps \in Seq(Pairs), ps \in T, NEW p \in Pairs PROVE Append(ps, p) \in T
  <2> DEFINE n == Len(ps)
             more == Append(ps, p)
             t == PairText(p)
             a == FormEncode(ps)
  <2>1. /\ more \in Seq(Pairs) /\ Len(more) = n + 1 /\ n \in Nat /\ more[n + 1] = p
        /\ \A i \in 1 .. n : more[i] = ps[i]
    OBVIOUS
  <2>2. t \in Seq(Octets) /\ Lacks(t, Ampersand) BY PairTextIs
  <2>3. FormEncode(more) = IF ps = <<>> THEN t ELSE a \o (<<Ampersand>> \o t) BY FormMore
  <2>4. \A i \in 1 .. n : PairText(ps[i]) \in Seq(Octets)
    <3>1. \A i \in 1 .. n : ps[i] \in Pairs OBVIOUS
    <3>2. QED BY <3>1, PairTextIs
  <2>5. \A i \in 1 .. n + 1 : PairText(more[i]) \in Seq(Octets)
    <3> HIDE DEF more
    <3>1. \A i \in 1 .. n + 1 : more[i] \in Pairs BY <2>1
    <3>2. QED BY <3>1, PairTextIs
  <2>6. /\ Texts(ps) \in Seq(Seq(Octets)) /\ Len(Texts(ps)) = n
        /\ \A i \in 1 .. n : Texts(ps)[i] = PairText(ps[i])
    BY <2>1, <2>4
  <2>7. /\ Texts(more) \in Seq(Seq(Octets)) /\ Len(Texts(more)) = n + 1
        /\ \A i \in 1 .. n + 1 : Texts(more)[i] = PairText(more[i])
    <3> HIDE DEF more
    <3>1. n + 1 \in Nat BY <2>1
    <3>2. Texts(more) = [i \in 1 .. n + 1 |-> PairText(more[i])] BY <2>1
    <3>3. QED BY <2>5, <3>1, <3>2
  <2> HIDE DEF t, a, more, Texts
  <2>8. Texts(more) = Append(Texts(ps), t)
    <3>1. PICK F \in Seq(Seq(Octets)) : F = Texts(ps) BY <2>6
    <3>2. /\ Append(F, t) \in Seq(Seq(Octets)) /\ Len(Append(F, t)) = n + 1
          /\ Append(F, t)[n + 1] = t
          /\ \A i \in 1 .. n : Append(F, t)[i] = F[i]
      BY <2>2, <2>6, <3>1
    <3>3. \A i \in 1 .. n + 1 : Texts(more)[i] = Append(F, t)[i]
      <4> SUFFICES ASSUME NEW i \in 1 .. n + 1 PROVE Texts(more)[i] = Append(F, t)[i] OBVIOUS
      <4>1. CASE i \in 1 .. n BY <2>1, <2>6, <2>7, <3>1, <3>2, <4>1
      <4>2. CASE i = n + 1 BY <2>1, <2>7, <3>2, <4>2 DEF t
      <4>3. i \in 1 .. n \/ i = n + 1 BY <2>1
      <4>4. QED BY <4>1, <4>2, <4>3
    <3>4. Texts(more) = Append(F, t) BY <2>7, <3>2, <3>3, SeqEqual
    <3>5. QED BY <3>1, <3>4
  <2>9. Good(more)
    <3>1. CASE ps = <<>>
      <4>1. FormEncode(more) = t BY <2>3, <3>1
      <4>2. Split(t, Ampersand) = <<t>> BY <1>0, <2>2, SplitParts
      <4>3. Append(Texts(ps), t) = <<t>>
        <5>1. Texts(ps) = <<>> BY <2>6, <3>1
        <5>2. Append(<<>>, t) = <<t>> BY <2>2
        <5>3. QED BY <5>1, <5>2
      <4>4. QED BY <2>2, <2>8, <4>1, <4>2, <4>3
    <3>2. CASE ps # <<>>
      <4>1. a \in Seq(Octets) /\ Split(a, Ampersand) = Texts(ps) BY <1>2, <3>2 DEF a
      <4>2. Split(a \o (<<Ampersand>> \o t), Ampersand) = Append(Split(a, Ampersand), t)
        BY <1>0, <2>2, <4>1, SplitParts
      <4>3. a \o (<<Ampersand>> \o t) \in Seq(Octets) BY <1>0, <2>2, <4>1
      <4>4. QED BY <2>3, <2>8, <3>2, <4>1, <4>2, <4>3
    <3>3. QED BY <3>1, <3>2
  <2>10. QED BY <2>1, <2>9 DEF more
<1>3. Seq(Pairs) \subseteq T
  <2> HIDE DEF T
  <2>1. QED BY <1>1, <1>2, Growing
<1>4. QED BY <1>3

\* What is encoded as a form is read as the pairs it was.
LEMMA FormsAreReadBack ==
    ASSUME NEW pairs \in Seq(Pairs), pairs # <<>>
    PROVE  FormDecode(FormEncode(pairs)) = pairs
<1> DEFINE n == Len(pairs)
           texts == [i \in 1 .. n |-> PairText(pairs[i])]
           read(s) == <<DecodeComponent(SplitOnce(s, Equals)[1]),
                        DecodeComponent(SplitOnce(s, Equals)[2])>>
<1>1. n \in Nat /\ \A i \in 1 .. n : pairs[i] \in Pairs OBVIOUS
<1>2. \A i \in 1 .. n : /\ PairText(pairs[i]) \in Seq(Octets) /\ PairText(pairs[i]) # <<>>
                        /\ read(PairText(pairs[i])) = pairs[i]
  BY <1>1, PairTextIs, Zenon
<1>3. /\ texts \in Seq(Seq(Octets)) /\ Len(texts) = n
      /\ \A i \in 1 .. n : texts[i] = PairText(pairs[i])
  BY <1>1, <1>2
<1>4. Split(FormEncode(pairs), Ampersand) = texts BY FormSplits
<1> HIDE DEF texts
<1>5. NonEmpty(texts) = texts
  <2>1. \A j \in 1 .. Len(texts) : texts[j] # <<>> BY <1>2, <1>3
  <2>2. QED BY <1>3, <2>1, NoneEmpty
<1>6. FormDecode(FormEncode(pairs)) = [i \in DOMAIN texts |-> read(texts[i])]
  BY <1>4, <1>5 DEF FormDecode
<1>7. DOMAIN texts = 1 .. n /\ \A i \in 1 .. n : read(texts[i]) = pairs[i]
  <2> HIDE DEF read
  <2>1. QED BY <1>2, <1>3
<1>8. pairs = [i \in 1 .. n |-> pairs[i]] OBVIOUS
<1> HIDE DEF read
<1>9. [i \in DOMAIN texts |-> read(texts[i])] = [i \in 1 .. n |-> pairs[i]] BY <1>7
<1>10. QED BY <1>6, <1>8, <1>9

------------------------------------------------------------------------------
(* Credentials: what is encoded in base64 is read as the bytes it was *)

\* What stands for the bytes 3 * (chunk - 1) + 1 .. 3 * chunk, and what is read of four characters.
HasByte(bytes, chunk, k) == 3 * (chunk - 1) + k <= Len(bytes)

ByteAt(bytes, chunk, k) == IF HasByte(bytes, chunk, k) THEN bytes[3 * (chunk - 1) + k] ELSE 0

TripleAt(bytes, chunk) ==
    65536 * ByteAt(bytes, chunk, 1) + 256 * ByteAt(bytes, chunk, 2) + ByteAt(bytes, chunk, 3)

FourOf(bytes, chunk) ==
    <<TripleAt(bytes, chunk) \div 262144, (TripleAt(bytes, chunk) \div 4096) % 64,
      IF HasByte(bytes, chunk, 2) THEN (TripleAt(bytes, chunk) \div 64) % 64 ELSE Pad,
      IF HasByte(bytes, chunk, 3) THEN TripleAt(bytes, chunk) % 64 ELSE Pad>>

PadsAt(text, chunk) == Cardinality({k \in 1 .. 4 : text[4 * (chunk - 1) + k] = Pad})

ReadTriple(text, chunk) ==
    262144 * (text[4 * (chunk - 1) + 1] % 64) + 4096 * (text[4 * (chunk - 1) + 2] % 64)
        + 64 * (text[4 * (chunk - 1) + 3] % 64) + (text[4 * (chunk - 1) + 4] % 64)

ThreeOf(text, chunk) ==
    SubSeq(<<ReadTriple(text, chunk) \div 65536, (ReadTriple(text, chunk) \div 256) % 256,
             ReadTriple(text, chunk) % 256>>, 1, 3 - PadsAt(text, chunk))

\* The encoding, four characters at a time.
LEMMA Base64Is ==
    ASSUME NEW bytes
    PROVE  Base64Encode(bytes)
               = FlattenSeq([chunk \in 1 .. (Len(bytes) + 2) \div 3 |-> FourOf(bytes, chunk)])
BY SMT DEF Base64Encode, FourOf, TripleAt, ByteAt, HasByte

\* The decoding, four characters at a time.
LEMMA Base64Reads ==
    ASSUME NEW text
    PROVE  Base64Decode(text)
               = FlattenSeq([chunk \in 1 .. Len(text) \div 4 |-> ThreeOf(text, chunk)])
BY SMT DEF Base64Decode, ThreeOf, ReadTriple, PadsAt

\* Three bytes are four sextets.
IsTriple(T) == T \in Int /\ 0 <= T /\ T < 16777216

HasSextets(T) ==
    /\ T \div 262144 \in 0 .. 63 /\ (T \div 4096) % 64 \in 0 .. 63
    /\ (T \div 64) % 64 \in 0 .. 63 /\ T % 64 \in 0 .. 63
    /\ 262144 * (T \div 262144) + 4096 * ((T \div 4096) % 64)
           + 64 * ((T \div 64) % 64) + (T % 64) = T

\* Any such number is.
LEMMA Sextets == ASSUME NEW T, IsTriple(T) PROVE HasSextets(T)
<1>0. T \in Int /\ 0 <= T /\ T < 16777216 BY SMT DEF IsTriple
<1>1. PICK q \in Int, r \in Int : q = T \div 64 /\ r = T % 64 BY <1>0, SMT
<1>2. T = 64 * q + r /\ r \in 0 .. 63 /\ 0 <= q /\ q < 262144 BY <1>0, <1>1, SMT
<1>3. PICK p \in Int, s \in Int : p = q \div 64 /\ s = q % 64 BY SMT
<1>4. q = 64 * p + s /\ s \in 0 .. 63 /\ 0 <= p /\ p < 4096 BY <1>2, <1>3, SMT
<1>5. PICK o \in Int, t \in Int : o = p \div 64 /\ t = p % 64 BY SMT
<1>6. p = 64 * o + t /\ t \in 0 .. 63 /\ o \in 0 .. 63 BY <1>4, <1>5, SMT
<1>7. T \div 4096 = p BY <1>0, <1>2, <1>4, SMT
<1>8. T \div 262144 = o BY <1>0, <1>2, <1>4, <1>6, SMT
<1>9. T = 262144 * o + 4096 * t + 64 * s + r BY <1>2, <1>4, <1>6, SMT
<1>10. QED BY <1>1, <1>2, <1>3, <1>4, <1>5, <1>6, <1>7, <1>8, <1>9, SMT DEF HasSextets

\* A triple of bytes, what is missing being zero.
Triple(a, b, c) == 65536 * a + 256 * b + c

IsTripleOf(T, a, b, c) ==
    /\ IsTriple(T)
    /\ T \div 65536 = a /\ (T \div 256) % 256 = b /\ T % 256 = c
    /\ c = 0 => T % 64 = 0
    /\ c = 0 /\ b = 0 => (T \div 64) % 64 = 0

\* And the number is read as the bytes it was made of.
LEMMA Triples ==
    ASSUME NEW a \in Octets, NEW b \in Octets, NEW c \in Octets
    PROVE  IsTripleOf(Triple(a, b, c), a, b, c)
<1>0. PICK T : T = 65536 * a + 256 * b + c BY SMT
<1>1. a \in 0 .. 255 /\ b \in 0 .. 255 /\ c \in 0 .. 255 BY SMT DEF Octets
<1>2. T \in Int /\ 0 <= T /\ T < 16777216 BY <1>0, <1>1, SMT
<1>3. T \div 65536 = a BY <1>0, <1>1, SMT
<1>4. T \div 256 = 256 * a + b BY <1>0, <1>1, SMT
<1>5. (T \div 256) % 256 = b
  <2>1. (256 * a + b) % 256 = b BY <1>1, SMT
  <2>2. QED BY <1>4, <2>1, SMT
<1>6. T % 256 = c BY <1>0, <1>1, SMT
<1>7. c = 0 => T % 64 = 0
  <2> SUFFICES ASSUME c = 0 PROVE T % 64 = 0 BY SMT
  <2>1. T = 64 * (1024 * a + 4 * b) BY <1>0, <1>1, SMT
  <2>2. QED BY <1>1, <2>1, SMT
<1>8. c = 0 /\ b = 0 => (T \div 64) % 64 = 0
  <2> SUFFICES ASSUME c = 0, b = 0 PROVE (T \div 64) % 64 = 0 BY SMT
  <2>1. T = 64 * (1024 * a) BY <1>0, <1>1, SMT
  <2>2. T \div 64 = 1024 * a BY <1>1, <2>1, SMT
  <2>3. 1024 * a = 64 * (16 * a) BY <1>1, SMT
  <2>4. (64 * (16 * a)) % 64 = 0 BY <1>1, SMT
  <2>5. QED BY <2>2, <2>3, <2>4, SMT
<1>9. T = Triple(a, b, c) BY <1>0, SMT DEF Triple
<1>10. QED BY <1>2, <1>3, <1>5, <1>6, <1>7, <1>8, <1>9, SMT DEF IsTripleOf, IsTriple

\* Padding fills up from the end.
LEMMA PadsCounted ==
    /\ Cardinality({}) = 0
    /\ Cardinality({4}) = 1
    /\ Cardinality({3, 4}) = 2
<1>1. IsFiniteSet({}) /\ Cardinality({}) = 0 BY FS_EmptySet
<1>2. IsFiniteSet({} \cup {4}) /\ Cardinality({} \cup {4}) = 1 BY <1>1, FS_AddElement
<1>3. {} \cup {4} = {4} /\ {4} \cup {3} = {3, 4} /\ 3 \notin {4} OBVIOUS
<1>4. IsFiniteSet({4}) /\ Cardinality({4}) = 1 BY <1>2, <1>3
<1>5. Cardinality({4} \cup {3}) = 2 BY <1>3, <1>4, FS_AddElement
<1>6. QED BY <1>1, <1>3, <1>4, <1>5

\* The bytes of a piece are bytes; zero stands for one that is missing.
LEMMA BytesAre ==
    ASSUME NEW bytes \in Seq(Octets), NEW i \in 1 .. (Len(bytes) + 2) \div 3, NEW k \in 1 .. 3
    PROVE  /\ ByteAt(bytes, i, k) \in Octets
           /\ HasByte(bytes, i, k) => /\ 3 * (i - 1) + k \in 1 .. Len(bytes)
                                      /\ ByteAt(bytes, i, k) = bytes[3 * (i - 1) + k]
           /\ ~HasByte(bytes, i, k) => ByteAt(bytes, i, k) = 0
<1>1. Len(bytes) \in Nat /\ i \in Nat /\ i >= 1 OBVIOUS
<1>2. CASE HasByte(bytes, i, k)
  <2>1. 3 * (i - 1) + k \in 1 .. Len(bytes) BY <1>1, <1>2 DEF HasByte
  <2>2. ByteAt(bytes, i, k) = bytes[3 * (i - 1) + k] BY <1>2 DEF ByteAt
  <2>3. bytes[3 * (i - 1) + k] \in Octets BY <2>1
  <2>4. QED BY <1>2, <2>1, <2>2, <2>3
<1>3. CASE ~HasByte(bytes, i, k) BY <1>3 DEF ByteAt, Octets
<1>4. QED BY <1>2, <1>3

\* What is left of a text from a place on, up to three bytes.
PieceOf(bytes, i) ==
    SubSeq(bytes, 3 * (i - 1) + 1, IF 3 * i <= Len(bytes) THEN 3 * i ELSE Len(bytes))

Padded(four, bytes, i) ==
    \A j \in 1 .. 4 : four[j] = Pad <=> \/ j = 3 /\ ~HasByte(bytes, i, 2)
                                        \/ j = 4 /\ ~HasByte(bytes, i, 3)

\* Four characters, with their padding, stand for a piece.
LEMMA FoursAre ==
    ASSUME NEW bytes \in Seq(Octets), NEW i \in 1 .. (Len(bytes) + 2) \div 3
    PROVE  /\ FourOf(bytes, i) \in Seq(0 .. 64) /\ Len(FourOf(bytes, i)) = 4
           /\ Padded(FourOf(bytes, i), bytes, i)
           /\ 262144 * (FourOf(bytes, i)[1] % 64) + 4096 * (FourOf(bytes, i)[2] % 64)
                  + 64 * (FourOf(bytes, i)[3] % 64) + (FourOf(bytes, i)[4] % 64)
                = TripleAt(bytes, i)
           /\ TripleAt(bytes, i) \div 65536 = ByteAt(bytes, i, 1)
           /\ (TripleAt(bytes, i) \div 256) % 256 = ByteAt(bytes, i, 2)
           /\ TripleAt(bytes, i) % 256 = ByteAt(bytes, i, 3)
           /\ HasByte(bytes, i, 1)
<1>1. PICK a \in Octets, b \in Octets, c \in Octets :
        a = ByteAt(bytes, i, 1) /\ b = ByteAt(bytes, i, 2) /\ c = ByteAt(bytes, i, 3)
  <2>1. 1 \in 1 .. 3 /\ 2 \in 1 .. 3 /\ 3 \in 1 .. 3 OBVIOUS
  <2>2. QED BY <2>1, BytesAre
<1>2. PICK T : T = TripleAt(bytes, i) OBVIOUS
<1>3. T = Triple(a, b, c) BY <1>1, <1>2, SMT DEF TripleAt, Triple
<1>4. /\ IsTriple(T)
      /\ T \div 65536 = a /\ (T \div 256) % 256 = b /\ T % 256 = c
      /\ c = 0 => T % 64 = 0
      /\ c = 0 /\ b = 0 => (T \div 64) % 64 = 0
  <2>1. IsTripleOf(Triple(a, b, c), a, b, c) BY Triples
  <2>2. QED BY <1>3, <2>1, SMT DEF IsTripleOf
<1>5. PICK o, p, q, r : o = T \div 262144 /\ p = (T \div 4096) % 64 /\ q = (T \div 64) % 64 /\ r = T % 64
  BY SMT
<1>6. /\ o \in 0 .. 63 /\ p \in 0 .. 63 /\ q \in 0 .. 63 /\ r \in 0 .. 63
      /\ 262144 * o + 4096 * p + 64 * q + r = T
  <2>1. /\ T \div 262144 \in 0 .. 63 /\ (T \div 4096) % 64 \in 0 .. 63
        /\ (T \div 64) % 64 \in 0 .. 63 /\ T % 64 \in 0 .. 63
        /\ 262144 * (T \div 262144) + 4096 * ((T \div 4096) % 64)
               + 64 * ((T \div 64) % 64) + (T % 64) = T
    <3>1. HasSextets(T) BY <1>4, Sextets
    <3>2. QED BY <3>1, SMT DEF HasSextets
  <2>2. QED BY <1>5, <2>1, SMT
<1>7. PICK s, t : /\ s = IF HasByte(bytes, i, 2) THEN q ELSE Pad
                  /\ t = IF HasByte(bytes, i, 3) THEN r ELSE Pad
  BY SMT
<1>8. FourOf(bytes, i) = <<o, p, s, t>> BY <1>2, <1>5, <1>7, SMT DEF FourOf
<1>9. /\ HasByte(bytes, i, 1)
      /\ HasByte(bytes, i, 3) => HasByte(bytes, i, 2)
      /\ ~HasByte(bytes, i, 2) => b = 0
      /\ ~HasByte(bytes, i, 3) => c = 0
  <2>1. Len(bytes) \in Nat /\ i \in Nat BY SMT
  <2>2. 3 * (i - 1) + 1 <= Len(bytes)
    <3>1. PICK n \in Nat : n = Len(bytes) BY <2>1, SMT
    <3>2. i <= (n + 2) \div 3 BY <3>1, SMT
    <3>3. 3 * ((n + 2) \div 3) <= n + 2 BY <3>1, SMT
    <3>4. QED BY <2>1, <3>1, <3>2, <3>3, SMT
  <2>3. HasByte(bytes, i, 1) BY <2>2, SMT DEF HasByte
  <2>4. HasByte(bytes, i, 3) => HasByte(bytes, i, 2) BY <2>1, SMT DEF HasByte
  <2>5. QED BY <1>1, <2>3, <2>4, SMT DEF ByteAt
<1>10. /\ s % 64 = q /\ t % 64 = r
  <2>1. CASE HasByte(bytes, i, 2) /\ HasByte(bytes, i, 3)
    <3>1. s = q /\ t = r BY <1>7, <2>1, SMT
    <3>2. QED BY <1>6, <3>1, SMT
  <2>2. CASE HasByte(bytes, i, 2) /\ ~HasByte(bytes, i, 3)
    <3>1. s = q /\ t = 64 /\ r = 0 BY <1>4, <1>5, <1>7, <1>9, <2>2, SMT DEF Pad
    <3>2. QED BY <1>6, <3>1, SMT
  <2>3. CASE ~HasByte(bytes, i, 2)
    <3>1. s = 64 /\ t = 64 /\ q = 0 /\ r = 0 BY <1>4, <1>5, <1>7, <1>9, <2>3, SMT DEF Pad
    <3>2. QED BY <3>1, SMT
  <2>4. QED BY <2>1, <2>2, <2>3
<1>11. o % 64 = o /\ p % 64 = p BY <1>6, SMT
<1>12. PICK f : f = <<o, p, s, t>> OBVIOUS
<1>13. f[1] = o /\ f[2] = p /\ f[3] = s /\ f[4] = t /\ Len(f) = 4 BY <1>12, SMT
<1>14. /\ o # Pad /\ p # Pad
       /\ s = Pad <=> ~HasByte(bytes, i, 2)
       /\ t = Pad <=> ~HasByte(bytes, i, 3)
       /\ o \in 0 .. 64 /\ p \in 0 .. 64 /\ s \in 0 .. 64 /\ t \in 0 .. 64
  <2>1. Pad = 64 BY SMT DEF Pad
  <2>2. QED BY <1>6, <1>7, <2>1, SMT
<1>15. f \in Seq(0 .. 64) BY <1>12, <1>14, SMT
<1>16. Padded(f, bytes, i)
  <2>1. \A j \in 1 .. 4 : j = 1 \/ j = 2 \/ j = 3 \/ j = 4 BY SMT
  <2>2. QED BY <1>13, <1>14, <2>1, SMT DEF Padded
<1>17. 262144 * (f[1] % 64) + 4096 * (f[2] % 64) + 64 * (f[3] % 64) + (f[4] % 64) = T
  <2>1. f[1] % 64 = o /\ f[2] % 64 = p /\ f[3] % 64 = q /\ f[4] % 64 = r
    BY <1>10, <1>11, <1>13, Zenon
  <2>2. QED BY <1>6, <2>1, SMT
<1>18. FourOf(bytes, i) = f BY <1>8, <1>12, SMT
<1>19. QED BY <1>1, <1>2, <1>4, <1>9, <1>13, <1>15, <1>16, <1>17, <1>18, SMT

\* And are read as that piece.
LEMMA ThreesAre ==
    ASSUME NEW bytes \in Seq(Octets), NEW i \in 1 .. (Len(bytes) + 2) \div 3, NEW text,
           \A j \in 1 .. 4 : text[4 * (i - 1) + j] = FourOf(bytes, i)[j]
    PROVE  ThreeOf(text, i) = PieceOf(bytes, i)
<1>1. PICK f : f = FourOf(bytes, i) BY SMT
<1>2. \A j \in 1 .. 4 : text[4 * (i - 1) + j] = f[j] BY <1>1, SMT
<1>3. PICK T : T = TripleAt(bytes, i) BY SMT
<1>4. PICK a \in Octets, b \in Octets, c \in Octets :
        a = ByteAt(bytes, i, 1) /\ b = ByteAt(bytes, i, 2) /\ c = ByteAt(bytes, i, 3)
  <2>1. 1 \in 1 .. 3 /\ 2 \in 1 .. 3 /\ 3 \in 1 .. 3 BY SMT
  <2>2. QED BY <2>1, BytesAre, SMT
<1>5. /\ Padded(f, bytes, i)
      /\ 262144 * (f[1] % 64) + 4096 * (f[2] % 64) + 64 * (f[3] % 64) + (f[4] % 64) = T
      /\ T \div 65536 = a /\ (T \div 256) % 256 = b /\ T % 256 = c
      /\ HasByte(bytes, i, 1)
  BY <1>1, <1>3, <1>4, FoursAre, SMT
<1>5a. Padded(f, bytes, i) /\ HasByte(bytes, i, 1) BY <1>5, SMT
<1>6. ReadTriple(text, i) = T
  <2>1. /\ text[4 * (i - 1) + 1] = f[1] /\ text[4 * (i - 1) + 2] = f[2]
        /\ text[4 * (i - 1) + 3] = f[3] /\ text[4 * (i - 1) + 4] = f[4]
    BY <1>2, SMT
  <2>2. QED BY <1>5, <2>1, SMT DEF ReadTriple
<1>7. {k \in 1 .. 4 : text[4 * (i - 1) + k] = Pad}
        = {k \in 1 .. 4 : \/ k = 3 /\ ~HasByte(bytes, i, 2)
                          \/ k = 4 /\ ~HasByte(bytes, i, 3)}
  BY <1>2, <1>5a DEF Padded
<1>8. PICK pads : pads = PadsAt(text, i) BY SMT
<1>9. ThreeOf(text, i) = SubSeq(<<a, b, c>>, 1, 3 - pads)
  <2>1. ThreeOf(text, i) = SubSeq(<<T \div 65536, (T \div 256) % 256, T % 256>>, 1, 3 - pads)
    BY <1>6, <1>8, SMT DEF ThreeOf
  <2>2. PICK x, y, z : x = T \div 65536 /\ y = (T \div 256) % 256 /\ z = T % 256 BY SMT
  <2>3. x = a /\ y = b /\ z = c BY <1>5, <2>2, SMT
  <2>4. ThreeOf(text, i) = SubSeq(<<x, y, z>>, 1, 3 - pads) BY <2>1, <2>2, SMT
  <2>5. QED BY <2>3, <2>4, Zenon
<1>10. PICK n \in Nat, m \in Nat : n = Len(bytes) /\ m = 3 * (i - 1) BY SMT
<1>11. /\ HasByte(bytes, i, 1) => m + 1 <= n /\ bytes[m + 1] = a
       /\ HasByte(bytes, i, 2) => m + 2 <= n /\ bytes[m + 2] = b
       /\ HasByte(bytes, i, 3) => m + 3 <= n /\ bytes[m + 3] = c
       /\ ~HasByte(bytes, i, 2) => m + 2 > n
       /\ ~HasByte(bytes, i, 3) => m + 3 > n
  <2>1. 1 \in 1 .. 3 /\ 2 \in 1 .. 3 /\ 3 \in 1 .. 3 BY SMT
  <2>2. /\ HasByte(bytes, i, 1) => bytes[m + 1] = a
        /\ HasByte(bytes, i, 2) => bytes[m + 2] = b
        /\ HasByte(bytes, i, 3) => bytes[m + 3] = c
    BY <1>4, <1>10, <2>1, BytesAre, SMT
  <2>3. \A k \in 1 .. 3 : HasByte(bytes, i, k) <=> m + k <= n BY <1>10, SMT DEF HasByte
  <2>4. QED BY <1>10, <2>1, <2>2, <2>3, SMT
<1>12. PICK u : u = <<a, b, c>> OBVIOUS
<1>13. u \in Seq(Octets) /\ Len(u) = 3 /\ u[1] = a /\ u[2] = b /\ u[3] = c BY <1>12, SMT
<1>14. 3 * i = m + 3 BY <1>10, SMT
<1>15. ASSUME NEW k \in 1 .. 3, pads = 3 - k, m + k <= n,
              (IF m + 3 <= n THEN m + 3 ELSE n) = m + k,
              \A j \in 1 .. k : bytes[m + j] = u[j]
       PROVE  ThreeOf(text, i) = PieceOf(bytes, i)
  <2>1. PICK v, w : v = SubSeq(u, 1, k) /\ w = SubSeq(bytes, m + 1, m + k) OBVIOUS
  <2>2. 3 - pads = k BY <1>15, SMT
  <2>3. ThreeOf(text, i) = v BY <1>9, <1>12, <2>1, <2>2, SMT
  <2>4. PieceOf(bytes, i) = w
    <3>1. PICK y : y = IF m + 3 <= n THEN m + 3 ELSE n OBVIOUS
    <3>2. PieceOf(bytes, i) = SubSeq(bytes, m + 1, y) BY <1>10, <1>14, <3>1, Zenon DEF PieceOf
    <3>3. y = m + k BY <1>15, <3>1
    <3>4. QED BY <2>1, <3>2, <3>3
  <2>5. k \in Nat /\ 1 <= k /\ k <= Len(u) /\ m + k <= Len(bytes) BY <1>10, <1>13, <1>15, SMT
  <2>6. SubSeq(u, 1, k) = SubSeq(bytes, m + 1, m + k)
    BY <1>10, <1>13, <1>15, <2>5, SlicesAgree, SMT
  <2>7. v = w BY <2>1, <2>6, Zenon
  <2>8. QED BY <2>3, <2>4, <2>7, SMT
<1>16. CASE HasByte(bytes, i, 3) /\ HasByte(bytes, i, 2)
  <2>2. PICK S : S = {k \in 1 .. 4 : text[4 * (i - 1) + k] = Pad} OBVIOUS
  <2>2a. S = {}
    <3>1. \A k \in 1 .. 4 : text[4 * (i - 1) + k] # Pad
      <4>1. \A k \in 1 .. 4 : f[k] # Pad BY <1>5a, <1>16 DEF Padded
      <4>2. QED BY <1>2, <4>1, Zenon
    <3>2. \A k : k \notin S BY <2>2, <3>1, Zenon
    <3>3. QED BY <3>2
  <2>2b. pads = Cardinality(S) BY <1>8, <2>2 DEF PadsAt
  <2>2c. pads = 0 BY <2>2a, <2>2b, PadsCounted
  <2>3. \A j \in 1 .. 3 : bytes[m + j] = u[j]
    <3>1. \A j \in 1 .. 3 : j = 1 \/ j = 2 \/ j = 3 BY SMT
    <3>2. QED BY <1>5a, <1>11, <1>13, <1>16, <3>1, SMT
  <2>4. 3 \in 1 .. 3 /\ m + 3 <= n /\ pads = 3 - 3 BY <1>11, <1>16, <2>2c, SMT
  <2>5. QED BY <1>15, <2>3, <2>4, SMT
<1>17. CASE ~HasByte(bytes, i, 3) /\ HasByte(bytes, i, 2)
  <2>1. {k \in 1 .. 4 : (k = 3 /\ ~HasByte(bytes, i, 2)) \/ (k = 4 /\ ~HasByte(bytes, i, 3))} = {4}
    BY <1>17, SMT
  <2>2. pads = 1 BY <1>7, <1>8, <2>1, PadsCounted DEF PadsAt
  <2>3. \A j \in 1 .. 2 : bytes[m + j] = u[j]
    <3>1. \A j \in 1 .. 2 : j = 1 \/ j = 2 BY SMT
    <3>2. QED BY <1>5a, <1>11, <1>13, <1>17, <3>1, SMT
  <2>4. /\ 2 \in 1 .. 3 /\ m + 2 <= n /\ pads = 3 - 2
        /\ (IF m + 3 <= n THEN m + 3 ELSE n) = m + 2
    BY <1>10, <1>11, <1>17, <2>2, SMT
  <2>5. QED BY <1>15, <2>3, <2>4, SMT
<1>18. CASE ~HasByte(bytes, i, 3) /\ ~HasByte(bytes, i, 2)
  <2>1. {k \in 1 .. 4 : (k = 3 /\ ~HasByte(bytes, i, 2)) \/ (k = 4 /\ ~HasByte(bytes, i, 3))} = {3, 4}
    BY <1>18, SMT
  <2>2. pads = 2 BY <1>7, <1>8, <2>1, PadsCounted DEF PadsAt
  <2>3. \A j \in 1 .. 1 : bytes[m + j] = u[j]
    <3>1. \A j \in 1 .. 1 : j = 1 BY SMT
    <3>2. QED BY <1>5a, <1>11, <1>13, <1>18, <3>1, SMT
  <2>4. /\ 1 \in 1 .. 3 /\ m + 1 <= n /\ pads = 3 - 1
        /\ (IF m + 3 <= n THEN m + 3 ELSE n) = m + 1
    BY <1>5a, <1>10, <1>11, <1>18, <2>2
  <2>5. QED BY <1>15, <2>3, <2>4, SMT
<1>19. HasByte(bytes, i, 3) => HasByte(bytes, i, 2) BY <1>10, SMT DEF HasByte
<1>20. QED BY <1>16, <1>17, <1>18, <1>19, SMT

\* A text is its pieces of three, one after the other.
LEMMA PiecesAre ==
    ASSUME NEW bytes \in Seq(Octets)
    PROVE  FlattenSeq([i \in 1 .. (Len(bytes) + 2) \div 3 |-> PieceOf(bytes, i)]) = bytes
<1> DEFINE n == Len(bytes)
           g == (n + 2) \div 3
           upto(k) == IF 3 * k <= n THEN 3 * k ELSE n
           pieces(k) == [i \in 1 .. k |-> PieceOf(bytes, i)]
           Good(k) == FlattenSeq(pieces(k)) = SubSeq(bytes, 1, upto(k))
           T == {k \in 0 .. g : Good(k)}
<1>1. n \in Nat /\ g \in Nat /\ 3 * g <= n + 2 /\ n <= 3 * g
  <2>1. n \in Nat OBVIOUS
  <2> HIDE DEF n
  <2>2. QED BY <2>1
<1> HIDE DEF n, g
<1>2. \A i \in 1 .. g : PieceOf(bytes, i) \in Seq(Octets)
  <2> SUFFICES ASSUME NEW i \in 1 .. g PROVE PieceOf(bytes, i) \in Seq(Octets) OBVIOUS
  <2>1. PICK x \in Int, y \in Int : x = 3 * (i - 1) + 1 /\ y = upto(i) BY <1>1
  <2>2. 1 <= x /\ y <= n BY <1>1, <2>1
  <2>3. PieceOf(bytes, i) = SubSeq(bytes, x, y) BY <2>1 DEF PieceOf, n
  <2>4. SubSeq(bytes, x, y) \in Seq(Octets) BY <2>2 DEF n
  <2>5. QED BY <2>3, <2>4
<1>3. 0 \in T
  <2>1. pieces(0) = <<>> OBVIOUS
  <2>2. upto(0) = 0 BY <1>1
  <2>3. SubSeq(bytes, 1, 0) = <<>> BY SubSeqEmpty
  <2>4. 0 \in 0 .. g BY <1>1
  <2> HIDE DEF upto, pieces
  <2>5. QED BY <2>1, <2>2, <2>3, <2>4, FlattenNothing
<1>4. ASSUME NEW k \in 0 .. g - 1, k \in T PROVE k + 1 \in T
  <2>1. k \in Nat /\ k + 1 \in 1 .. g /\ k + 1 \in 0 .. g /\ k \in 0 .. g BY <1>1
  <2>2. PieceOf(bytes, k + 1) \in Seq(Octets) BY <1>2, <2>1
  <2>3. \A i \in 1 .. k + 1 : PieceOf(bytes, i) \in Seq(Octets)
    <3>1. \A i \in 1 .. k + 1 : i \in 1 .. g BY <1>1, <2>1
    <3>2. QED BY <1>2, <3>1
  <2>4. /\ pieces(k) \in Seq(Seq(Octets)) /\ Len(pieces(k)) = k
        /\ \A i \in 1 .. k : pieces(k)[i] = PieceOf(bytes, i)
    <3>1. \A i \in 1 .. k : PieceOf(bytes, i) \in Seq(Octets) BY <2>1, <2>3
    <3>2. QED BY <2>1, <3>1
  <2>5. /\ pieces(k + 1) \in Seq(Seq(Octets)) /\ Len(pieces(k + 1)) = k + 1
        /\ \A i \in 1 .. k + 1 : pieces(k + 1)[i] = PieceOf(bytes, i)
    <3>1. k + 1 \in Nat BY <2>1
    <3>2. QED BY <2>3, <3>1
  <2> HIDE DEF pieces
  <2>6. pieces(k + 1) = Append(pieces(k), PieceOf(bytes, k + 1))
    <3>1. PICK F \in Seq(Seq(Octets)), e \in Seq(Octets) : F = pieces(k) /\ e = PieceOf(bytes, k + 1)
      BY <2>2, <2>4
    <3>2. /\ Append(F, e) \in Seq(Seq(Octets)) /\ Len(Append(F, e)) = k + 1
          /\ Append(F, e)[k + 1] = e /\ \A i \in 1 .. k : Append(F, e)[i] = F[i]
      BY <2>4, <3>1
    <3>3. \A i \in 1 .. k + 1 : pieces(k + 1)[i] = Append(F, e)[i]
      <4> SUFFICES ASSUME NEW i \in 1 .. k + 1 PROVE pieces(k + 1)[i] = Append(F, e)[i] OBVIOUS
      <4>1. i \in 1 .. k \/ i = k + 1 BY <2>1
      <4>2. CASE i \in 1 .. k BY <2>4, <2>5, <3>1, <3>2, <4>2
      <4>3. CASE i = k + 1 BY <2>5, <3>1, <3>2, <4>3
      <4>4. QED BY <4>1, <4>2, <4>3
    <3>4. pieces(k + 1) = Append(F, e) BY <2>5, <3>2, <3>3, SeqEqual
    <3>5. QED BY <3>1, <3>4
  <2>7. FlattenSeq(pieces(k + 1)) = FlattenSeq(pieces(k)) \o PieceOf(bytes, k + 1)
    BY <2>2, <2>4, <2>6, FlattenAppend
  <2>8. PICK m \in Nat, l \in Nat : m = 3 * k /\ l = upto(k + 1) BY <1>1, <2>1
  <2>9. m <= l /\ l <= n /\ upto(k) = m
    <3>1. 3 * k + 3 <= 3 * g BY <1>1, <2>1
    <3>2. 3 * k <= n BY <1>1, <2>1, <3>1
    <3>3. QED BY <1>1, <2>1, <2>8, <3>2
  <2>10. PieceOf(bytes, k + 1) = SubSeq(bytes, m + 1, l)
    <3>1. 3 * ((k + 1) - 1) + 1 = m + 1 BY <2>1, <2>8
    <3>2. PieceOf(bytes, k + 1) = SubSeq(bytes, 3 * ((k + 1) - 1) + 1, upto(k + 1))
      BY DEF PieceOf, n
    <3>3. QED BY <2>8, <3>1, <3>2
  <2>11. FlattenSeq(pieces(k)) = SubSeq(bytes, 1, m) BY <1>4, <2>9
  <2>12. SubSeq(bytes, 1, m) \o SubSeq(bytes, m + 1, l) = SubSeq(bytes, 1, l)
    <3>1. PICK a, b, c : /\ a = SubSeq(bytes, 1, m) /\ b = SubSeq(bytes, m + 1, l)
                         /\ c = SubSeq(bytes, 1, l)
      OBVIOUS
    <3>2. l <= Len(bytes) /\ m <= Len(bytes) BY <1>1, <2>9 DEF n
    <3>3. a \in Seq(Octets) /\ Len(a) = m /\ \A i \in 1 .. m : a[i] = bytes[i] BY <2>8, <3>1, <3>2
    <3>4. c \in Seq(Octets) /\ Len(c) = l /\ \A i \in 1 .. l : c[i] = bytes[i] BY <2>8, <3>1, <3>2
    <3>5. b \in Seq(Octets) /\ Len(b) = l - m /\ \A i \in 1 .. l - m : b[i] = bytes[m + i]
      <4>1. PICK x \in Nat : x = m + 1 OBVIOUS
      <4>2. b = SubSeq(bytes, x, l) /\ 1 <= x /\ x <= l + 1 BY <2>9, <3>1, <4>1
      <4>3. b \in Seq(Octets) BY <3>2, <4>2
      <4>4. Len(b) = (l - x) + 1
        <5>1. CASE x <= l BY <3>2, <4>2, <5>1
        <5>2. CASE x = l + 1 BY <3>2, <4>2, <5>2
        <5>3. QED BY <4>2, <5>1, <5>2
      <4>5. \A i \in 1 .. Len(b) : b[i] = bytes[(x + i) - 1] BY <3>2, <4>2, <4>4
      <4>6. (l - x) + 1 = l - m /\ \A i \in 1 .. l - m : (x + i) - 1 = m + i BY <4>1, <2>9
      <4>7. Len(b) = l - m BY <4>4, <4>6
      <4>8. \A i \in 1 .. l - m : b[i] = bytes[m + i] BY <4>5, <4>6, <4>7
      <4>9. QED BY <4>3, <4>7, <4>8
    <3>6. /\ a \o b \in Seq(Octets) /\ Len(a \o b) = l
          /\ \A i \in 1 .. l : (a \o b)[i] = IF i <= m THEN a[i] ELSE b[i - m]
      <4>1. /\ a \o b \in Seq(Octets) /\ Len(a \o b) = Len(a) + Len(b)
            /\ \A i \in 1 .. Len(a) + Len(b) : (a \o b)[i] = IF i <= Len(a) THEN a[i] ELSE b[i - Len(a)]
        BY <3>3, <3>5, ConcatProperties
      <4>2. Len(a) + Len(b) = l BY <2>9, <3>3, <3>5
      <4>3. QED BY <3>3, <4>1, <4>2
    <3>7. \A i \in 1 .. l : (a \o b)[i] = c[i]
      <4> SUFFICES ASSUME NEW i \in 1 .. l PROVE (a \o b)[i] = c[i] OBVIOUS
      <4>1. CASE i <= m
        <5>1. i \in 1 .. m BY <4>1
        <5>2. QED BY <3>3, <3>4, <3>6, <4>1, <5>1
      <4>2. CASE ~(i <= m)
        <5>1. i - m \in 1 .. l - m /\ m + (i - m) = i
          <6>1. i \in Nat /\ i <= l /\ m \in Nat /\ l \in Nat BY <2>8
          <6>2. QED BY <4>2, <6>1
        <5>2. b[i - m] = bytes[i] BY <3>5, <5>1
        <5>3. QED BY <3>4, <3>6, <4>2, <5>2
      <4>3. QED BY <4>1, <4>2
    <3>8. a \o b = c BY <3>4, <3>6, <3>7, SeqEqual
    <3>9. QED BY <3>1, <3>8
  <2>13. Good(k + 1) BY <2>7, <2>8, <2>10, <2>11, <2>12
  <2>14. QED BY <2>1, <2>13
<1>5. 0 .. g \subseteq T
  <2> HIDE DEF T
  <2>1. QED BY <1>1, <1>3, <1>4, Induction
<1>6. Good(g)
  <2>1. g \in 0 .. g BY <1>1
  <2>2. QED BY <1>5, <2>1
<1>7. upto(g) = n BY <1>1
<1>8. SubSeq(bytes, 1, n) = bytes BY SubSeqFull DEF n
<1>9. QED BY <1>6, <1>7, <1>8 DEF g, n

\* What is encoded in base64 is decoded to what it was.
LEMMA Base64IsRead ==
    ASSUME NEW bytes \in Seq(Octets)
    PROVE  Base64Decode(Base64Encode(bytes)) = bytes
<1> DEFINE g == (Len(bytes) + 2) \div 3
           fours == [i \in 1 .. g |-> FourOf(bytes, i)]
           text == FlattenSeq(fours)
<1>1. g \in Nat
  <2>1. PICK n \in Nat : n = Len(bytes) OBVIOUS
  <2>2. (n + 2) \div 3 \in Nat OBVIOUS
  <2>3. QED BY <2>1, <2>2
<1>2. \A i \in 1 .. g : FourOf(bytes, i) \in Seq(0 .. 64) /\ Len(FourOf(bytes, i)) = 4
  BY FoursAre
<1>3. /\ Base64Encode(bytes) = text
      /\ Base64Decode(text) = FlattenSeq([i \in 1 .. Len(text) \div 4 |-> ThreeOf(text, i)])
  BY Base64Is, Base64Reads
<1>4. FlattenSeq([i \in 1 .. g |-> PieceOf(bytes, i)]) = bytes BY PiecesAre
<1>5. \A i \in 1 .. g : (\A j \in 1 .. 4 : text[4 * (i - 1) + j] = FourOf(bytes, i)[j])
                        => ThreeOf(text, i) = PieceOf(bytes, i)
  BY ThreesAre
<1> HIDE DEF g
<1>6. /\ fours \in Seq(Seq(0 .. 64)) /\ Len(fours) = g
      /\ \A i \in 1 .. g : fours[i] = FourOf(bytes, i)
  BY <1>1, <1>2
<1>7. \A i \in 1 .. Len(fours) : Len(fours[i]) = 4 BY <1>2, <1>6
<1> HIDE DEF fours
<1>8. /\ Len(text) = 4 * Len(fours)
      /\ \A i \in 1 .. Len(fours), j \in 1 .. 4 : text[4 * (i - 1) + j] = fours[i][j]
  BY <1>6, <1>7, FlattenFours
<1>9. Len(text) \div 4 = g
  <2>1. (4 * g) \div 4 = g BY <1>1
  <2>2. QED BY <1>6, <1>8, <2>1
<1> HIDE DEF text
<1>10. \A i \in 1 .. g : ThreeOf(text, i) = PieceOf(bytes, i) BY <1>5, <1>6, <1>8
<1>11. [i \in 1 .. g |-> ThreeOf(text, i)] = [i \in 1 .. g |-> PieceOf(bytes, i)] BY <1>10
<1>12. QED BY <1>3, <1>4, <1>9, <1>11

\* The id and the secret of a Basic header are what the server makes of it.
LEMMA CredentialsAreRead ==
    ASSUME NEW id, NEW secret, Bytes(id) \in Seq(Octets), Bytes(secret) \in Seq(Octets)
    PROVE  ReceivedCredentials(BasicCredentials(id, secret)) = <<Bytes(id), Bytes(secret)>>
<1>1. PICK a, b : a = EncodeComponent(Bytes(id)) /\ b = EncodeComponent(Bytes(secret)) OBVIOUS
<1>2. /\ a \in Seq(Octets) /\ DecodeComponent(a) = Bytes(id) /\ Unmarked(a)
      /\ b \in Seq(Octets) /\ DecodeComponent(b) = Bytes(secret)
  BY <1>1, EncodedIsDecoded
<1>3. Colon \in Octets /\ Lacks(a, Colon)
  <2>1. Colon \in Octets BY DEF Colon, Octets
  <2>2. QED BY <1>2, <2>1 DEF Lacks, Unmarked, Marks
<1>4. (a \o <<Colon>>) \o b \in Seq(Octets) BY <1>2, <1>3
<1>5. BasicCredentials(id, secret) = Base64Encode((a \o <<Colon>>) \o b)
  BY <1>1 DEF BasicCredentials
<1>6. Base64Decode(BasicCredentials(id, secret)) = (a \o <<Colon>>) \o b
  BY <1>4, <1>5, Base64IsRead
<1>7. SplitOnce((a \o <<Colon>>) \o b, Colon) = <<a, b>> BY <1>2, <1>3, CutOnce
<1>8. QED BY <1>2, <1>6, <1>7 DEF ReceivedCredentials

------------------------------------------------------------------------------
(* Bodies and parameters *)

\* Parameters that can be written: finitely many, and their names and values are bytes.
Textual(params) ==
    /\ IsFiniteSet(DOMAIN params) /\ DOMAIN params # {}
    /\ \A n \in DOMAIN params : Bytes(n) \in Seq(Octets) /\ Bytes(params[n]) \in Seq(Octets)

\* The server finds in a body, of either encoding, just the parameters it was made of.
LEMMA BodyIsRead ==
    ASSUME NEW params, NEW encoding, Textual(params)
    PROVE  Received(EncodeBody(params, encoding))
               = {<<Bytes(n), Bytes(params[n])>> : n \in DOMAIN params}
<1>1. CASE encoding # "form"
  <2>1. PICK body : body = [json |-> params] OBVIOUS
  <2>2. "form" \notin DOMAIN body /\ body.json = params BY <2>1
  <2>3. EncodeBody(params, encoding) = body BY <1>1, <2>1 DEF EncodeBody
  <2>4. QED BY <2>2, <2>3 DEF Received
<1>2. CASE encoding = "form"
  <2> DEFINE S == DOMAIN params
             c == Cardinality(S)
  <2>1. PICK names : names = SetToSeq(S) OBVIOUS
  <2>2. /\ names \in [1 .. c -> S] /\ c \in Nat /\ DOMAIN names = 1 .. c
        /\ \A x \in S : \E i \in 1 .. c : names[i] = x
    BY <2>1, ListedWhole DEF Textual
  <2>3. PICK x : x \in S BY DEF Textual
  <2> HIDE DEF c, S
  <2>4. c # 0 BY <2>2, <2>3
  <2>5. PICK pairs : pairs = [i \in DOMAIN names |-> <<Bytes(names[i]), Bytes(params[names[i]])>>]
    OBVIOUS
  <2>6. \A i \in 1 .. c : <<Bytes(names[i]), Bytes(params[names[i]])>> \in Pairs
    BY <2>2 DEF Textual, Pairs, S
  <2>7. pairs \in Seq(Pairs) /\ DOMAIN pairs = 1 .. c /\ Len(pairs) = c BY <2>2, <2>5, <2>6
  <2>8. pairs # <<>> BY <2>4, <2>7
  <2>9. PICK body : body = [form |-> FormEncode(pairs)] OBVIOUS
  <2>10. "form" \in DOMAIN body /\ body.form = FormEncode(pairs) BY <2>9
  <2>11. EncodeBody(params, encoding) = body BY <1>2, <2>1, <2>5, <2>9 DEF EncodeBody, S
  <2>12. FormDecode(body.form) = pairs BY <2>7, <2>8, <2>10, FormsAreReadBack
  <2>13. Received(body) = Range(pairs) BY <2>10, <2>12 DEF Received
  <2>14. Range(pairs) = {pairs[i] : i \in 1 .. c} BY <2>7 DEF Range
  <2>15. \A i \in 1 .. c : pairs[i] = <<Bytes(names[i]), Bytes(params[names[i]])>> BY <2>2, <2>5
  <2>16. {pairs[i] : i \in 1 .. c} = {<<Bytes(n), Bytes(params[n])>> : n \in S}
    <3>1. ASSUME NEW i \in 1 .. c PROVE \E n \in S : pairs[i] = <<Bytes(n), Bytes(params[n])>>
      BY <2>2, <2>15
    <3>2. ASSUME NEW n \in S PROVE \E i \in 1 .. c : pairs[i] = <<Bytes(n), Bytes(params[n])>>
      BY <2>2, <2>15
    <3>3. \A p : p \in {pairs[i] : i \in 1 .. c} <=> \E i \in 1 .. c : p = pairs[i] OBVIOUS
    <3>4. \A p : p \in {<<Bytes(n), Bytes(params[n])>> : n \in S}
                    <=> \E n \in S : p = <<Bytes(n), Bytes(params[n])>>
      OBVIOUS
    <3>5. \A p : p \in {pairs[i] : i \in 1 .. c} <=> p \in {<<Bytes(n), Bytes(params[n])>> : n \in S}
      BY <3>1, <3>2, <3>3, <3>4
    <3>6. QED BY <3>5
  <2>17. QED BY <2>11, <2>13, <2>14, <2>16 DEF S
<1>3. QED BY <1>1, <1>2

\* What the server finds under a name, among the parameters it has read.
ValuesOf(read, name) == {p[2] : p \in {q \in read : q[1] = Bytes(name)}}

\* It is the value the parameter of that name has, or nothing.
LEMMA ValuesAre ==
    ASSUME NEW params, DOMAIN params \subseteq ParamNames, NEW name \in ParamNames
    PROVE  ValuesOf({<<Bytes(n), Bytes(params[n])>> : n \in DOMAIN params}, name)
               = IF name \in DOMAIN params THEN {Bytes(params[name])} ELSE {}
<1> DEFINE read == {<<Bytes(n), Bytes(params[n])>> : n \in DOMAIN params}
           picked == {q \in read : q[1] = Bytes(name)}
<1>1. \A m, n \in ParamNames : Bytes(m) = Bytes(n) => m = n BY ParamsAssumption
<1>2. \A q \in picked : name \in DOMAIN params /\ q = <<Bytes(name), Bytes(params[name])>>
  <2> SUFFICES ASSUME NEW q \in picked
               PROVE  name \in DOMAIN params /\ q = <<Bytes(name), Bytes(params[name])>>
    OBVIOUS
  <2>1. PICK n \in DOMAIN params : q = <<Bytes(n), Bytes(params[n])>> OBVIOUS
  <2>2. Bytes(n) = Bytes(name) BY <2>1
  <2>3. n = name BY <1>1, <2>2
  <2>4. QED BY <2>1, <2>3
<1>3. CASE name \in DOMAIN params
  <2>1. PICK q : q = <<Bytes(name), Bytes(params[name])>> OBVIOUS
  <2>2. q[1] = Bytes(name) /\ q[2] = Bytes(params[name]) BY <2>1
  <2>3. q \in read BY <1>3, <2>1
  <2>4. q \in picked BY <2>2, <2>3
  <2>5. \A p \in picked : p = q BY <1>2, <2>1
  <2> HIDE DEF picked
  <2>6. picked = {q} BY <2>4, <2>5
  <2>7. {p[2] : p \in picked} = {q[2]} BY <2>6
  <2>8. QED BY <1>3, <2>2, <2>7 DEF ValuesOf, picked
<1>4. CASE name \notin DOMAIN params
  <2>1. picked = {} BY <1>2, <1>4
  <2> HIDE DEF picked
  <2>2. {p[2] : p \in picked} = {} BY <2>1
  <2>3. QED BY <1>4, <2>2 DEF ValuesOf, picked
<1>5. QED BY <1>3, <1>4

\* What a request of a kind starts from, and what prepare_request makes of it before the hook.
Bases(config) ==
    {DeviceParams(config), TokenParams("device code"), RefreshParams("refresh token"),
     RevokeParams("access token")}

OwnParams(config, base) == Over(SecretParams(config), Over([client_id |-> config.client_id], base))

AllParams(config, kind, base) == Over(ExtraParams(config, kind), OwnParams(config, base))

AllHeaders(config) ==
    Over(config.extra_headers, Over(SecretHeaders(config), [Accept |-> "application/json"]))

\* Insertion, parameter by parameter.
LEMMA OverIs ==
    ASSUME NEW f, NEW g
    PROVE  /\ DOMAIN Over(f, g) = DOMAIN f \cup DOMAIN g
           /\ \A n \in DOMAIN f : Over(f, g)[n] = f[n]
           /\ \A n \in DOMAIN g : n \notin DOMAIN f => Over(f, g)[n] = g[n]
BY DEF Over

\* Some parameters are names and texts that occur.
Known(params) ==
    /\ IsFiniteSet(DOMAIN params) /\ DOMAIN params \subseteq ParamNames
    /\ \A n \in DOMAIN params : params[n] \in ParamTexts

\* One inserted into the other, they still are.
LEMMA OverKnown ==
    ASSUME NEW f, NEW g, Known(f), Known(g)
    PROVE  Known(Over(f, g))
<1>1. IsFiniteSet(DOMAIN f \cup DOMAIN g) BY FS_Union DEF Known
<1>2. PICK h : h = Over(f, g) OBVIOUS
<1>3. /\ DOMAIN h = DOMAIN f \cup DOMAIN g
      /\ \A n \in DOMAIN f : h[n] = f[n]
      /\ \A n \in DOMAIN g : n \notin DOMAIN f => h[n] = g[n]
  BY <1>2 DEF Over
<1>4. \A n \in DOMAIN h : h[n] \in ParamTexts BY <1>3 DEF Known
<1>5. QED BY <1>1, <1>2, <1>3, <1>4 DEF Known

\* No parameters.
LEMMA EmptyKnown == Known(<<>>) /\ DOMAIN <<>> = {}
<1>1. DOMAIN <<>> = {} OBVIOUS
<1>2. QED BY <1>1, FS_EmptySet DEF Known

\* Texts of the parameters that occur.
LEMMA TextsOccur ==
    /\ {"scope", "grant_type", "device_code", "refresh_token", "token", "token_type_hint",
        "client_id", "client_secret"} \subseteq ParamNames
    /\ ParamNames \subseteq ParamTexts
    /\ {"device code", "refresh token", "access token", "access_token"} \subseteq ParamTexts
    /\ \A config \in Configs :
         /\ config.client_id \in ParamTexts
         /\ config.client_secret # None => config.client_secret \in ParamTexts
         /\ config.scope # None => config.scope \in ParamTexts
         /\ Known(config.extra_device_params) /\ Known(config.extra_token_params)
<1>1. {"scope", "grant_type", "device_code", "refresh_token", "token", "token_type_hint",
        "client_id", "client_secret"} \subseteq ParamNames
  BY Zenon DEF ParamNames
<1>2. /\ ParamNames \subseteq ParamTexts
      /\ {"device code", "refresh token", "access token", "access_token"} \subseteq ParamTexts
  BY Zenon DEF ParamTexts
<1>3. ASSUME NEW config \in Configs
      PROVE  /\ config.client_id \in ParamTexts
             /\ config.client_secret # None => config.client_secret \in ParamTexts
             /\ config.scope # None => config.scope \in ParamTexts
             /\ Known(config.extra_device_params) /\ Known(config.extra_token_params)
  <2>1. TextsOf(config) \subseteq ParamTexts BY Zenon DEF ParamTexts
  <2>2. DOMAIN config.extra_device_params \cup DOMAIN config.extra_token_params \subseteq ParamNames
    BY DEF ParamNames
  <2>4. /\ IsFiniteSet(DOMAIN config.extra_device_params)
        /\ IsFiniteSet(DOMAIN config.extra_token_params)
    BY ParamsAssumption
  <2>5. QED BY <2>1, <2>2, <2>4 DEF Known, Range, TextsOf
<1>4. QED BY <1>1, <1>2, <1>3

\* What a request starts from says nothing of the client.
LEMMA BasesKnown ==
    ASSUME NEW config \in Configs, NEW base \in Bases(config)
    PROVE  Known(base) /\ "client_id" \notin DOMAIN base /\ "client_secret" \notin DOMAIN base
<1>1. CASE base = DeviceParams(config)
  <2>1. CASE config.scope = None
    <3>1. base = <<>> BY <1>1, <2>1 DEF DeviceParams
    <3>2. QED BY <3>1, EmptyKnown
  <2>2. CASE config.scope # None
    <3>1. base = [scope |-> config.scope] BY <1>1, <2>2 DEF DeviceParams
    <3>2. DOMAIN base = {"scope"} /\ base["scope"] = config.scope BY <3>1
    <3>3. IsFiniteSet({"scope"}) BY FS_Singleton
    <3>4. config.scope \in ParamTexts /\ "scope" \in ParamNames BY <2>2, TextsOccur
    <3>5. QED BY <3>2, <3>3, <3>4 DEF Known
  <2>3. QED BY <2>1, <2>2
<1>2. ASSUME NEW a, NEW b, DOMAIN base = {a, b}, {a, b} \subseteq ParamNames,
             base[a] \in ParamTexts, base[b] \in ParamTexts
      PROVE  Known(base)
  <2>1. IsFiniteSet({a}) /\ IsFiniteSet({b}) BY FS_Singleton
  <2>2. IsFiniteSet({a} \cup {b}) BY <2>1, FS_Union
  <2>3. {a} \cup {b} = {a, b} OBVIOUS
  <2>4. IsFiniteSet({a, b}) BY <2>2, <2>3
  <2>5. QED BY <1>2, <2>4 DEF Known
<1>3. CASE base = TokenParams("device code")
  <2>1. /\ DOMAIN base = {"grant_type", "device_code"}
        /\ base["grant_type"] = "device_code" /\ base["device_code"] = "device code"
    BY <1>3, Zenon DEF TokenParams
  <2>2. /\ "grant_type" \in ParamNames /\ "device_code" \in ParamNames
        /\ "device_code" \in ParamTexts /\ "device code" \in ParamTexts
    BY TextsOccur, Zenon
  <2>3. {"grant_type", "device_code"} \subseteq ParamNames BY <2>2
  <2>4. Known(base) BY <1>2, <2>1, <2>2, <2>3, Zenon
  <2>5. QED BY <2>1, <2>4
<1>4. CASE base = RefreshParams("refresh token")
  <2>1. /\ DOMAIN base = {"grant_type", "refresh_token"}
        /\ base["grant_type"] = "refresh_token" /\ base["refresh_token"] = "refresh token"
    BY <1>4, Zenon DEF RefreshParams
  <2>2. /\ "grant_type" \in ParamNames /\ "refresh_token" \in ParamNames
        /\ "refresh_token" \in ParamTexts /\ "refresh token" \in ParamTexts
    BY TextsOccur, Zenon
  <2>3. {"grant_type", "refresh_token"} \subseteq ParamNames BY <2>2
  <2>4. Known(base) BY <1>2, <2>1, <2>2, <2>3, Zenon
  <2>5. QED BY <2>1, <2>4
<1>5. CASE base = RevokeParams("access token")
  <2>1. /\ DOMAIN base = {"token", "token_type_hint"}
        /\ base["token"] = "access token" /\ base["token_type_hint"] = "access_token"
    BY <1>5, Zenon DEF RevokeParams
  <2>2. /\ "token" \in ParamNames /\ "token_type_hint" \in ParamNames
        /\ "access_token" \in ParamTexts /\ "access token" \in ParamTexts
    BY TextsOccur, Zenon
  <2>3. {"token", "token_type_hint"} \subseteq ParamNames BY <2>2
  <2>4. Known(base) BY <1>2, <2>1, <2>2, <2>3, Zenon
  <2>5. QED BY <2>1, <2>4
<1>6. QED BY <1>1, <1>3, <1>4, <1>5, Zenon DEF Bases

------------------------------------------------------------------------------
(* The client in its requests *)

\* The hook leaves alone what identifies the client; it may add headers of its own.
HookKeepsCredentials ==
    \A kind \in Kinds : \A params, headers :
        LET t == Transform(kind, params, headers)
        IN  /\ t.params = params
            /\ "Authorization" \in DOMAIN t.headers <=> "Authorization" \in DOMAIN headers
            /\ "Authorization" \in DOMAIN headers =>
                 t.headers["Authorization"] = headers["Authorization"]

\* A configuration whose method has the secret it needs.
HasSecret(config) ==
    config.method \in {"client_secret_post", "client_secret_basic"} => config.client_secret # None

\* The parameters of a request: the extras as they are, else the id, and the secret where it belongs.
LEMMA AllParamsAre ==
    ASSUME NEW config \in Configs, NEW kind \in Kinds, NEW base \in Bases(config), HasSecret(config),
           NEW params, params = AllParams(config, kind, base)
    PROVE  /\ Known(params)
           /\ "client_id" \in DOMAIN params
           /\ "client_id" \notin DOMAIN ExtraParams(config, kind) =>
                  params["client_id"] = config.client_id
           /\ "client_secret" \notin DOMAIN ExtraParams(config, kind) =>
                  IF config.method = "client_secret_post"
                  THEN "client_secret" \in DOMAIN params /\ params["client_secret"] = config.client_secret
                  ELSE "client_secret" \notin DOMAIN params
           /\ \A name \in DOMAIN ExtraParams(config, kind) :
                  name \in DOMAIN params /\ params[name] = ExtraParams(config, kind)[name]
<1>1. PICK id : id = [client_id |-> config.client_id] OBVIOUS
<1>2. PICK secret : secret = SecretParams(config) OBVIOUS
<1>3. PICK extra : extra = ExtraParams(config, kind) OBVIOUS
<1>4. DOMAIN id = {"client_id"} /\ id["client_id"] = config.client_id BY <1>1
<1>5. /\ Known(base) /\ "client_id" \notin DOMAIN base /\ "client_secret" \notin DOMAIN base
  BY BasesKnown
<1>6. Known(id)
  <2>1. "client_id" \in ParamNames /\ config.client_id \in ParamTexts BY TextsOccur
  <2>2. IsFiniteSet({"client_id"}) BY FS_Singleton
  <2>3. QED BY <1>4, <2>1, <2>2 DEF Known
<1>7. IF config.method = "client_secret_post"
      THEN DOMAIN secret = {"client_secret"} /\ secret["client_secret"] = config.client_secret
      ELSE DOMAIN secret = {}
  BY <1>2, EmptyKnown DEF SecretParams, HasSecret
<1>8. Known(secret)
  <2>1. "client_secret" \in ParamNames BY TextsOccur
  <2>2. IsFiniteSet({"client_secret"}) BY FS_Singleton
  <2>3. IsFiniteSet({}) BY FS_EmptySet
  <2>4. config.client_secret # None => config.client_secret \in ParamTexts BY TextsOccur
  <2>5. CASE config.method = "client_secret_post"
    BY <1>7, <2>1, <2>2, <2>4, <2>5 DEF Known, HasSecret
  <2>6. CASE config.method # "client_secret_post" BY <1>7, <2>3, <2>6 DEF Known
  <2>7. QED BY <2>5, <2>6
<1>9. Known(extra) BY <1>3, TextsOccur DEF ExtraParams
<1>10. PICK first : first = Over(id, base) OBVIOUS
<1>11. PICK own : own = Over(secret, first) OBVIOUS
<1>12. params = Over(extra, own) BY <1>1, <1>2, <1>3, <1>10, <1>11 DEF AllParams, OwnParams
<1>13. /\ Known(first) /\ DOMAIN first = {"client_id"} \cup DOMAIN base
       /\ first["client_id"] = config.client_id
  BY <1>4, <1>5, <1>6, <1>10, OverKnown DEF Over
<1>14. /\ Known(own) /\ DOMAIN own = DOMAIN secret \cup DOMAIN first
       /\ \A n \in DOMAIN secret : own[n] = secret[n]
       /\ \A n \in DOMAIN first : n \notin DOMAIN secret => own[n] = first[n]
  BY <1>8, <1>11, <1>13, OverKnown DEF Over
<1>15. /\ Known(params) /\ DOMAIN params = DOMAIN extra \cup DOMAIN own
       /\ \A n \in DOMAIN extra : params[n] = extra[n]
       /\ \A n \in DOMAIN own : n \notin DOMAIN extra => params[n] = own[n]
  BY <1>9, <1>12, <1>14, OverKnown DEF Over
<1>16. own["client_id"] = config.client_id /\ "client_id" \in DOMAIN own
  BY <1>7, <1>13, <1>14
<1>17. IF config.method = "client_secret_post"
       THEN "client_secret" \in DOMAIN own /\ own["client_secret"] = config.client_secret
       ELSE "client_secret" \notin DOMAIN own
  BY <1>5, <1>7, <1>13, <1>14
<1>18. QED BY <1>3, <1>15, <1>16, <1>17

\* The header that authenticates a client is there for one method, unless configured.
LEMMA AllHeadersAre ==
    ASSUME NEW config, HasSecret(config), "Authorization" \notin DOMAIN config.extra_headers,
           NEW headers, headers = AllHeaders(config)
    PROVE  /\ "Authorization" \in DOMAIN headers <=> config.method = "client_secret_basic"
           /\ config.method = "client_secret_basic" =>
                  headers["Authorization"]
                      = <<"Basic", BasicCredentials(config.client_id, config.client_secret)>>
<1>1. PICK accept : accept = [Accept |-> "application/json"] OBVIOUS
<1>2. PICK secret : secret = SecretHeaders(config) OBVIOUS
<1>3. PICK extra : extra = config.extra_headers OBVIOUS
<1>4. PICK own : own = Over(secret, accept) OBVIOUS
<1>5. DOMAIN accept = {"Accept"} BY <1>1
<1>6. IF config.method = "client_secret_basic"
      THEN /\ DOMAIN secret = {"Authorization"}
           /\ secret["Authorization"]
                  = <<"Basic", BasicCredentials(config.client_id, config.client_secret)>>
      ELSE DOMAIN secret = {}
  BY <1>2, EmptyKnown DEF SecretHeaders, HasSecret
<1>7. headers = Over(extra, own) BY <1>1, <1>2, <1>3, <1>4 DEF AllHeaders
<1>8. /\ DOMAIN own = DOMAIN secret \cup {"Accept"}
      /\ \A n \in DOMAIN secret : own[n] = secret[n]
  BY <1>4, <1>5 DEF Over
<1>9. /\ DOMAIN headers = DOMAIN extra \cup DOMAIN own
      /\ \A n \in DOMAIN own : n \notin DOMAIN extra => headers[n] = own[n]
  BY <1>7 DEF Over
<1>10. QED BY <1>3, <1>6, <1>8, <1>9

\* Authenticated, of one request.
WellAuthenticated(config, request) ==
    LET extra == ExtraParams(config, request.kind)
        read == Received(request.body)
    IN  /\ "client_id" \notin DOMAIN extra => ValuesOf(read, "client_id") = {Bytes(config.client_id)}
        /\ "client_secret" \notin DOMAIN extra =>
             ValuesOf(read, "client_secret") = IF config.method = "client_secret_post"
                                               THEN {Bytes(config.client_secret)} ELSE {}
        /\ \A name \in DOMAIN extra : ValuesOf(read, name) = {Bytes(extra[name])}
        /\ "Authorization" \notin DOMAIN config.extra_headers =>
             /\ ("Authorization" \in DOMAIN request.headers)
                    <=> (config.method = "client_secret_basic")
             /\ config.method = "client_secret_basic" =>
                  ReceivedCredentials(request.headers["Authorization"][2])
                      = <<Bytes(config.client_id), Bytes(config.client_secret)>>

\* Every request that is prepared of a checked configuration is.
LEMMA RequestAuthenticated ==
    ASSUME HookKeepsCredentials, NEW config \in Configs, NEW kind \in Kinds,
           NEW base \in Bases(config), HasSecret(config),
           NEW request, request = PrepareRequest(config, kind, base)
    PROVE  WellAuthenticated(config, request)
<1>1. PICK params : params = AllParams(config, kind, base) OBVIOUS
<1>2. PICK headers : headers = AllHeaders(config) OBVIOUS
<1>3. PICK hooked : hooked = Transform(kind, params, headers) OBVIOUS
<1>4. /\ request.kind = kind /\ request.headers = hooked.headers
      /\ request.body = EncodeBody(hooked.params, config.encoding[kind])
  BY <1>1, <1>2, <1>3 DEF PrepareRequest, AllParams, OwnParams, AllHeaders
<1>5. /\ hooked.params = params
      /\ "Authorization" \in DOMAIN hooked.headers <=> "Authorization" \in DOMAIN headers
      /\ "Authorization" \in DOMAIN headers => hooked.headers["Authorization"] = headers["Authorization"]
  BY <1>3 DEF HookKeepsCredentials
<1>6. PICK extra : extra = ExtraParams(config, kind) OBVIOUS
<1>7. /\ Known(params)
      /\ "client_id" \in DOMAIN params
      /\ "client_id" \notin DOMAIN extra => params["client_id"] = config.client_id
      /\ "client_secret" \notin DOMAIN extra =>
             IF config.method = "client_secret_post"
             THEN "client_secret" \in DOMAIN params /\ params["client_secret"] = config.client_secret
             ELSE "client_secret" \notin DOMAIN params
      /\ \A name \in DOMAIN extra : name \in DOMAIN params /\ params[name] = extra[name]
  BY <1>1, <1>6, AllParamsAre
<1>8. PICK read : read = {<<Bytes(n), Bytes(params[n])>> : n \in DOMAIN params} OBVIOUS
<1>9. Received(request.body) = read
  <2>1. \A t \in ParamTexts : Bytes(t) \in Seq(Octets) BY ParamsAssumption DEF Octets
  <2>2. ParamNames \subseteq ParamTexts BY TextsOccur
  <2>3. Textual(params) BY <1>7, <2>1, <2>2 DEF Textual, Known
  <2>4. QED BY <1>4, <1>5, <1>8, <2>3, BodyIsRead
<1>10. \A name \in ParamNames :
          ValuesOf(read, name) = IF name \in DOMAIN params THEN {Bytes(params[name])} ELSE {}
  BY <1>7, <1>8, ValuesAre DEF Known
<1>11. "client_id" \in ParamNames /\ "client_secret" \in ParamNames BY TextsOccur
<1>12. "client_id" \notin DOMAIN extra => ValuesOf(read, "client_id") = {Bytes(config.client_id)}
  BY <1>7, <1>10, <1>11
<1>13. "client_secret" \notin DOMAIN extra =>
         ValuesOf(read, "client_secret") = IF config.method = "client_secret_post"
                                           THEN {Bytes(config.client_secret)} ELSE {}
  BY <1>7, <1>10, <1>11
<1>14. \A name \in DOMAIN extra : ValuesOf(read, name) = {Bytes(extra[name])}
  BY <1>7, <1>10 DEF Known
<1>15. ASSUME "Authorization" \notin DOMAIN config.extra_headers
       PROVE  /\ ("Authorization" \in DOMAIN request.headers)
                    <=> (config.method = "client_secret_basic")
              /\ config.method = "client_secret_basic" =>
                  ReceivedCredentials(request.headers["Authorization"][2])
                      = <<Bytes(config.client_id), Bytes(config.client_secret)>>
  <2>1. /\ "Authorization" \in DOMAIN headers <=> config.method = "client_secret_basic"
        /\ config.method = "client_secret_basic" =>
               headers["Authorization"]
                   = <<"Basic", BasicCredentials(config.client_id, config.client_secret)>>
    BY <1>2, <1>15, AllHeadersAre
  <2>2. config.method = "client_secret_basic" =>
          ReceivedCredentials(BasicCredentials(config.client_id, config.client_secret))
              = <<Bytes(config.client_id), Bytes(config.client_secret)>>
    <3> SUFFICES ASSUME config.method = "client_secret_basic"
                 PROVE  ReceivedCredentials(BasicCredentials(config.client_id, config.client_secret))
                            = <<Bytes(config.client_id), Bytes(config.client_secret)>>
      OBVIOUS
    <3>1. config.client_id \in ParamTexts /\ config.client_secret \in ParamTexts
      BY TextsOccur DEF HasSecret
    <3>2. /\ Bytes(config.client_id) \in Seq(Octets)
          /\ Bytes(config.client_secret) \in Seq(Octets)
      BY <3>1, ParamsAssumption DEF Octets
    <3>3. QED BY <3>2, CredentialsAreRead
  <2>3. QED BY <1>4, <1>5, <2>1, <2>2
<1>16. QED BY <1>4, <1>6, <1>9, <1>12, <1>13, <1>14, <1>15 DEF WellAuthenticated

\* What is known of a request of a client: it was prepared from a configuration that was checked.
SentIsPrepared ==
    sent # None /\ sent.request.kind \in Kinds =>
        /\ stage \in {"built", "coded"}
        /\ \E config \in Configs : \E kind \in Kinds, base \in Bases(config) :
             given = config /\ sent.request = PrepareRequest(config, kind, base)

BuiltHasSecret == stage \in {"built", "coded"} => HasSecret(given)

PreparedInv == DiscoveryInv /\ SentIsPrepared /\ BuiltHasSecret

\* No step takes that away.
LEMMA PreparedStep == PreparedInv /\ [Next]_vars => SentIsPrepared' /\ BuiltHasSecret'
<1> SUFFICES ASSUME PreparedInv, [Next]_vars PROVE SentIsPrepared' /\ BuiltHasSecret' OBVIOUS
<1>1. CASE Launch \/ Discover
  <2>1. /\ UNCHANGED sent /\ stage' \in {"configured", "asking"} /\ stage \in {"down", "configured"}
    BY <1>1 DEF Launch, Discover
  <2>2. sent = None \/ sent.request.kind = "metadata"
    BY <2>1 DEF PreparedInv, DiscoveryInv, OnlyMetadata
  <2>3. QED BY <2>1, <2>2 DEF SentIsPrepared, BuiltHasSecret, Kinds
<1>2. CASE Ask
  <2>1. stage' \in {"configured", "asking"} /\ sent'.request.kind = "metadata"
    BY <1>2 DEF Ask, Metadata
  <2>2. QED BY <2>1 DEF SentIsPrepared, BuiltHasSecret, Kinds
<1>3. CASE Build
  <2>1. UNCHANGED <<sent, given>> /\ stage = "configured" /\ Valid(given, endpoint) BY <1>3 DEF Build
  <2>2. sent = None \/ sent.request.kind = "metadata"
    BY <2>1 DEF PreparedInv, DiscoveryInv, OnlyMetadata
  <2>3. HasSecret(given) BY <2>1 DEF Valid, HasSecret
  <2>4. QED BY <2>1, <2>2, <2>3 DEF SentIsPrepared, BuiltHasSecret, Kinds
<1>4. CASE RequestCode \/ Poll \/ PollNowhere \/ RefreshStored \/ Logout
  <2>1. stage \in {"built", "coded"} /\ stage' \in {"built", "coded"} /\ UNCHANGED given
    BY <1>4 DEF RequestCode, Poll, PollNowhere, RefreshStored, Logout, Send
  <2>2. BuiltHasSecret' BY <2>1 DEF PreparedInv, BuiltHasSecret
  <2>3. given \in Configs BY <2>1 DEF PreparedInv, DiscoveryInv, TypeOK
  <2>4. CASE UNCHANGED sent BY <2>1, <2>2, <2>4 DEF PreparedInv, SentIsPrepared
  <2>5. CASE \E kind \in Kinds, base \in Bases(given) : Send(kind, base)
    <3>1. PICK config \in Configs : config = given BY <2>3
    <3>2. PICK kind \in Kinds, base \in Bases(config) : Send(kind, base) BY <2>5, <3>1
    <3>3. sent'.request = PrepareRequest(config, kind, base) BY <3>1, <3>2 DEF Send
    <3>4. given' = config BY <2>1, <3>1
    <3>5. QED BY <2>1, <2>2, <3>3, <3>4 DEF SentIsPrepared
  <2>6. UNCHANGED sent \/ \E kind \in Kinds, base \in Bases(given) : Send(kind, base)
    BY <1>4 DEF RequestCode, Poll, PollNowhere, RefreshStored, Logout, Kinds, Bases
  <2>7. QED BY <2>2, <2>4, <2>5, <2>6
<1>5. CASE Quit BY <1>5 DEF Quit, SentIsPrepared, BuiltHasSecret
<1>6. CASE UNCHANGED vars
  BY <1>6 DEF vars, PreparedInv, SentIsPrepared, BuiltHasSecret
<1>7. QED BY <1>1, <1>2, <1>3, <1>4, <1>5, <1>6 DEF Next

\* Whatever the configurations and whatever bytes ids, secrets and extras are made of, the
\* server reads in every request the client's id, its secret only where the method puts it, and the
\* extras, provided the hook leaves parameters and the Authorization header as they are
\* (prepare_request, apply_client_auth, form_encode, basic_credentials).
THEOREM ServerReadsTheClient ==
    ASSUME HookKeepsCredentials
    PROVE  Spec => []Authenticated
<1>1. Init => PreparedInv
  BY DiscoveryStart DEF Init, PreparedInv, SentIsPrepared, BuiltHasSecret
<1>2. PreparedInv /\ [Next]_vars => PreparedInv'
  <2> SUFFICES ASSUME PreparedInv, [Next]_vars PROVE PreparedInv' OBVIOUS
  <2>1. DiscoveryInv' BY DiscoveryStep DEF PreparedInv
  <2>2. QED BY <2>1, PreparedStep DEF PreparedInv
<1>3. PreparedInv => Authenticated
  <2> SUFFICES ASSUME PreparedInv, sent # None, sent.request.kind \in Kinds
               PROVE  WellAuthenticated(given, sent.request)
    BY DEF Authenticated, WellAuthenticated, ValuesOf
  <2>1. stage \in {"built", "coded"} BY DEF PreparedInv, SentIsPrepared
  <2>2. PICK config \in Configs :
          \E kind \in Kinds, base \in Bases(config) :
              given = config /\ sent.request = PrepareRequest(config, kind, base)
    BY DEF PreparedInv, SentIsPrepared
  <2>3. HasSecret(config) BY <2>1, <2>2 DEF PreparedInv, BuiltHasSecret
  <2>4. PICK request : request = sent.request OBVIOUS
  <2>5. WellAuthenticated(config, request) BY <2>2, <2>3, <2>4, RequestAuthenticated
  <2>6. QED BY <2>2, <2>4, <2>5
<1>4. QED BY <1>1, <1>2, <1>3, PTL DEF Spec
===============================================================================
