------------------------------- MODULE Encoding -------------------------------
(***************************************************************************)
(* Bodies and credentials as bytes: form-urlencoding in both directions    *)
(* and base64 (auth/encoding.rs), the body of a request (auth/request.rs), *)
(* and the body of a response (auth/parse.rs); and how a server reads what *)
(* it is sent.                                                             *)
(*                                                                         *)
(* A text is the sequence of its bytes, always UTF-8 here: what            *)
(* from_utf8_lossy does to other bytes is left out.  A character of base64 *)
(* is its place in the alphabet.  JSON is read and written elsewhere.      *)
(***************************************************************************)
EXTENDS Names

CONSTANTS
    None,
    Bytes(_)   \* the bytes of a name or a value

ASSUME EncodingAssumption == None \notin 0 .. 255

Space == 32
Percent == 37
Ampersand == 38
Plus == 43
Colon == 58
Equals == 61
Brace == 123
Pad == 64      \* of base64

------------------------------------------------------------------------------
(* Forms *)

Unreserved == 65 .. 90 \cup 97 .. 122 \cup 48 .. 57 \cup {45, 46, 95, 126}

HexDigit(n) == IF n < 10 THEN 48 + n ELSE 55 + n

EncodeComponent(text) ==
    LET encoded(b) == CASE b \in Unreserved -> <<b>>
                        [] b = Space -> <<Plus>>
                        [] OTHER -> <<Percent, HexDigit(b \div 16), HexDigit(b % 16)>>
    IN  FlattenSeq([i \in DOMAIN text |-> encoded(text[i])])

\* The value of a hexadecimal digit of either case, or None.
HexValue(b) ==
    CASE b \in 48 .. 57  -> b - 48
      [] b \in 65 .. 70  -> b - 55
      [] b \in 97 .. 102 -> b - 87
      [] OTHER           -> None

\* What from_str_radix makes of two bytes: it takes a sign before a digit.
Escaped(high, low) ==
    CASE HexValue(low) = None -> None
      [] HexValue(low) # None /\ high = Plus -> HexValue(low)
      [] HexValue(low) # None /\ high # Plus ->
           IF HexValue(high) = None THEN None ELSE 16 * HexValue(high) + HexValue(low)

\* A byte that is no escape stands for itself, a malformed escape included.  No escape begins
\* within another: of the bytes after a "%" that make one none is a "%".
DecodeComponent(text) ==
    LET escaped(i) == IF i \in 1 .. Len(text) - 2 /\ text[i] = Percent
                      THEN Escaped(text[i + 1], text[i + 2]) ELSE None
        decoded(i) == CASE escaped(i) # None -> <<escaped(i)>>
                        [] escaped(i - 1) # None \/ escaped(i - 2) # None -> <<>>
                        [] OTHER -> <<IF text[i] = Plus THEN Space ELSE text[i]>>
    IN  FlattenSeq([i \in DOMAIN text |-> decoded(i)])

\* Before and after the first separator; nothing is after it where it is missing.
SplitOnce(text, separator) ==
    LET at == SelectInSeq(text, LAMBDA b : b = separator)
    IN  IF at = 0 THEN <<text, <<>>>>
        ELSE <<SubSeq(text, 1, at - 1), SubSeq(text, at + 1, Len(text))>>

FormEncode(pairs) ==
    FlattenSeq([i \in DOMAIN pairs |->
        (IF i = 1 THEN <<>> ELSE <<Ampersand>>)
        \o EncodeComponent(pairs[i][1]) \o <<Equals>> \o EncodeComponent(pairs[i][2])])

FormDecode(body) ==
    LET segments == NonEmpty(Split(body, Ampersand))
        halves(s) == SplitOnce(s, Equals)
    IN  [i \in DOMAIN segments |-> <<DecodeComponent(halves(segments[i])[1]),
                                     DecodeComponent(halves(segments[i])[2])>>]

------------------------------------------------------------------------------
(* Credentials *)

Base64Encode(bytes) ==
    FlattenSeq([chunk \in 1 .. (Len(bytes) + 2) \div 3 |->
        LET has(k) == 3 * (chunk - 1) + k <= Len(bytes)
            b(k) == IF has(k) THEN bytes[3 * (chunk - 1) + k] ELSE 0
            triple == 65536 * b(1) + 256 * b(2) + b(3)
        IN  <<triple \div 262144, (triple \div 4096) % 64,
              IF has(2) THEN (triple \div 64) % 64 ELSE Pad,
              IF has(3) THEN triple % 64 ELSE Pad>>])

\* Mutant of BasicCredentials: the id and the secret are joined as they are.
BasicCredentialsRaw(id, secret) == Base64Encode(Bytes(id) \o <<Colon>> \o Bytes(secret))

BasicCredentials(id, secret) ==
    Base64Encode(EncodeComponent(Bytes(id)) \o <<Colon>> \o EncodeComponent(Bytes(secret)))

------------------------------------------------------------------------------
(* Bodies *)

\* Parameters are a function from names to values.
EncodeBody(params, encoding) ==
    LET names == SetToSeq(DOMAIN params)
    IN  IF encoding = "form"
        THEN [form |-> FormEncode([i \in DOMAIN names |-> <<Bytes(names[i]), Bytes(params[names[i]])>>])]
        ELSE [json |-> params]

\* A response is its content type, its text, and the JSON object that text is, or None.
\* Of two values under one name the later counts.
DecodeBody(response) ==
    LET spaces == {32, 9, 10, 13}
        first == SelectInSeq(response.text, LAMBDA b : b \notin spaces)
        looksJson == response.content_type = "json" \/ (first # 0 /\ response.text[first] = Brace)
        pairs == FormDecode(response.text)
        oneName == Len(pairs) = 1 /\ pairs[1][2] = <<>> /\ ~Contains(response.text, Equals)
    IN  CASE looksJson /\ response.object # None -> response.object
          [] ~(looksJson /\ response.object # None) /\ (pairs = <<>> \/ oneName) -> None
          [] OTHER -> [name \in {pairs[i][1] : i \in DOMAIN pairs} |->
                          pairs[SelectLastInSeq(pairs, LAMBDA p : p[1] = name)][2]]

------------------------------------------------------------------------------
(* What the server finds *)

Base64Decode(text) ==
    FlattenSeq([chunk \in 1 .. Len(text) \div 4 |->
        LET pads == Cardinality({k \in 1 .. 4 : text[4 * (chunk - 1) + k] = Pad})
            c(k) == text[4 * (chunk - 1) + k] % 64
            triple == 262144 * c(1) + 4096 * c(2) + 64 * c(3) + c(4)
        IN  SubSeq(<<triple \div 65536, (triple \div 256) % 256, triple % 256>>, 1, 3 - pads)])

\* The names and values of a body.
Received(body) ==
    IF "form" \in DOMAIN body THEN Range(FormDecode(body.form))
    ELSE {<<Bytes(name), Bytes(body.json[name])>> : name \in DOMAIN body.json}

\* The id and the secret of a Basic header (RFC 6749, section 2.3.1).
ReceivedCredentials(encoded) ==
    LET halves == SplitOnce(Base64Decode(encoded), Colon)
    IN  <<DecodeComponent(halves[1]), DecodeComponent(halves[2])>>
===============================================================================
