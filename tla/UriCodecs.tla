----------------------------- MODULE UriCodecs -----------------------------
(***************************************************************************)
(* data_uri and otpauth_uri.  Text is a sequence of character codes; the   *)
(* scheme in front of a URI, which a parser refuses to miss, is left out.  *)
(***************************************************************************)
EXTENDS BaseCodecs, Numbers

\* The text up to the first place of a symbol, and the one after it.
Partition(text, sep) ==
  LET at == SelectInSeq(text, LAMBDA c : c = sep)
  IN  IF at = 0 THEN [found |-> FALSE, before |-> text, after |-> <<>>]
      ELSE [found |-> TRUE, before |-> Prefix(text, at - 1), after |-> Without(text, at)]
\* What a query or a list of parameters says last of a name.
LastOf(pairs, key) == pairs[SelectLastInSeq(pairs, LAMBDA p : p[1] = key)][2]
Keys(pairs) == {pairs[i][1] : i \in DOMAIN pairs}

-----------------------------------------------------------------------------
(* A data URI: its media type, its parameters by their names, whether it   *)
(* is base64, and its bytes.  Of base64 texts those with padding in their  *)
(* middle or with characters of no alphabet, which the library skips, are  *)
(* left out.                                                               *)

Slash == 47
Semicolon == 59
EqualSign == 61
Comma == 44
Base64Word == <<98, 97, 115, 101, 54, 52>>
TextPlain == <<116, 101, 120, 116, 47, 112, 108, 97, 105, 110>>
Base64 == [i \in 1..64 |-> CASE i <= 26 -> 64 + i [] i <= 52 -> 70 + i [] i <= 62 -> i - 5
                             [] i = 63 -> 43 [] i = 64 -> 47]

data_uri_build(media_type, base64, raw) ==
  LET symbols == rfc4648_encode(raw, 6)
      payload == IF base64
                 THEN [i \in DOMAIN symbols |-> IF IsEquals(symbols[i]) THEN EqualSign ELSE Base64[symbols[i] + 1]]
                 ELSE quote(raw, {})
  IN  media_type \o (IF base64 THEN <<Semicolon>> \o Base64Word ELSE <<>>) \o <<Comma>> \o payload

payload_of(text, base64) ==
  IF base64 THEN rfc4648_decode(readd_padding(Indices(Base64, text), 4), 6) ELSE Ok(unquote(text))
params_of(said) ==
  LET pairs == [i \in DOMAIN said |-> LET p == Partition(said[i], EqualSign) IN <<p.before, p.after>>]
  IN  [k \in Keys(pairs) |-> LastOf(pairs, k)]
data_uri_of(media, rest, text) ==
  LET base64 == Base64Word \in ToSet(rest)
      raw    == payload_of(text, base64)
  IN  When(raw.ok, [media |-> media, base64 |-> base64, raw |-> raw.value,
                    params |-> params_of(SelectSeq(rest, LAMBDA seg : seg \notin {<<>>, Base64Word}))])

\* A first segment with a slash is the media type.
data_uri_segments(segs, text) ==
  IF segs # <<>> /\ Slash \in ToSet(segs[1]) THEN data_uri_of(segs[1], Tail(segs), text)
  ELSE data_uri_of(TextPlain, segs, text)
data_uri_parse(uri) ==
  LET cut == Partition(uri, Comma)
  IN  IF ~cut.found THEN Raise
      ELSE data_uri_segments(IF cut.before = <<>> THEN <<>> ELSE SplitAt(cut.before, Semicolon), cut.after)

-----------------------------------------------------------------------------
(* An otpauth URI: its type, its path, and its query, a sequence of names  *)
(* and texts.  A part of a value that may be missing is a sequence of one  *)
(* or none.                                                                *)

Colon == 58
IsSlash(c) == c = Slash
Given(x) == <<x>>
Missing == <<>>
Otp(type, label, account, issuer, secret, algorithm, digits, counter, period) ==
  [type |-> type, label |-> label, account |-> account, issuer |-> issuer, secret |-> secret,
   algorithm |-> algorithm, digits |-> digits, counter |-> counter, period |-> period]

OtpAlgorithms == {<<83, 72, 65, 49>>, <<83, 72, 65, 50, 53, 54>>, <<83, 72, 65, 53, 49, 50>>}
normalize_otp_secret(secret) ==
  LET bare == SelectSeq(secret, LAMBDA c : c # 32)
  IN  StrippedEnd(Upper(bare), LAMBDA c : c = EqualSign)
otp_accepts(v) ==
  LET secret == normalize_otp_secret(v.secret)
  IN  /\ secret # <<>> /\ ToSet(secret) \subseteq (65..90) \cup (50..55)
      /\ v.algorithm = Missing \/ Upper(v.algorithm[1]) \in OtpAlgorithms
      /\ v.type = "hotp" <=> v.counter # Missing
      /\ v.type = "hotp" => v.period = Missing

otp_path(v) == IF v.issuer # Missing /\ v.issuer[1] # <<>> /\ v.label # <<>> /\ Colon \notin ToSet(v.label)
               THEN v.issuer[1] \o <<Colon>> \o v.label ELSE v.label
otpauth_build(v) ==
  LET param(key, texts) == [i \in DOMAIN texts |-> <<key, quote(texts[i], {})>>]
      number(key, ns) == param(key, [i \in DOMAIN ns |-> Signed(ns[i])])
  IN  [type |-> v.type, path |-> quote(otp_path(v), {Colon, 64}),
       query |-> <<<<"secret", normalize_otp_secret(v.secret)>>>>
                   \o param("issuer", v.issuer) \o param("algorithm", [i \in DOMAIN v.algorithm |-> Upper(v.algorithm[i])])
                   \o number("digits", v.digits) \o number("counter", v.counter) \o number("period", v.period)]

\* The issuer of the query wins.
otp_of(uri, label, parts, query) ==
  LET has(key) == key \in Keys(query)
      number(key) == PyInt(LastOf(query, key), 10)
      numeral(key, default) == IF has(key) THEN Given(number(key).value) ELSE default
      used  == {"digits"} \cup (IF uri.type = "totp" THEN {"period"} ELSE {"counter"})
      issuer == IF has("issuer") THEN Given(LastOf(query, "issuer"))
                ELSE IF parts.found THEN Given(parts.before) ELSE Missing
  IN  IF ~has("secret") \/ \E k \in used \cap Keys(query) : ~number(k).ok THEN Raise
      ELSE Ok(Otp(uri.type, label, IF parts.found THEN parts.after ELSE label, issuer, LastOf(query, "secret"),
                  Given(IF has("algorithm") THEN Upper(LastOf(query, "algorithm")) ELSE <<83, 72, 65, 49>>),
                  numeral("digits", Given(6)),
                  IF uri.type = "hotp" THEN numeral("counter", Missing) ELSE Missing,
                  IF uri.type = "totp" THEN numeral("period", Given(30)) ELSE Missing))

\* A parameter that is blank is none at all.
parse_qs(query) ==
  LET kept == SelectSeq(query, LAMBDA p : p[2] # <<>>)
  IN  [i \in DOMAIN kept |-> <<kept[i][1], url_form_decode(kept[i][2])>>]
otpauth_parse(uri) ==
  LET label == unquote(Stripped(uri.path, IsSlash))
  IN  otp_of(uri, label, Partition(label, Colon), parse_qs(uri.query))
=============================================================================
