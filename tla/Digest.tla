------------------------------- MODULE Digest -------------------------------
(***************************************************************************)
(* Digest authentication: the nonces of HashOracle, the challenge and the  *)
(* answer to it as header fields, and what is compared in the end.         *)
(*                                                                         *)
(* A hash is modelled by the record of what goes into it: two are equal if *)
(* and only if the same was hashed.  A nonce is the number that is         *)
(* encrypted: nobody else can make one.  A header field on the wire is a   *)
(* sequence of parameters, each with a name, the pieces of its value       *)
(* between commas, and whether it is quoted.                               *)
(***************************************************************************)
EXTENDS Naturals, Sequences, FiniteSetsExt

CONSTANT VTime     \* how long a nonce may be used (vtime)

None == "none"

-----------------------------------------------------------------------------
(* Security/SipNonce.py                                                    *)

Algorithms == {None, "MD5", "MD5-sess", "SHA-256", "SHA-256-sess",
               "SHA-512-256", "SHA-512-256-sess"}

\* _HASH_FUNC: the function and the mask of an algorithm.
HashFunc(alg) == CASE alg \in {None, "MD5", "MD5-sess"}   -> "md5"
                   [] alg \in {"SHA-256", "SHA-256-sess"} -> "sha256"
                   [] OTHER                               -> "sha512_256"
AlgMask(alg) == CASE alg \in {None, "MD5"}     -> 1
                  [] alg = "MD5-sess"          -> 2
                  [] alg = "SHA-256"           -> 4
                  [] alg = "SHA-256-sess"      -> 8
                  [] alg = "SHA-512-256"       -> 16
                  [] alg = "SHA-512-256-sess"  -> 32
HasBit(n, bit) == (n \div bit) % 2 = 1
WithBit(n, bit) == IF HasBit(n, bit) THEN n ELSE n + bit

\* 2^len(DGST_PRIOS): so many bits below the time hold the masks.
Masks == 64

emit_challenge(now, alg) == WithBit(now * Masks, AlgMask(alg))

validate_challenge(nonce, alg, now) ==
    LET orig_ts == nonce \div Masks IN
    /\ HasBit(nonce, AlgMask(alg))
    /\ orig_ts <= now /\ now - orig_ts <= VTime

-----------------------------------------------------------------------------
(* SipWWWAuthenticate.py and SipAuthorization.py                           *)

Param(name, value, quoted) == [name |-> name, value |-> value, quoted |-> quoted]
If(cond, params) == IF cond THEN params ELSE <<>>

\* The last parameter of a name counts.
Value(ps, name, default) ==
    LET at == {i \in DOMAIN ps : ps[i].name = name} IN
    IF at = {} THEN default ELSE ps[Max(at)].value

\* A challenge of ours for an algorithm.
WWWAuthenticate(alg, now) ==
    [realm |-> "realm", nonce |-> emit_challenge(now, alg), algorithm |-> alg,
     qop |-> IF alg = None THEN <<>> ELSE <<"auth">>, opaque |-> None]

QuotesList(qop) == Len(qop) > 1

localStr(ch) ==
    <<Param("realm", <<ch.realm>>, TRUE), Param("nonce", <<ch.nonce>>, TRUE)>>
    \o If(ch.qop # <<>>, <<Param("qop", ch.qop, QuotesList(ch.qop))>>)
    \o If(ch.algorithm # None, <<Param("algorithm", <<ch.algorithm>>, FALSE)>>)
    \o If(ch.opaque # None, <<Param("opaque", <<ch.opaque>>, TRUE)>>)

\* SipWWWAuthenticate.parse() splits at the quotes first: a comma in a quoted
\* value separates nothing, one in another value leaves a piece without "=".
ParsesChallenge(ps) == \A i \in DOMAIN ps : ps[i].quoted \/ Len(ps[i].value) = 1

parseChallenge(ps) ==
    LET alg == Value(ps, "algorithm", <<None>>)[1] IN
    [realm |-> Value(ps, "realm", <<None>>)[1], nonce |-> Value(ps, "nonce", <<0>>)[1],
     algorithm |-> IF alg = "md5" THEN "MD5" ELSE alg,
     qop |-> Value(ps, "qop", <<>>), opaque |-> Value(ps, "opaque", <<None>>)[1]]

Supported == {"auth", "auth-int"}

\* supportedAlgorithm(): whether the challenge can be answered, and the qop.
supportedAlgorithm(ch) ==
    LET at == {i \in DOMAIN ch.qop : ch.qop[i] \in Supported} IN
    IF ch.qop # <<>>
    THEN [ok |-> at # {} /\ ch.algorithm \in Algorithms,
          qop |-> IF at = {} THEN None ELSE ch.qop[Min(at)]]
    ELSE [ok |-> ch.algorithm \in {None, "MD5"}, qop |-> None]

Sess == {"MD5-sess", "SHA-256-sess", "SHA-512-256-sess"}

DigestCalcHA1(a, password) ==
    [hash |-> HashFunc(a.algorithm), username |-> a.username, realm |-> a.realm,
     password |-> password,
     session |-> IF a.algorithm \in Sess THEN [nonce |-> a.nonce, cnonce |-> a.cnonce]
                 ELSE [nonce |-> 0, cnonce |-> None]]

Entity(qop, body) == If(qop = "auth-int", <<body>>)

DigestCalcResponse(a, HA1, method, body) ==
    [hash |-> HashFunc(a.algorithm), HA1 |-> HA1, nonce |-> a.nonce,
     count |-> If(a.nc # None /\ a.cnonce # None /\ a.qop # None, <<a.nc, a.cnonce, a.qop>>),
     method |-> method, uri |-> a.uri, entity |-> Entity(a.qop, body)]

\* genAuthHF(): the answer to challenge ch, as the header field of a request.
genAuthHF(ch, username, password, method, uri, body, qop) ==
    LET counted == ch.qop # <<>> /\ qop # None
        a == [realm |-> ch.realm, nonce |-> ch.nonce, uri |-> uri, username |-> username,
              algorithm |-> ch.algorithm, opaque |-> ch.opaque,
              qop    |-> IF counted THEN qop ELSE None,
              nc     |-> IF counted THEN "00000001" ELSE None,
              cnonce |-> IF counted THEN "cnonce" ELSE None]
    IN  [a |-> a, response |-> DigestCalcResponse(a, DigestCalcHA1(a, password), method, body)]

\* Mistake: the count is hashed and not sent.
strAuthorizationPlain(h) ==
    LET a == h.a IN
    <<Param("username", <<a.username>>, TRUE), Param("realm", <<a.realm>>, TRUE),
      Param("nonce", <<a.nonce>>, TRUE), Param("uri", <<a.uri>>, TRUE)>>
    \o If(a.algorithm # None, <<Param("algorithm", <<a.algorithm>>, FALSE)>>)
    \o If(a.qop # None, <<Param("qop", <<a.qop>>, FALSE)>>)

\* SipAuthorization.__str__(), and parse(), which knows nothing of quotes.
strAuthorization(h) ==
    LET a == h.a IN
    <<Param("username", <<a.username>>, TRUE), Param("realm", <<a.realm>>, TRUE),
      Param("nonce", <<a.nonce>>, TRUE), Param("uri", <<a.uri>>, TRUE)>>
    \o If(a.algorithm # None, <<Param("algorithm", <<a.algorithm>>, FALSE)>>)
    \o If(a.qop # None, <<Param("qop", <<a.qop>>, FALSE), Param("nc", <<a.nc>>, FALSE),
                          Param("cnonce", <<a.cnonce>>, TRUE)>>)
    \o If(a.opaque # None, <<Param("opaque", <<a.opaque>>, TRUE)>>)

parseAuthorization(ps, response) ==
    LET Get(name) == Value(ps, name, <<None>>)[1] IN
    [a |-> [realm |-> Get("realm"), nonce |-> Get("nonce"), uri |-> Get("uri"),
            username |-> Get("username"), algorithm |-> Get("algorithm"),
            opaque |-> Get("opaque"), qop |-> Get("qop"), nc |-> Get("nc"),
            cnonce |-> Get("cnonce")],
     response |-> response]

\* verify(); verifyHA1() is asked after HA1 was computed, which raises for an
\* algorithm that is not known.
verify(h, password, method, body, now) ==
    /\ h.a.qop \in Supported \cup {None}
    /\ validate_challenge(h.a.nonce, h.a.algorithm, now)
    /\ DigestCalcResponse(h.a, DigestCalcHA1(h.a, password), method, body) = h.response
=============================================================================
